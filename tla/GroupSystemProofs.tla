-------------------------- MODULE GroupSystemProofs --------------------------
(***************************************************************************)
(* What holds of the server whatever its clients and peers send and        *)
(* however they end.  First every step of the group is shown to be a step  *)
(* of KeyStore (GroupKeys), so that the invariants of the keys carry over. *)
(* Then Handled sums up what the handlers have in common; from it follow   *)
(* the types, that no connection is forgotten, that a process has at most  *)
(* one connection, and that output is watched.                             *)
(***************************************************************************)
EXTENDS GroupSystem, KeyStoreProofs, SequenceTheorems

-----------------------------------------------------------------------------
(* The keys: every step of the group is one of KeyStore that loses no      *)
(* memory, or leaves the keys alone.                                       *)

KeyStep == /\ [KeyStoreNext]_keyVars
           /\ up' = up

\* A handler of an event.
LEMMA HandlerKeys ==
  ASSUME GroupServerTypeOK, NEW f \in Fds, DealRead(f) \/ DealWrite(f) \/ DealHup(f)
  PROVE  KeyStep
<1>1. /\ conn[f].user \in Users \cup {NoUser} /\ conn[f].mod \in Keys \cup {NoKey}
  BY DEF GroupServerTypeOK, Conns
<1>2. UNCHANGED keyVars => KeyStep
  BY DEF KeyStep, keyVars
<1>3. CASE DealReadError(f) \/ DealReadPart(f) \/ OnReadError(f) \/ DealReadDamaged(f) \/ DealWrite(f)
  BY <1>2, <1>3 DEF DealReadError, DealReadPart, OnReadError, DealReadDamaged, DealWrite
<1>4. CASE \E isLogin \in BOOLEAN : OnReadUserVerify(f, isLogin)
  BY <1>2, <1>4 DEF OnReadUserVerify
<1>5. CASE OnReadAllocation(f)
  <2>1. \/ UNCHANGED keyVars
        \/ /\ conn[f].user # NoUser
           /\ \/ \E k \in Keys, stop \in Stops : AllocateNew(conn[f].user, k, stop)
              \/ \E rows \in 0..MaxKey : AllocateNoKey(conn[f].user, rows)
              \/ AllocateAgain(conn[f].user)
    BY <1>5 DEF OnReadAllocation
  <2>2. \A u \in Users : \A k \in Keys, stop \in Stops : AllocateNew(u, k, stop) => KeyStep
    BY DEF AllocateNew, KeyStep, KeyStoreNext
  <2>3. \A u \in Users : \A rows \in 0..MaxKey : AllocateNoKey(u, rows) => KeyStep
    BY DEF AllocateNoKey, KeyStep, KeyStoreNext
  <2>4. \A u \in Users : AllocateAgain(u) => KeyStep
    BY DEF AllocateAgain, KeyStep, KeyStoreNext
  <2> QED
    BY <1>1, <1>2, <2>1, <2>2, <2>3, <2>4
<1>6. \A k \in Keys \cup {NoKey} : Join(k) \/ Leave(k) \/ Drop(k) => KeyStep
  BY DEF Join, Leave, Drop, KeyStep, KeyStoreNext
<1>7. CASE OnReadMemberJoin(f) \/ OnReadMemberLeave(f)
  BY <1>1, <1>6, <1>7 DEF OnReadMemberJoin, OnReadMemberLeave
<1>8. CASE DealHup(f)
  BY <1>1, <1>2, <1>6, <1>8 DEF DealHup
<1> QED
  BY <1>3, <1>4, <1>5, <1>7, <1>8 DEF DealRead

\* Every step of the group.
LEMMA GroupKeys ==
  ASSUME GroupServerTypeOK, [GroupSystemNext]_sysVars
  PROVE  KeyStep
<1>1. UNCHANGED keyVars => KeyStep
  BY DEF KeyStep, keyVars
<1>2. CASE Server
  BY <1>1, <1>2, HandlerKeys DEF Server, ServerStep, Wait, DealListen
<1>3. ASSUME NEW p \in Procs, Connect(p) \/ Die(p) \/ ClientStep(p)
      PROVE  KeyStep
  <2>1. ClientStep(p) => UNCHANGED keyVars
    BY DEF ClientStep, ReadLogin, ReadRegister, ReadAllocation, ReadMod, ReadMemJoin,
           ReadRekeying, ReadRandomNum, ReadFd
  <2> QED
    BY <1>1, <1>3, <2>1 DEF Connect, Die
<1>4. ASSUME NEW p \in Peers, PeerReads(p) \/ \E r \in Requests : PeerSends(p, r)
      PROVE  KeyStep
  BY <1>1, <1>4 DEF PeerReads, PeerSends
<1>5. CASE UNCHANGED sysVars
  BY <1>1, <1>5 DEF sysVars, serverVars
<1> QED
  BY <1>2, <1>3, <1>4, <1>5 DEF GroupSystemNext

-----------------------------------------------------------------------------
(* Types.                                                                  *)

Events == {"in", "out", "hup"}

\* An event is of a connection that is open, and the only one of it.
BatchIsOpen ==
  \A f \in Fds, ev \in Events : <<f, ev>> \in batch =>
    Open(f) /\ \A other \in Events : <<f, other>> \in batch => other = ev

TypeInv == GroupSystemTypeOK /\ BatchIsOpen

\* What the types of the server say of one descriptor.
LEMMA ConnTypes ==
  ASSUME GroupServerTypeOK, NEW f \in Fds
  PROVE  /\ conn[f] \in Conns
         /\ conn[f].proc \in Procs \cup {NoProc} /\ conn[f].user \in Users \cup {NoUser}
         /\ conn[f].mod \in Keys \cup {NoKey} /\ conn[f].act \in BOOLEAN
         /\ conn[f].rbuf \in Seq(Requests) \cup {<<Part>>} /\ conn[f].wbuf \in Seq(Messages)
         /\ Open(f) => conn[f].proc \in Procs
  BY DEF GroupServerTypeOK, Conns, Open

\* The requests that can be read are requests.
LEMMA WholeTypes ==
  ASSUME GroupServerTypeOK, NEW f \in Fds, Open(f)
  PROVE  /\ Whole(f) \in Seq(Requests)
         /\ Whole(f) # <<>> => Tail(Whole(f)) \in Seq(Requests) /\ Head(Whole(f)) \in Requests
<1>1. c2s[conn[f].proc] \in Seq(Requests)
  BY ConnTypes DEF GroupServerTypeOK
<1>2. (IF conn[f].rbuf = <<Part>> THEN <<>> ELSE conn[f].rbuf) \in Seq(Requests)
  BY ConnTypes, EmptySeq
<1>3. Whole(f) \in Seq(Requests)
  BY <1>1, <1>2, ConcatProperties DEF Whole
<1> QED
  BY <1>3, HeadTailProperties

\* One or two make a sequence.
LEMMA ShortSeqs ==
  ASSUME NEW S
  PROVE  /\ \A a \in S : <<a>> \in Seq(S) /\ Len(<<a>>) = 1 /\ <<a>>[1] = a
         /\ \A a, b \in S : <<a, b>> \in Seq(S) /\ Len(<<a, b>>) = 2
                            /\ <<a, b>>[1] = a /\ <<a, b>>[2] = b
<1>1. ASSUME NEW a \in S PROVE <<a>> \in Seq(S)
  OBVIOUS
<1>2. ASSUME NEW a \in S, NEW b \in S PROVE <<a, b>> \in Seq(S)
  OBVIOUS
<1> QED
  BY <1>1, <1>2

\* The messages are messages.
LEMMA MessageTypes ==
  /\ \A first \in {"login", "allocation", "mem_join", "mem_leave", "err"},
        second \in {"ok", "bad", "pwd", "Unexpected behaviour!", "message damaged"} :
       <<Word(first, second)>> \in Seq(Messages)
  /\ \A k \in Keys \cup {NoKey} :
       <<Word("allocation", "ok"), Mod(k)>> \in Seq(Messages)
  /\ \A g \in Nat, ks \in SUBSET Keys :
       <<Rekeying(g, ks), RandomNum(g)>> \in Seq(Messages)
<1>1. NoKey \in Nat /\ \A k \in Keys : k \in Nat
  BY DEF NoKey, Keys
<1>2. \A first \in {"login", "allocation", "mem_join", "mem_leave", "err"},
        second \in {"ok", "bad", "pwd", "Unexpected behaviour!", "message damaged"} :
       Word(first, second) \in Messages
  BY DEF Word, Messages
<1>3. \A k \in Keys \cup {NoKey} : Mod(k) \in Messages
  BY <1>1 DEF Mod, Messages
<1>4. \A g \in Nat, ks \in SUBSET Keys : Rekeying(g, ks) \in Messages /\ RandomNum(g) \in Messages
  BY DEF Rekeying, RandomNum, Messages
<1> QED
  BY <1>2, <1>3, <1>4, ShortSeqs, Zenon

\* A Conn that is changed in one place is still one.
LEMMA ConnChanges ==
  ASSUME NEW c \in Conns
  PROVE  /\ Closed(c) \in Conns /\ Closed(c).proc = NoProc
         /\ \A p \in Procs : Inited(c, p) \in Conns /\ Inited(c, p).proc = p
         /\ \A u \in Users \cup {NoUser} :
              [c EXCEPT !.user = u] \in Conns /\ [c EXCEPT !.user = u].proc = c.proc
         /\ \A a \in BOOLEAN :
              [c EXCEPT !.act = a] \in Conns /\ [c EXCEPT !.act = a].proc = c.proc
         /\ \A w \in Seq(Messages) :
              [c EXCEPT !.wbuf = w] \in Conns /\ [c EXCEPT !.wbuf = w].proc = c.proc
         /\ \A b \in Seq(Requests) \cup {<<Part>>} :
              [c EXCEPT !.rbuf = b] \in Conns /\ [c EXCEPT !.rbuf = b].proc = c.proc
         /\ \A b \in Seq(Requests), w \in Seq(Messages) :
              /\ [c EXCEPT !.rbuf = b, !.wbuf = w] \in Conns
              /\ [c EXCEPT !.rbuf = b, !.wbuf = w].proc = c.proc
<1>1. <<>> \in Seq(Requests) /\ <<>> \in Seq(Messages)
  BY EmptySeq
<1>2. /\ Closed(c) \in Conns /\ Closed(c).proc = NoProc
      /\ \A p \in Procs : Inited(c, p) \in Conns /\ Inited(c, p).proc = p
  BY <1>1 DEF Closed, Inited, Conns
<1>3. /\ \A u \in Users \cup {NoUser} :
           [c EXCEPT !.user = u] \in Conns /\ [c EXCEPT !.user = u].proc = c.proc
      /\ \A a \in BOOLEAN :
           [c EXCEPT !.act = a] \in Conns /\ [c EXCEPT !.act = a].proc = c.proc
  BY DEF Conns
<1>4. /\ \A w \in Seq(Messages) :
           [c EXCEPT !.wbuf = w] \in Conns /\ [c EXCEPT !.wbuf = w].proc = c.proc
      /\ \A b \in Seq(Requests) \cup {<<Part>>} :
           [c EXCEPT !.rbuf = b] \in Conns /\ [c EXCEPT !.rbuf = b].proc = c.proc
      /\ \A b \in Seq(Requests), w \in Seq(Messages) :
           /\ [c EXCEPT !.rbuf = b, !.wbuf = w] \in Conns
           /\ [c EXCEPT !.rbuf = b, !.wbuf = w].proc = c.proc
  BY DEF Conns
<1> QED
  BY <1>2, <1>3, <1>4

\* A Conn that takes over a modulus.
LEMMA ModChanges ==
  ASSUME NEW c \in Conns, NEW k \in Keys \cup {NoKey}, NEW a \in BOOLEAN
  PROVE  /\ [c EXCEPT !.mod = k, !.act = a] \in Conns
         /\ [c EXCEPT !.mod = k, !.act = a].proc = c.proc
         /\ [c EXCEPT !.mod = k, !.act = a].mod = k
  BY DEF Conns

\* A Conn that was handed an answer.
LEMMA AnsweredTypes ==
  ASSUME GroupServerTypeOK, NEW f \in Fds, Open(f), Whole(f) # <<>>,
         NEW c \in Conns, NEW ms \in Seq(Messages)
  PROVE  Answered(f, c, ms) \in [Fds -> Conns]
<1>1. Tail(Whole(f)) \in Seq(Requests)
  BY WholeTypes
<1>2. c.wbuf \o ms \in Seq(Messages)
  BY ConcatProperties DEF Conns
<1>3. [c EXCEPT !.rbuf = Tail(Whole(f)), !.wbuf = c.wbuf \o ms] \in Conns
  BY <1>1, <1>2, ConnChanges
<1> QED
  BY <1>3 DEF Answered, GroupServerTypeOK

\* A broadcast.
LEMMA BroadcastTypes ==
  ASSUME NEW cs \in [Fds -> Conns], NEW as \in [Fds -> {"in", "out", "none"}],
         gen \in Nat, rekey' \in SUBSET Keys, OnWriteNewKey(cs, as)
  PROVE  /\ conn' \in [Fds -> Conns] /\ armed' \in [Fds -> {"in", "out", "none"}]
         /\ gen' \in Nat
<1>1. gen' \in Nat
  BY DEF OnWriteNewKey
<1>2. <<Rekeying(gen', rekey'), RandomNum(gen')>> \in Seq(Messages)
  BY <1>1, MessageTypes
<1>3. ASSUME NEW c \in Conns
      PROVE  [c EXCEPT !.wbuf = KeyAfter(c.wbuf, <<Rekeying(gen', rekey'), RandomNum(gen')>>)] \in Conns
  <2>1. KeyAfter(c.wbuf, <<Rekeying(gen', rekey'), RandomNum(gen')>>) \in Seq(Messages)
    BY <1>2, ConcatProperties DEF KeyAfter, Conns
  <2> QED
    BY <2>1, ConnChanges
<1>4. conn' \in [Fds -> Conns]
  BY <1>3 DEF OnWriteNewKey
<1>5. armed' \in [Fds -> {"in", "out", "none"}]
  BY DEF OnWriteNewKey, ArmMembers
<1> QED
  BY <1>1, <1>4, <1>5

-----------------------------------------------------------------------------
(* What every handler of an event does to its connection and the others.   *)

\* The event is taken; the connection is closed or watched again, and of the
\* other ones epoll is at most told to watch for writing.
Handled(f) ==
  /\ \E ev \in Events : <<f, ev>> \in batch /\ batch' = batch \ {<<f, ev>>}
  /\ conn' \in [Fds -> Conns] /\ armed' \in [Fds -> {"in", "out", "none"}] /\ gen' \in Nat
  /\ \A g \in Fds : g # f => conn'[g].proc = conn[g].proc /\ armed'[g] \in {armed[g], "out"}
  /\ \/ /\ conn'[f].proc = conn[f].proc /\ armed'[f] # "none"
        /\ link' \in {link, [link EXCEPT ![conn[f].proc] = "rst"]}
     \/ /\ conn'[f].proc = NoProc
        /\ link' = [link EXCEPT ![conn[f].proc] = "closed"]
  /\ passwd' \in [Users -> {Pwd[p] : p \in Procs} \cup {NoPwd}]
  /\ backlog' = backlog
  /\ c2s' \in [Procs -> Seq(Requests)]
  /\ s2c' \in [Procs -> Seq(Messages)] /\ \A p \in Procs : Len(s2c'[p]) <= SockBuf

\* The empty buffers.
LEMMA EmptyTypes == <<>> \in Seq(Requests) /\ <<>> \in Seq(Messages) /\ Len(<<>>) = 0
  BY EmptySeq

\* Handlers that answer, and that answer and broadcast.
LEMMA AnswerHandled ==
  ASSUME TypeInv, NEW f \in Fds, NEW r, Received(f, r),
         NEW c \in Conns, c.proc = conn[f].proc, NEW ms \in Seq(Messages),
         passwd' \in [Users -> {Pwd[p] : p \in Procs} \cup {NoPwd}],
         \/ Answer(f, c, ms)
         \/ rekey' \in SUBSET Keys /\ OnWriteNewKey(Answered(f, c, ms), [armed EXCEPT ![f] = "out"])
  PROVE  Handled(f)
<1>1. GroupServerTypeOK /\ <<f, "in">> \in batch /\ batch' = batch \ {<<f, "in">>} /\ Whole(f) # <<>>
  BY DEF TypeInv, GroupSystemTypeOK, Received, Event
<1>2. Open(f) /\ "in" \in Events
  BY <1>1 DEF TypeInv, BatchIsOpen, Events
<1>3. Answered(f, c, ms) \in [Fds -> Conns] /\ gen \in Nat /\ armed \in [Fds -> {"in", "out", "none"}]
  BY <1>1, <1>2, AnsweredTypes DEF GroupServerTypeOK
<1>4. /\ c2s' \in [Procs -> Seq(Requests)] /\ backlog' = backlog /\ link' = link
      /\ s2c' \in [Procs -> Seq(Messages)] /\ \A p \in Procs : Len(s2c'[p]) <= SockBuf
  BY <1>1, EmptyTypes DEF Received, socketVars, GroupServerTypeOK
<1>5. /\ Answered(f, c, ms)[f].proc = conn[f].proc
      /\ \A g \in Fds : g # f => Answered(f, c, ms)[g] = conn[g]
  BY <1>1 DEF Answered, GroupServerTypeOK, Conns
<1>6. CASE Answer(f, c, ms)
  <2>1. conn' = Answered(f, c, ms) /\ armed' = [armed EXCEPT ![f] = "out"] /\ gen' = gen
    BY <1>6 DEF Answer
  <2> QED
    BY <1>1, <1>2, <1>3, <1>4, <1>5, <2>1 DEF Handled
<1>7. CASE rekey' \in SUBSET Keys /\ OnWriteNewKey(Answered(f, c, ms), [armed EXCEPT ![f] = "out"])
  <2> DEFINE cs == Answered(f, c, ms)
             as == [armed EXCEPT ![f] = "out"]
  <2>1. as \in [Fds -> {"in", "out", "none"}]
    BY <1>3
  <2>2. conn' \in [Fds -> Conns] /\ armed' \in [Fds -> {"in", "out", "none"}] /\ gen' \in Nat
    BY <1>3, <1>7, <2>1, BroadcastTypes
  <2> HIDE DEF cs
  <2>3. cs \in [Fds -> Conns]
    BY <1>3 DEF cs
  <2>4. \A g \in Fds : conn'[g].proc = cs[g].proc /\ armed'[g] \in {as[g], "out"}
    BY <1>7, <2>3 DEF OnWriteNewKey, ArmMembers, cs, Conns
  <2>5. cs[f].proc = conn[f].proc /\ \A g \in Fds : g # f => cs[g] = conn[g]
    BY <1>5 DEF cs
  <2>6. /\ \A g \in Fds : g # f => conn'[g].proc = conn[g].proc /\ armed'[g] \in {armed[g], "out"}
        /\ conn'[f].proc = conn[f].proc /\ armed'[f] # "none"
    BY <1>3, <2>4, <2>5
  <2> QED
    BY <1>1, <1>2, <1>4, <2>2, <2>6 DEF Handled
<1> QED
  BY <1>6, <1>7

\* Handlers that close the connection.
LEMMA CloseHandled ==
  ASSUME TypeInv, NEW f \in Fds, DealReadError(f) \/ DealHup(f),
         rekey' \in SUBSET Keys
  PROVE  Handled(f)
<1>1. GroupServerTypeOK
  BY DEF TypeInv, GroupSystemTypeOK
<1>2. /\ conn \in [Fds -> Conns] /\ armed \in [Fds -> {"in", "out", "none"}] /\ gen \in Nat
      /\ conn[f] \in Conns
  BY <1>1 DEF GroupServerTypeOK
<1>3. \E ev \in Events : <<f, ev>> \in batch /\ batch' = batch \ {<<f, ev>>}
  BY DEF DealReadError, DealHup, Event, Events
<1>4. CloseSocket(f)
  BY DEF DealReadError, DealHup
<1>5. /\ c2s' \in [Procs -> Seq(Requests)] /\ backlog' = backlog
      /\ link' = [link EXCEPT ![conn[f].proc] = "closed"]
      /\ s2c' \in [Procs -> Seq(Messages)] /\ \A p \in Procs : Len(s2c'[p]) <= SockBuf
      /\ passwd' \in [Users -> {Pwd[p] : p \in Procs} \cup {NoPwd}]
  BY <1>1, <1>4, EmptyTypes DEF CloseSocket, GroupServerTypeOK
<1>6. CASE conn' = [conn EXCEPT ![f] = Closed(@)] /\ armed' = [armed EXCEPT ![f] = "none"] /\ gen' = gen
  <2>1. Closed(conn[f]) \in Conns /\ Closed(conn[f]).proc = NoProc
    BY <1>2, ConnChanges
  <2> QED
    BY <1>2, <1>3, <1>5, <1>6, <2>1 DEF Handled
<1>7. CASE /\ OnWriteNewKey([conn EXCEPT ![f] = Closed([conn[f] EXCEPT !.act = conn[f].mod \notin active])],
                            [armed EXCEPT ![f] = "none"])
  <2> DEFINE c  == [conn[f] EXCEPT !.act = conn[f].mod \notin active]
             cs == [conn EXCEPT ![f] = Closed(c)]
             as == [armed EXCEPT ![f] = "none"]
  <2>1. c \in Conns
    <3> DEFINE a == conn[f].mod \notin active
    <3>1. a \in BOOLEAN
      BY Zenon
    <3> HIDE DEF a
    <3>2. [conn[f] EXCEPT !.act = a] \in Conns
      BY <1>2, <3>1, ConnChanges
    <3> QED
      BY <3>2 DEF a
  <2> HIDE DEF c
  <2>2. Closed(c) \in Conns /\ Closed(c).proc = NoProc
    BY <2>1, ConnChanges
  <2>3. /\ cs \in [Fds -> Conns] /\ as \in [Fds -> {"in", "out", "none"}]
        /\ cs[f].proc = NoProc /\ \A g \in Fds : g # f => cs[g] = conn[g] /\ as[g] = armed[g]
    BY <1>2, <2>2
  <2> HIDE DEF cs, as
  <2>4. OnWriteNewKey(cs, as)
    BY <1>7 DEF cs, as, c
  <2>5. conn' \in [Fds -> Conns] /\ armed' \in [Fds -> {"in", "out", "none"}] /\ gen' \in Nat
    BY <1>2, <2>3, <2>4, BroadcastTypes
  <2>6. \A g \in Fds : conn'[g].proc = cs[g].proc /\ armed'[g] \in {as[g], "out"}
    BY <2>3, <2>4 DEF OnWriteNewKey, ArmMembers, Conns
  <2> QED
    BY <1>3, <1>5, <2>3, <2>5, <2>6 DEF Handled
<1> QED
  BY <1>6, <1>7 DEF DealReadError, DealHup

\* What a write leaves in the buffers.
LEMMA TakenTypes ==
  ASSUME GroupServerTypeOK, NEW f \in Fds, Open(f)
  PROVE  /\ Taken(f) \in 0..Len(conn[f].wbuf)
         /\ Taken(f) <= SockBuf - Len(s2c[conn[f].proc])
         /\ SubSeq(conn[f].wbuf, 1, Taken(f)) \in Seq(Messages)
         /\ Len(SubSeq(conn[f].wbuf, 1, Taken(f))) = Taken(f)
         /\ SubSeq(conn[f].wbuf, Taken(f) + 1, Len(conn[f].wbuf)) \in Seq(Messages)
         /\ Len(SubSeq(conn[f].wbuf, Taken(f) + 1, Len(conn[f].wbuf))) = Len(conn[f].wbuf) - Taken(f)
<1>1. /\ conn[f].wbuf \in Seq(Messages) /\ Len(conn[f].wbuf) \in Nat
      /\ s2c[conn[f].proc] \in Seq(Messages) /\ Len(s2c[conn[f].proc]) \in Nat
      /\ Len(s2c[conn[f].proc]) <= SockBuf /\ SockBuf \in Nat
  BY ConnTypes, LenProperties, GroupServerAssumption DEF GroupServerTypeOK
<1>2. Taken(f) \in 0..Len(conn[f].wbuf) /\ Taken(f) <= SockBuf - Len(s2c[conn[f].proc])
  <2> DEFINE held == Len(conn[f].wbuf)
             sent == Len(s2c[conn[f].proc])
  <2>1. held \in Nat /\ sent \in Nat /\ sent <= SockBuf /\ SockBuf \in Nat
    BY <1>1
  <2>2. Taken(f) = IF held <= SockBuf - sent THEN held ELSE SockBuf - sent
    BY DEF Taken
  <2> HIDE DEF held, sent
  <2>3. Taken(f) \in 0..held /\ Taken(f) <= SockBuf - sent
    BY <2>1, <2>2
  <2> QED
    BY <2>3 DEF held, sent
<1>3. \A i \in 1..Len(conn[f].wbuf) : conn[f].wbuf[i] \in Messages
  BY <1>1, ElementOfSeq
<1>4. /\ SubSeq(conn[f].wbuf, 1, Taken(f)) \in Seq(Messages)
      /\ Len(SubSeq(conn[f].wbuf, 1, Taken(f))) = Taken(f)
  BY <1>1, <1>2, <1>3, SubSeqProperties
<1>5. /\ SubSeq(conn[f].wbuf, Taken(f) + 1, Len(conn[f].wbuf)) \in Seq(Messages)
      /\ Len(SubSeq(conn[f].wbuf, Taken(f) + 1, Len(conn[f].wbuf))) = Len(conn[f].wbuf) - Taken(f)
  BY <1>1, <1>2, <1>3, SubSeqProperties
<1> QED
  BY <1>2, <1>4, <1>5

\* dealWrite.
LEMMA WriteHandled ==
  ASSUME TypeInv, NEW f \in Fds, DealWrite(f)
  PROVE  Handled(f)
<1>1. GroupServerTypeOK
  BY DEF TypeInv, GroupSystemTypeOK
<1>2. /\ conn \in [Fds -> Conns] /\ armed \in [Fds -> {"in", "out", "none"}] /\ gen \in Nat
      /\ conn[f] \in Conns
      /\ s2c \in [Procs -> Seq(Messages)] /\ \A p \in Procs : Len(s2c[p]) <= SockBuf
      /\ passwd \in [Users -> {Pwd[p] : p \in Procs} \cup {NoPwd}]
      /\ c2s \in [Procs -> Seq(Requests)]
  BY <1>1 DEF GroupServerTypeOK
<1>3. /\ <<f, "out">> \in batch /\ batch' = batch \ {<<f, "out">>} /\ "out" \in Events
      /\ gen' = gen /\ passwd' = passwd /\ c2s' = c2s
  BY DEF DealWrite, Event, Events
<1>4. Open(f) /\ conn[f].proc \in Procs
  BY <1>1, <1>3, ConnTypes DEF TypeInv, BatchIsOpen
<1>5. CASE link[conn[f].proc] = "rst"
  BY <1>2, <1>3, <1>5 DEF DealWrite, socketVars, Handled
<1>6. CASE link[conn[f].proc] = "fin"
  <2>1. [conn[f] EXCEPT !.wbuf = <<>>] \in Conns /\ [conn[f] EXCEPT !.wbuf = <<>>].proc = conn[f].proc
    BY <1>2, EmptyTypes, ConnChanges
  <2>2. /\ armed' = [armed EXCEPT ![f] = "in"] /\ conn' = [conn EXCEPT ![f] = [conn[f] EXCEPT !.wbuf = <<>>]]
        /\ link' = [link EXCEPT ![conn[f].proc] = "rst"] /\ backlog' = backlog /\ s2c' = s2c
    BY <1>2, <1>6 DEF DealWrite
  <2> QED
    BY <1>2, <1>3, <2>1, <2>2 DEF Handled
<1>7. CASE link[conn[f].proc] \notin {"rst", "fin"}
  <2> DEFINE sent == SubSeq(conn[f].wbuf, 1, Taken(f))
             rest == SubSeq(conn[f].wbuf, Taken(f) + 1, Len(conn[f].wbuf))
             p == conn[f].proc
  <2>1. /\ s2c' = [s2c EXCEPT ![p] = s2c[p] \o sent]
        /\ conn' = [conn EXCEPT ![f] = [conn[f] EXCEPT !.wbuf = rest]]
        /\ armed' = [armed EXCEPT ![f] = ArmedAfter(f)]
        /\ link' = link /\ backlog' = backlog
    BY <1>2, <1>7 DEF DealWrite
  <2>2. rest \in Seq(Messages) /\ sent \in Seq(Messages) /\ Len(sent) <= SockBuf - Len(s2c[p]) /\ Len(sent) \in Nat
    BY <1>1, <1>4, TakenTypes, LenProperties
  <2>3. [conn[f] EXCEPT !.wbuf = rest] \in Conns /\ [conn[f] EXCEPT !.wbuf = rest].proc = conn[f].proc
    BY <1>2, <2>2, ConnChanges
  <2>4. s2c[p] \o sent \in Seq(Messages) /\ Len(s2c[p] \o sent) <= SockBuf
    <3>1. Len(s2c[p] \o sent) = Len(s2c[p]) + Len(sent) /\ s2c[p] \o sent \in Seq(Messages)
      BY <1>2, <1>4, <2>2, ConcatProperties
    <3>2. Len(s2c[p]) \in Nat /\ SockBuf \in Nat
      BY <1>2, <1>4, LenProperties, GroupServerAssumption
    <3> HIDE DEF sent, p
    <3> QED
      BY <2>2, <3>1, <3>2
  <2>5. s2c' \in [Procs -> Seq(Messages)] /\ \A o \in Procs : Len(s2c'[o]) <= SockBuf
    BY <1>2, <1>4, <2>1, <2>4
  <2>6. ArmedAfter(f) \in {"in", "out"}
    BY DEF ArmedAfter
  <2> QED
    BY <1>2, <1>3, <2>1, <2>3, <2>5, <2>6 DEF Handled
<1> QED
  BY <1>5, <1>6, <1>7

\* dealRead.
LEMMA ReadHandled ==
  ASSUME TypeInv, NEW f \in Fds, DealRead(f), rekey' \in SUBSET Keys
  PROVE  Handled(f)
<1>1. GroupServerTypeOK
  BY DEF TypeInv, GroupSystemTypeOK
<1>2. /\ conn \in [Fds -> Conns] /\ conn[f] \in Conns
      /\ passwd \in [Users -> {Pwd[p] : p \in Procs} \cup {NoPwd}]
      /\ userKey \in [Users -> Keys \cup {NoKey}]
  BY <1>1 DEF GroupServerTypeOK, KeyStoreTypeOK
<1>3. ASSUME <<f, "in">> \in batch
      PROVE  Open(f) /\ conn[f].proc \in Procs
  BY <1>1, <1>3, ConnTypes DEF TypeInv, BatchIsOpen, Events
<1>4. CASE DealReadError(f)
  BY <1>4, CloseHandled
<1>5. CASE DealReadPart(f)
  <2>1. /\ <<f, "in">> \in batch /\ batch' = batch \ {<<f, "in">>} /\ "in" \in Events
        /\ conn' = [conn EXCEPT ![f] = [conn[f] EXCEPT !.rbuf = <<Part>>]]
        /\ armed' = [armed EXCEPT ![f] = "in"]
        /\ gen' = gen /\ passwd' = passwd /\ link' = link /\ backlog' = backlog /\ s2c' = s2c /\ c2s' = c2s
    BY <1>2, <1>5 DEF DealReadPart, Event, Events, AwaitRest, socketVars
  <2>2. [conn[f] EXCEPT !.rbuf = <<Part>>] \in Conns /\ [conn[f] EXCEPT !.rbuf = <<Part>>].proc = conn[f].proc
    BY <1>2, ConnChanges
  <2> QED
    BY <1>1, <1>2, <2>1, <2>2 DEF Handled, GroupServerTypeOK
<1>6. ASSUME NEW isLogin \in BOOLEAN, OnReadUserVerify(f, isLogin)
      PROVE  Handled(f)
  <2> DEFINE u == Acct[conn[f].proc]
  <2>1. PICK r : Received(f, r)
    BY <1>6 DEF OnReadUserVerify
  <2>2. <<f, "in">> \in batch
    BY <2>1 DEF Received, Event
  <2>3. u \in Users /\ Pwd[conn[f].proc] \in {Pwd[p] : p \in Procs}
    BY <1>3, <2>2, GroupServerAssumption
  <2>4. passwd' \in [Users -> {Pwd[p] : p \in Procs} \cup {NoPwd}]
    BY <1>2, <1>6, <2>3 DEF OnReadUserVerify
  <2>5. PICK con \in {conn[f], [conn[f] EXCEPT !.user = u], [conn[f] EXCEPT !.user = NoUser]},
             word \in {"ok", "bad", "pwd"} : Answer(f, con, <<Word("login", word)>>)
    BY <1>6 DEF OnReadUserVerify
  <2>6. con \in Conns /\ con.proc = conn[f].proc
    <3>1. /\ [conn[f] EXCEPT !.user = u] \in Conns /\ [conn[f] EXCEPT !.user = u].proc = conn[f].proc
          /\ [conn[f] EXCEPT !.user = NoUser] \in Conns /\ [conn[f] EXCEPT !.user = NoUser].proc = conn[f].proc
      BY <1>2, <2>3, ConnChanges
    <3> QED
      BY <1>2, <2>5, <3>1
  <2>7. <<Word("login", word)>> \in Seq(Messages)
    BY MessageTypes
  <2> QED
    BY <2>1, <2>4, <2>5, <2>6, <2>7, AnswerHandled
<1>7. CASE OnReadAllocation(f)
  <2>1. Received(f, "allocation") /\ passwd' = passwd
    BY <1>7 DEF OnReadAllocation
  <2>2. CASE Answer(f, conn[f], <<Word("allocation", "bad")>>)
    BY <1>2, <2>1, <2>2, MessageTypes, AnswerHandled
  <2>3. ASSUME NEW k \in Keys \cup {NoKey}, NEW a \in BOOLEAN,
               \/ Answer(f, [conn[f] EXCEPT !.mod = k, !.act = a], <<Word("allocation", "bad")>>)
               \/ Answer(f, [conn[f] EXCEPT !.mod = k, !.act = a],
                         <<Word("allocation", "ok"), Mod([conn[f] EXCEPT !.mod = k, !.act = a].mod)>>)
        PROVE  Handled(f)
    <3> DEFINE con == [conn[f] EXCEPT !.mod = k, !.act = a]
    <3>1. conn[f] \in Conns /\ k \in Keys \cup {NoKey} /\ a \in BOOLEAN
      BY <1>2
    <3>2. con \in Conns /\ con.mod = k
      BY <3>1, ModChanges
    <3>3. con.proc = conn[f].proc
      BY <3>1 DEF Conns
    <3>4. <<Word("allocation", "bad")>> \in Seq(Messages) /\ <<Word("allocation", "ok"), Mod(k)>> \in Seq(Messages)
      BY MessageTypes
    <3>5. Answer(f, con, <<Word("allocation", "bad")>>) \/ Answer(f, con, <<Word("allocation", "ok"), Mod(k)>>)
      BY <2>3, <3>2
    <3> HIDE DEF con
    <3> QED
      BY <1>2, <2>1, <3>2, <3>3, <3>4, <3>5, AnswerHandled
  <2>4. ASSUME NEW k \in Keys,
               \/ Answer(f, [conn[f] EXCEPT !.mod = k, !.act = k \in active], <<Word("allocation", "bad")>>)
               \/ Answer(f, [conn[f] EXCEPT !.mod = k, !.act = k \in active],
                         <<Word("allocation", "ok"), Mod([conn[f] EXCEPT !.mod = k, !.act = k \in active].mod)>>)
        PROVE  Handled(f)
    <3> DEFINE a == k \in active
    <3>1. a \in BOOLEAN
      OBVIOUS
    <3>2. \/ Answer(f, [conn[f] EXCEPT !.mod = k, !.act = a], <<Word("allocation", "bad")>>)
          \/ Answer(f, [conn[f] EXCEPT !.mod = k, !.act = a],
                    <<Word("allocation", "ok"), Mod([conn[f] EXCEPT !.mod = k, !.act = a].mod)>>)
      BY <2>4
    <3> HIDE DEF a
    <3> QED
      BY <2>3, <3>1, <3>2
  <2>5. CASE /\ conn[f].user # NoUser
             /\ Answer(f, [conn[f] EXCEPT !.mod = userKey[conn[f].user], !.act = FALSE],
                        <<Word("allocation", "ok"), Mod([conn[f] EXCEPT !.mod = userKey[conn[f].user], !.act = FALSE].mod)>>)
    <3>1. userKey[conn[f].user] \in Keys \cup {NoKey}
      BY <1>1, <1>2, <2>5, ConnTypes
    <3> QED
      BY <2>3, <2>5, <3>1
  <2> QED
    BY <1>7, <2>2, <2>4, <2>5 DEF OnReadAllocation
<1>8. CASE OnReadMemberJoin(f)
  <2>1. /\ Received(f, "mem_join") /\ passwd' = passwd
        /\ \/ OnWriteNewKey(Answered(f, Activated(conn[f]), <<Word("mem_join", "ok")>>), [armed EXCEPT ![f] = "out"])
           \/ Answer(f, conn[f], <<Word("mem_join", "bad")>>)
    BY <1>8 DEF OnReadMemberJoin
  <2>2. Activated(conn[f]) \in Conns /\ Activated(conn[f]).proc = conn[f].proc
    <3> DEFINE a == conn[f].act \/ (conn[f].mod \in members /\ conn[f].mod \notin active)
    <3>1. a \in BOOLEAN
      BY <1>1, ConnTypes
    <3> HIDE DEF a
    <3>2. [conn[f] EXCEPT !.act = a] \in Conns /\ [conn[f] EXCEPT !.act = a].proc = conn[f].proc
      BY <1>2, <3>1, ConnChanges
    <3> QED
      BY <3>2 DEF a, Activated
  <2>3. <<Word("mem_join", "ok")>> \in Seq(Messages) /\ <<Word("mem_join", "bad")>> \in Seq(Messages)
    BY MessageTypes
  <2> QED
    BY <1>2, <2>1, <2>2, <2>3, AnswerHandled
<1>9. CASE OnReadMemberLeave(f)
  <2>1. /\ Received(f, "mem_leave") /\ passwd' = passwd
        /\ \/ OnWriteNewKey(Answered(f, [conn[f] EXCEPT !.act = FALSE], <<Word("mem_leave", "ok")>>),
                            [armed EXCEPT ![f] = "out"])
           \/ Answer(f, conn[f], <<Word("mem_leave", "bad")>>)
    BY <1>9 DEF OnReadMemberLeave
  <2>2. [conn[f] EXCEPT !.act = FALSE] \in Conns /\ [conn[f] EXCEPT !.act = FALSE].proc = conn[f].proc
    BY <1>2, ConnChanges
  <2>3. <<Word("mem_leave", "ok")>> \in Seq(Messages) /\ <<Word("mem_leave", "bad")>> \in Seq(Messages)
    BY MessageTypes
  <2> QED
    BY <1>2, <2>1, <2>2, <2>3, AnswerHandled
<1>10. CASE OnReadError(f)
  <2>1. <<Word("err", "Unexpected behaviour!")>> \in Seq(Messages)
    BY MessageTypes
  <2> QED
    BY <1>2, <1>10, <2>1, AnswerHandled DEF OnReadError
<1>11. CASE DealReadDamaged(f)
  <2> DEFINE ms == <<Word("err", "message damaged")>>
             answered == Answered(f, conn[f], ms)
  <2>1. PICK r \in Damaged :
          /\ Received(f, r)
          /\ conn' = IF r = "unframed" THEN [answered EXCEPT ![f].rbuf = Whole(f)] ELSE answered
          /\ armed' = [armed EXCEPT ![f] = "out"]
          /\ UNCHANGED <<keyVars, gen, passwd>>
    BY <1>11 DEF DealReadDamaged
  <2>2. /\ <<f, "in">> \in batch /\ batch' = batch \ {<<f, "in">>} /\ "in" \in Events
        /\ link' = link /\ backlog' = backlog /\ s2c' = s2c
        /\ c2s' = [c2s EXCEPT ![conn[f].proc] = <<>>] /\ Whole(f) # <<>>
    BY <2>1 DEF Received, Event, Events, socketVars
  <2>3. ms \in Seq(Messages)
    BY MessageTypes
  <2>4. answered \in [Fds -> Conns]
    BY <1>1, <1>2, <1>3, <2>2, <2>3, AnsweredTypes
  <2>5. answered[f].proc = conn[f].proc /\ \A g \in Fds : g # f => answered[g] = conn[g]
    BY <1>2 DEF Answered, Conns
  <2> HIDE DEF answered
  <2>6. [answered[f] EXCEPT !.rbuf = Whole(f)] \in Conns
        /\ [answered[f] EXCEPT !.rbuf = Whole(f)].proc = answered[f].proc
    BY <1>1, <1>3, <2>2, <2>4, WholeTypes, ConnChanges
  <2>7. conn' \in {answered, [answered EXCEPT ![f] = [answered[f] EXCEPT !.rbuf = Whole(f)]]}
    BY <2>1, <2>4
  <2>8. /\ conn' \in [Fds -> Conns] /\ conn'[f].proc = conn[f].proc
        /\ \A g \in Fds : g # f => conn'[g] = conn[g]
    BY <2>4, <2>5, <2>6, <2>7
  <2>9. c2s' \in [Procs -> Seq(Requests)]
    BY <1>1, <2>2, EmptyTypes DEF GroupServerTypeOK
  <2> QED
    BY <1>1, <1>2, <2>1, <2>2, <2>8, <2>9 DEF Handled, GroupServerTypeOK
<1> QED
  BY <1>4, <1>5, <1>6, <1>7, <1>8, <1>9, <1>10, <1>11 DEF DealRead

\* A proper subset of a finite set is smaller.
LEMMA ProperSubset ==
  ASSUME NEW S, IsFiniteSet(S), NEW T \in SUBSET S, T # S
  PROVE  Cardinality(T) # Cardinality(S)
  BY FS_Subset

\* Two free descriptors are not at the same place.
LEMMA PlacesDiffer ==
  ASSUME NEW f \in Fds, NEW g \in Fds, ~Open(f), ~Open(g), f # g
  PROVE  PlaceAmongFree(f) # PlaceAmongFree(g)
<1> DEFINE Below(h) == {e \in Fds : ~Open(e) /\ e < h}
<1>1. IsFiniteSet(Fds) /\ Fds \subseteq Int
  BY GroupServerAssumption, FS_Interval DEF Fds
<1>2. ASSUME NEW h \in Fds, NEW e \in Fds, ~Open(h), ~Open(e), h < e
      PROVE  PlaceAmongFree(h) # PlaceAmongFree(e)
  <2> DEFINE S == Below(e)
             T == Below(h)
  <2>0. ASSUME NEW x \in Fds, x < h PROVE x < e
    <3>1. x \in Int /\ h \in Int /\ e \in Int
      BY <1>1
    <3> QED
      BY <1>2, <2>0, <3>1
  <2>1. S \in SUBSET Fds /\ T \in SUBSET S
    BY <2>0
  <2>2. h \in S /\ h \notin T
    BY <1>1, <1>2
  <2>3. PlaceAmongFree(h) = Cardinality(T) + 1 /\ PlaceAmongFree(e) = Cardinality(S) + 1
    BY DEF PlaceAmongFree
  <2> HIDE DEF S, T
  <2>4. IsFiniteSet(S)
    BY <1>1, <2>1, FS_Subset
  <2>5. IsFiniteSet(T)
    BY <2>1, <2>4, FS_Subset
  <2>6. Cardinality(S) \in Nat /\ Cardinality(T) \in Nat
    BY <2>4, <2>5, FS_CardinalityType
  <2>7. Cardinality(T) # Cardinality(S)
    BY <2>1, <2>2, <2>4, ProperSubset
  <2> QED
    BY <2>3, <2>6, <2>7
<1>3. f < g \/ g < f
  BY <1>1
<1> QED
  BY <1>2, <1>3

\* The connections that are accepted.
LEMMA AcceptTypes ==
  ASSUME GroupServerTypeOK, NEW f \in Fds, Accepts(f)
  PROVE  PlaceAmongFree(f) \in 1..Len(backlog) /\ backlog[PlaceAmongFree(f)] \in Procs
<1>1. IsFiniteSet(Fds)
  BY GroupServerAssumption, FS_Interval DEF Fds
<1>2. {g \in Fds : ~Open(g) /\ g < f} \in SUBSET Fds
  OBVIOUS
<1>3. Cardinality({g \in Fds : ~Open(g) /\ g < f}) \in Nat
  BY <1>1, <1>2, FS_Subset, FS_CardinalityType
<1>4. backlog \in Seq(Procs) /\ Len(backlog) \in Nat
  BY LenProperties DEF GroupServerTypeOK
<1>5. PlaceAmongFree(f) \in 1..Len(backlog)
  <2> DEFINE below == Cardinality({g \in Fds : ~Open(g) /\ g < f})
  <2>1. below + 1 <= Len(backlog) /\ PlaceAmongFree(f) = below + 1
    BY DEF Accepts, PlaceAmongFree
  <2>2. below \in Nat
    BY <1>3
  <2> HIDE DEF below
  <2> QED
    BY <1>4, <2>1, <2>2
<1> QED
  BY <1>4, <1>5, ElementOfSeq

\* dealListen.
LEMMA ListenTypes ==
  ASSUME TypeInv, DealListen
  PROVE  /\ conn' \in [Fds -> Conns] /\ armed' \in [Fds -> {"in", "out", "none"}]
         /\ backlog' \in Seq(Procs)
         /\ \A f \in Fds : Open(f) => conn'[f] = conn[f] /\ armed'[f] = armed[f]
         /\ \A f \in Fds : Accepts(f) => conn'[f].proc = backlog[PlaceAmongFree(f)] /\ armed'[f] = "in"
         /\ \A f \in Fds : ~Accepts(f) => conn'[f] = conn[f] /\ armed'[f] = armed[f]
<1>1. GroupServerTypeOK /\ conn \in [Fds -> Conns] /\ armed \in [Fds -> {"in", "out", "none"}]
  BY DEF TypeInv, GroupSystemTypeOK, GroupServerTypeOK
<1>2. ASSUME NEW f \in Fds, Accepts(f)
      PROVE  /\ Inited(conn[f], backlog[PlaceAmongFree(f)]) \in Conns
             /\ Inited(conn[f], backlog[PlaceAmongFree(f)]).proc = backlog[PlaceAmongFree(f)]
  <2>1. backlog[PlaceAmongFree(f)] \in Procs
    BY <1>1, <1>2, AcceptTypes
  <2>2. conn[f] \in Conns
    BY <1>1
  <2> QED
    BY <2>1, <2>2, ConnChanges
<1>3. /\ conn' = [f \in Fds |-> IF Accepts(f) THEN Inited(conn[f], backlog[PlaceAmongFree(f)]) ELSE conn[f]]
      /\ armed' = [f \in Fds |-> IF Accepts(f) THEN "in" ELSE armed[f]]
      /\ backlog' = <<>>
  BY DEF DealListen
<1>4. \A f \in Fds : Open(f) => ~Accepts(f)
  BY DEF Accepts
<1> QED
  BY <1>1, <1>2, <1>3, <1>4, EmptySeq

\* The events of one turn of the loop.
LEMMA WaitTypes ==
  ASSUME TypeInv, Wait
  PROVE  /\ batch' \subseteq (Fds \X Events) \cup {<<Listen, "in">>}
         /\ \A f \in Fds, ev \in Events : <<f, ev>> \in batch' =>
              Open(f) /\ ev = EventOf(f)
         /\ armed' \in [Fds -> {"in", "out", "none"}]
         /\ \A f \in Fds : Open(f) /\ armed'[f] = "none" /\ armed[f] # "none" =>
              \E ev \in Events : <<f, ev>> \in batch'
<1> DEFINE ready == {f \in Fds : EventOf(f) # "none"}
<1>1. armed \in [Fds -> {"in", "out", "none"}]
  BY DEF TypeInv, GroupSystemTypeOK, GroupServerTypeOK
<1>2. /\ batch' = {<<f, EventOf(f)>> : f \in ready}
                    \cup (IF backlog # <<>> THEN {<<Listen, "in">>} ELSE {})
      /\ armed' = [f \in Fds |-> IF f \in ready THEN "none" ELSE armed[f]]
  BY DEF Wait
<1>3. \A f \in ready : f \in Fds /\ EventOf(f) \in Events /\ Open(f)
  BY DEF EventOf, Events
<1>4. \A f \in Fds : f # Listen
  BY GroupServerAssumption DEF Fds, Listen
<1>5. batch' \subseteq (Fds \X Events) \cup {<<Listen, "in">>}
  BY <1>2, <1>3
<1>6. ASSUME NEW f \in Fds, NEW ev \in Events, <<f, ev>> \in batch'
      PROVE  f \in ready /\ ev = EventOf(f)
  BY <1>2, <1>4, <1>6
<1>7. armed' \in [Fds -> {"in", "out", "none"}]
  BY <1>1, <1>2
<1>8. ASSUME NEW f \in Fds, armed'[f] = "none", armed[f] # "none"
      PROVE  \E ev \in Events : <<f, ev>> \in batch'
  <2>1. f \in ready
    BY <1>1, <1>2, <1>8
  <2> QED
    BY <1>2, <1>3, <2>1
<1> QED
  BY <1>3, <1>5, <1>6, <1>7, <1>8

\* A handler of an event leaves the types alone.
LEMMA HandledTypes ==
  ASSUME TypeInv, KeyStoreTypeOK', NEW f \in Fds, Handled(f)
  PROVE  GroupServerTypeOK' /\ BatchIsOpen'
<1>1. GroupServerTypeOK
  BY DEF TypeInv, GroupSystemTypeOK
<1>2. PICK ev \in Events : <<f, ev>> \in batch /\ batch' = batch \ {<<f, ev>>}
  BY DEF Handled
<1>3. conn[f].proc \in Procs
  BY <1>1, <1>2, ConnTypes DEF TypeInv, BatchIsOpen
<1>4. link' \in [Procs -> Links]
  <2>1. link' \in {link, [link EXCEPT ![conn[f].proc] = "rst"], [link EXCEPT ![conn[f].proc] = "closed"]}
    BY DEF Handled
  <2> QED
    BY <1>1, <1>3, <2>1 DEF GroupServerTypeOK, Links
<1>5. GroupServerTypeOK'
  BY <1>1, <1>2, <1>4 DEF GroupServerTypeOK, Handled
<1>6. ASSUME NEW g \in Fds, NEW e \in Events, <<g, e>> \in batch'
      PROVE  Open(g)' /\ \A other \in Events : <<g, other>> \in batch' => other = e
  <2>1. <<g, e>> \in batch /\ \A other \in Events : <<g, other>> \in batch' => <<g, other>> \in batch
    BY <1>2, <1>6
  <2>2. g # f
    <3> SUFFICES ASSUME g = f PROVE FALSE
      OBVIOUS
    <3>1. e = ev
      BY <1>2, <2>1 DEF TypeInv, BatchIsOpen
    <3> QED
      BY <1>2, <1>6, <3>1
  <2>3. conn'[g].proc = conn[g].proc
    BY <2>2 DEF Handled
  <2> QED
    BY <2>1, <2>3 DEF TypeInv, BatchIsOpen, Open
<1> QED
  BY <1>5, <1>6 DEF BatchIsOpen

\* Every handler is Handled.
LEMMA EventHandled ==
  ASSUME TypeInv, rekey' \in SUBSET Keys, NEW f \in Fds, DealRead(f) \/ DealWrite(f) \/ DealHup(f)
  PROVE  Handled(f)
  BY CloseHandled, WriteHandled, ReadHandled

\* Every step of the server.
LEMMA ServerTypes ==
  ASSUME TypeInv, KeyStoreTypeOK', Server
  PROVE  TypeInv'
<1>1. GroupServerTypeOK /\ UNCHANGED clientVars
  BY DEF TypeInv, GroupSystemTypeOK, Server
<1>2. SUFFICES GroupServerTypeOK' /\ BatchIsOpen'
  BY <1>1 DEF TypeInv, GroupSystemTypeOK, clientVars
<1>3. CASE Wait
  <2>1. UNCHANGED <<conn, gen, passwd, link, backlog, s2c, c2s>>
    BY <1>3 DEF Wait, socketVars
  <2>2. GroupServerTypeOK'
    BY <1>1, <1>3, <2>1, WaitTypes DEF GroupServerTypeOK, Events
  <2>3. BatchIsOpen'
    BY <1>3, <2>1, WaitTypes DEF BatchIsOpen, Open
  <2> QED
    BY <2>2, <2>3
<1>4. CASE DealListen
  <2>1. /\ <<Listen, "in">> \in batch /\ batch' = batch \ {<<Listen, "in">>}
        /\ UNCHANGED <<gen, passwd, link, s2c, c2s>>
    BY <1>4 DEF DealListen, Event
  <2>2. GroupServerTypeOK'
    BY <1>1, <1>4, <2>1, ListenTypes DEF GroupServerTypeOK
  <2>3. \A f \in Fds : Open(f) => Open(f)'
    BY <1>4, ListenTypes DEF Open
  <2>4. BatchIsOpen'
    BY <2>1, <2>3 DEF TypeInv, BatchIsOpen
  <2> QED
    BY <2>2, <2>4
<1>5. ASSUME NEW f \in Fds, DealRead(f) \/ DealWrite(f) \/ DealHup(f)
      PROVE  GroupServerTypeOK' /\ BatchIsOpen'
  <2>1. rekey' \in SUBSET Keys
    BY DEF KeyStoreTypeOK
  <2> QED
    BY <1>5, <2>1, EventHandled, HandledTypes
<1> QED
  BY <1>3, <1>4, <1>5 DEF Server, ServerStep

-----------------------------------------------------------------------------
(* The clients.                                                            *)

\* What the steps of the processes leave alone.
LEMMA ClientLeaves ==
  ASSUME NEW p \in Procs, ClientStep(p)
  PROVE  /\ UNCHANGED <<keyVars, connVars, batch, passwd, backlog, sends>>
         /\ link[p] = "open" /\ s2c[p] # <<>> /\ phase[p] \in Phases \ {"off", "peer", "ended"}
  BY DEF ClientStep, ReadLogin, ReadRegister, ReadAllocation, ReadMod, ReadMemJoin, ReadRekeying,
         ReadRandomNum, ReadFd, Phases

\* Reading a message, and what a process does then with its socket.
LEMMA ContinueTypes ==
  ASSUME GroupServerTypeOK, NEW p \in Procs, link[p] = "open", s2c[p] # <<>>,
         NEW requests \in Seq(Requests), NEW next, Continue(p, requests, next)
  PROVE  /\ link' = link
         /\ c2s' \in [Procs -> Seq(Requests)]
         /\ s2c' \in [Procs -> Seq(Messages)] /\ \A o \in Procs : Len(s2c'[o]) <= SockBuf
<1>1. /\ c2s' = [c2s EXCEPT ![p] = c2s[p] \o requests] /\ s2c' = [s2c EXCEPT ![p] = Tail(s2c[p])]
      /\ link' = link
  BY DEF Continue, GroupServerTypeOK
<1>2. c2s[p] \o requests \in Seq(Requests)
  BY ConcatProperties DEF GroupServerTypeOK
<1>3. s2c[p] \in Seq(Messages) /\ Len(s2c[p]) <= SockBuf
  BY DEF GroupServerTypeOK
<1>4. Tail(s2c[p]) \in Seq(Messages) /\ Len(Tail(s2c[p])) = Len(s2c[p]) - 1 /\ Len(s2c[p]) \in Nat
  BY <1>3, HeadTailProperties, LenProperties
<1>5. Len(Tail(s2c[p])) <= SockBuf
  BY <1>3, <1>4, GroupServerAssumption
<1> QED
  BY <1>1, <1>2, <1>4, <1>5 DEF GroupServerTypeOK

\* A socket that its process closes.
LEMMA DisconnectTypes ==
  ASSUME GroupServerTypeOK, NEW p \in Procs, NEW unread, Disconnect(p, unread)
  PROVE  /\ \E end \in {"fin", "rst"} : link' = [link EXCEPT ![p] = end]
         /\ c2s' \in [Procs -> Seq(Requests)]
         /\ s2c' \in [Procs -> Seq(Messages)] /\ \A o \in Procs : Len(s2c'[o]) <= SockBuf
<1>1. PICK end \in {"fin", "rst"} :
        /\ link' = [link EXCEPT ![p] = end]
        /\ c2s' = [c2s EXCEPT ![p] = IF end = "rst" THEN <<>> ELSE c2s[p]]
        /\ s2c' = [s2c EXCEPT ![p] = <<>>]
  BY DEF Disconnect, Endings, GroupServerTypeOK
<1>2. SockBuf \in Nat /\ Len(<<>>) <= SockBuf
  BY EmptyTypes, GroupServerAssumption
<1> QED
  BY <1>1, <1>2, EmptyTypes DEF GroupServerTypeOK

\* A client that reads a message sends on or gives up.
LEMMA ClientGoesOn ==
  ASSUME NEW p \in Procs, ClientStep(p)
  PROVE  \/ \E requests \in {<<>>, <<"register">>, <<"allocation">>, <<"mem_join">>},
               next \in Phases \ {"off", "peer", "ended", "login"} : Continue(p, requests, next)
         \/ Return(p)
<1> DEFINE Goal == \/ \E requests \in {<<>>, <<"register">>, <<"allocation">>, <<"mem_join">>},
                        next \in Phases \ {"off", "peer", "ended", "login"} : Continue(p, requests, next)
                   \/ Return(p)
<1>0. /\ {"register", "allocation", "mod", "mem_join", "rekeying", "randomNum"}
           \subseteq Phases \ {"off", "peer", "ended", "login"}
      /\ {"register", "allocation", "mem_join"} \subseteq Requests
  BY DEF Phases, Requests
<1>1. ReadLogin(p) => Goal
  BY <1>0, Zenon DEF ReadLogin
<1>2. ReadRegister(p) => Goal
  BY <1>0, Zenon DEF ReadRegister
<1>3. ReadAllocation(p) => Goal
  BY <1>0, Zenon DEF ReadAllocation
<1>4. ReadMod(p) => Goal
  BY <1>0, Zenon DEF ReadMod
<1>5. ReadMemJoin(p) => Goal
  BY <1>0, Zenon DEF ReadMemJoin
<1>6. ReadRekeying(p) => Goal
  BY <1>0 DEF ReadRekeying
<1>7. ReadRandomNum(p) => Goal
  BY <1>0 DEF ReadRandomNum
<1> QED
  BY <1>1, <1>2, <1>3, <1>4, <1>5, <1>6, <1>7 DEF ClientStep

\* What a client keeps has its type.
LEMMA KeptTypes ==
  ASSUME GroupSystemTypeOK, NEW p \in Procs, ClientStep(p)
  PROVE  /\ mod' \in [Procs -> Nat]
         /\ cipher' \in [Procs -> [num : Nat, for : SUBSET Keys]]
         /\ gk' \in [Procs -> Nat \cup {Junk}]
<1>1. mod \in [Procs -> Nat] /\ cipher \in [Procs -> [num : Nat, for : SUBSET Keys]]
      /\ gk \in [Procs -> Nat \cup {Junk}]
  BY DEF GroupSystemTypeOK
<1>2. Msg(p) \in Messages
  <2>1. s2c[p] # <<>>
    BY ClientLeaves
  <2> QED
    BY <2>1, HeadTailProperties DEF Msg, GroupSystemTypeOK, GroupServerTypeOK
<1>3. Msg(p).num \in Nat /\ Msg(p).for \in SUBSET Keys
  BY <1>2 DEF Messages
<1>4. CASE UNCHANGED <<cipher, gk>>
  <2>1. mod' = mod \/ mod' = [mod EXCEPT ![p] = Msg(p).num]
    BY <1>4 DEF ClientStep, ReadLogin, ReadRegister, ReadAllocation, ReadMod, ReadMemJoin,
                ReadRekeying, ReadRandomNum
  <2> QED
    BY <1>1, <1>3, <1>4, <2>1
<1>5. CASE ReadRekeying(p)
  BY <1>1, <1>3, <1>5 DEF ReadRekeying
<1>6. CASE ReadRandomNum(p)
  BY <1>1, <1>3, <1>6 DEF ReadRandomNum, Decrypt
<1> QED
  BY <1>4, <1>5, <1>6 DEF ClientStep, ReadLogin, ReadRegister, ReadAllocation, ReadMod, ReadMemJoin

\* A client that reads a message.
LEMMA ClientTypes ==
  ASSUME TypeInv, KeyStoreTypeOK', NEW p \in Procs, ClientStep(p)
  PROVE  TypeInv'
<1>1. GroupSystemTypeOK /\ GroupServerTypeOK
  BY DEF TypeInv, GroupSystemTypeOK
<1>2. /\ UNCHANGED <<connVars, batch, passwd, backlog, sends>>
      /\ link[p] = "open" /\ s2c[p] # <<>>
  BY ClientLeaves
<1> DEFINE Typed == /\ link' \in [Procs -> Links] /\ phase' \in [Procs -> Phases]
                    /\ c2s' \in [Procs -> Seq(Requests)]
                    /\ s2c' \in [Procs -> Seq(Messages)] /\ \A o \in Procs : Len(s2c'[o]) <= SockBuf
<1>3. Typed
  <2>1. link \in [Procs -> Links] /\ phase \in [Procs -> Phases]
    BY <1>1 DEF GroupServerTypeOK, GroupSystemTypeOK
  <2>2. ASSUME NEW requests \in {<<>>, <<"register">>, <<"allocation">>, <<"mem_join">>}
        PROVE  requests \in Seq(Requests)
    <3>1. {"register", "allocation", "mem_join"} \subseteq Requests
      BY DEF Requests
    <3>2. /\ <<"register">> \in Seq(Requests) /\ <<"allocation">> \in Seq(Requests)
          /\ <<"mem_join">> \in Seq(Requests) /\ <<>> \in Seq(Requests)
      BY <3>1, EmptyTypes, ShortSeqs, Zenon
    <3> QED
      BY <2>2, <3>2
  <2>3. ASSUME NEW requests \in {<<>>, <<"register">>, <<"allocation">>, <<"mem_join">>},
               NEW next \in Phases \ {"off", "peer", "ended", "login"}, Continue(p, requests, next)
        PROVE  Typed
    <3>1. phase' \in [Procs -> Phases]
      BY <2>1, <2>3 DEF Continue
    <3> QED
      BY <1>1, <1>2, <2>1, <2>2, <2>3, <3>1, ContinueTypes
  <2>4. ASSUME Return(p)
        PROVE  Typed
    <3>1. phase' \in [Procs -> Phases]
      BY <2>1, <2>4 DEF Return, Disconnect, Phases
    <3>2. PICK end \in {"fin", "rst"} : link' = [link EXCEPT ![p] = end]
      BY <1>1, <2>4, DisconnectTypes DEF Return
    <3>3. link' \in [Procs -> Links]
      BY <2>1, <3>2 DEF Links
    <3> QED
      BY <1>1, <2>4, <3>1, <3>3, DisconnectTypes DEF Return
  <2> QED
    BY <2>3, <2>4, ClientGoesOn
<1>4. GroupServerTypeOK'
  BY <1>1, <1>2, <1>3 DEF GroupServerTypeOK, connVars
<1>5. GroupSystemTypeOK'
  BY <1>1, <1>2, <1>3, <1>4, KeptTypes DEF GroupSystemTypeOK
<1>6. BatchIsOpen'
  BY <1>2 DEF TypeInv, BatchIsOpen, Open, connVars
<1> QED
  BY <1>5, <1>6 DEF TypeInv

\* The other steps of the processes.
LEMMA ProcTypes ==
  ASSUME TypeInv, KeyStoreTypeOK', NEW p \in Procs,
         Connect(p) \/ Die(p) \/ PeerReads(p) \/ \E r \in Requests : PeerSends(p, r)
  PROVE  TypeInv'
<1>1. GroupSystemTypeOK /\ GroupServerTypeOK
  BY DEF TypeInv, GroupSystemTypeOK
<1>2. UNCHANGED <<connVars, batch, passwd, mod, cipher, gk>>
  BY DEF Connect, Die, PeerReads, PeerSends, clientVars
<1>3. BatchIsOpen'
  BY <1>2 DEF TypeInv, BatchIsOpen, Open, connVars
<1>4. /\ link \in [Procs -> Links] /\ phase \in [Procs -> Phases] /\ backlog \in Seq(Procs)
      /\ c2s \in [Procs -> Seq(Requests)] /\ sends \in [Procs -> Nat]
      /\ s2c \in [Procs -> Seq(Messages)] /\ \A o \in Procs : Len(s2c[o]) <= SockBuf
  BY <1>1 DEF GroupServerTypeOK, GroupSystemTypeOK
<1>5. SUFFICES
        /\ link' \in [Procs -> Links] /\ phase' \in [Procs -> Phases] /\ backlog' \in Seq(Procs)
        /\ c2s' \in [Procs -> Seq(Requests)] /\ sends' \in [Procs -> Nat]
        /\ s2c' \in [Procs -> Seq(Messages)] /\ \A o \in Procs : Len(s2c'[o]) <= SockBuf
  <2>1. /\ link' \in [Procs -> Links] /\ backlog' \in Seq(Procs)
        /\ c2s' \in [Procs -> Seq(Requests)]
        /\ s2c' \in [Procs -> Seq(Messages)] /\ \A o \in Procs : Len(s2c'[o]) <= SockBuf
        => GroupServerTypeOK'
    BY <1>1, <1>2 DEF GroupServerTypeOK, connVars
  <2> QED
    BY <1>1, <1>2, <1>3, <1>5, <2>1 DEF GroupSystemTypeOK, TypeInv
<1>6. CASE Connect(p)
  <2>1. Append(backlog, p) \in Seq(Procs)
    BY <1>4
  <2>2. <<"login">> \in Seq(Requests) /\ <<>> \in Seq(Requests)
    BY EmptyTypes, ShortSeqs DEF Requests
  <2> QED
    BY <1>4, <1>6, <2>1, <2>2 DEF Connect, Links, Phases
<1>7. CASE Die(p)
  <2>1. Disconnect(p, s2c[p] # <<>>) /\ UNCHANGED <<backlog, sends>>
    BY <1>7 DEF Die
  <2>2. phase' \in [Procs -> Phases]
    BY <1>4, <2>1 DEF Disconnect, Phases
  <2>3. PICK end \in {"fin", "rst"} : link' = [link EXCEPT ![p] = end]
    BY <1>1, <2>1, DisconnectTypes
  <2>4. link' \in [Procs -> Links]
    BY <1>4, <2>3 DEF Links
  <2> QED
    BY <1>1, <1>4, <2>1, <2>2, <2>4, DisconnectTypes
<1>8. CASE PeerReads(p)
  <2>1. Len(<<>>) <= SockBuf
    BY EmptyTypes, GroupServerAssumption
  <2>2. s2c' = [s2c EXCEPT ![p] = <<>>] /\ UNCHANGED <<link, phase, backlog, c2s, sends>>
    BY <1>8 DEF PeerReads, clientVars
  <2> QED
    BY <1>4, <2>1, <2>2, EmptyTypes
<1>9. ASSUME NEW r \in Requests, PeerSends(p, r)
      PROVE  <1>5!1
  <2>1. Append(c2s[p], r) \in Seq(Requests) /\ sends[p] + 1 \in Nat
    BY <1>4
  <2>2. /\ c2s' = [c2s EXCEPT ![p] = Append(c2s[p], r)] /\ sends' = [sends EXCEPT ![p] = sends[p] + 1]
        /\ UNCHANGED <<link, phase, backlog, s2c>>
    BY <1>4, <1>9 DEF PeerSends, socketVars
  <2> QED
    BY <1>4, <2>1, <2>2
<1> QED
  BY <1>6, <1>7, <1>8, <1>9

\* Every step.
LEMMA SystemTypeStep ==
  ASSUME TypeInv, [GroupSystemNext]_sysVars
  PROVE  TypeInv'
<1>1. GroupServerTypeOK /\ KeyStoreTypeOK
  BY DEF TypeInv, GroupSystemTypeOK, GroupServerTypeOK
<1>2. KeyStoreTypeOK'
  BY <1>1, GroupKeys, TypeStep DEF KeyStep
<1>3. CASE Server
  BY <1>2, <1>3, ServerTypes
<1>4. ASSUME NEW p \in Procs, Connect(p) \/ Die(p) \/ ClientStep(p)
      PROVE  TypeInv'
  BY <1>2, <1>4, ClientTypes, ProcTypes
<1>5. ASSUME NEW p \in Peers, PeerReads(p) \/ \E r \in Requests : PeerSends(p, r)
      PROVE  TypeInv'
  BY <1>2, <1>5, ProcTypes, GroupSystemAssumption
<1>6. CASE UNCHANGED sysVars
  BY <1>1, <1>2, <1>6 DEF TypeInv, GroupSystemTypeOK, GroupServerTypeOK, BatchIsOpen, Open,
       sysVars, serverVars, connVars, socketVars, clientVars
<1> QED
  BY <1>3, <1>4, <1>5, <1>6 DEF GroupSystemNext

\* The start.
LEMMA SystemTypeInit ==
  ASSUME GroupSystemInit
  PROVE  TypeInv
<1>1. GroupServerInit
  BY DEF GroupSystemInit
<1>2. KeyStoreTypeOK
  <2>1. 1..InitM \in SUBSET Keys /\ InitM \in 0..MaxKey /\ InitM \in Nat \ {0} /\ {} \in SUBSET Keys
    BY KeyStoreAssumption DEF Keys
  <2> QED
    BY <1>1, <2>1 DEF GroupServerInit, KeyStoreTypeOK
<1>3. [proc |-> NoProc, user |-> NoUser, mod |-> NoKey, act |-> FALSE, rbuf |-> <<>>, wbuf |-> <<>>] \in Conns
  BY EmptyTypes DEF Conns
<1>4. GroupServerTypeOK
  <2>1. \A p \in Procs : Len(<<>>) <= SockBuf
    BY EmptyTypes, GroupServerAssumption
  <2> QED
    BY <1>1, <1>2, <1>3, <2>1, EmptyTypes DEF GroupServerInit, GroupServerTypeOK, Links
<1>5. GroupSystemTypeOK
  BY <1>4 DEF GroupSystemInit, GroupSystemTypeOK, Phases, NoKey
<1>6. BatchIsOpen
  BY <1>1 DEF GroupServerInit, BatchIsOpen
<1> QED
  BY <1>5, <1>6 DEF TypeInv

\* The types, and the events that go with them.
LEMMA TypesHold == GroupSystemSpec => []TypeInv
  BY SystemTypeInit, SystemTypeStep, PTL DEF GroupSystemSpec

\* Whatever the clients, peers and deaths do, every variable keeps its type.
THEOREM GroupTypesAreCorrect == GroupSystemSpec => []GroupSystemTypeOK
<1>1. TypeInv => GroupSystemTypeOK
  BY DEF TypeInv
<1> QED
  BY <1>1, TypesHold, PTL

-----------------------------------------------------------------------------
(* The keys of the group.                                                  *)

\* What KeyStoreProofs shows of a server that does not restart.
KeyInv == RecordsAgree /\ Ownership /\ up

\* The invariants of the keys, and that no step loses them.
LEMMA KeyInvStep ==
  ASSUME GroupServerTypeOK, KeyInv, [GroupSystemNext]_sysVars
  PROVE  KeyInv' /\ [TidyNext]_keyVars
<1>1. KeyStoreTypeOK /\ KeyStep
  BY GroupKeys DEF GroupServerTypeOK
<1>2. up' /\ [TidyNext]_keyVars
  BY <1>1 DEF KeyStep, KeyInv, TidyNext, LostWhileTorn
<1>3. RecordsAgree' /\ Ownership'
  BY <1>1, <1>2, RecordsStep, OwnershipStep DEF KeyStep, KeyInv
<1> QED
  BY <1>2, <1>3 DEF KeyInv

\* The server starts on an empty database.
LEMMA KeyInvInit ==
  ASSUME GroupSystemInit
  PROVE  KeyInv
<1>1. GroupServerInit /\ InitM \in Nat \ {0}
  BY KeyStoreAssumption DEF GroupSystemInit
<1>2. \A k \in 1..InitM : k <= InitM /\ k # NoKey
  BY <1>1 DEF NoKey
<1>3. RecordsAgree
  BY <1>1, <1>2 DEF GroupServerInit, RecordsAgree
<1>4. Ownership
  BY <1>1, <1>2 DEF GroupServerInit, Ownership, KeysUnique, AvailableIsUnowned
<1> QED
  BY <1>1, <1>3, <1>4 DEF KeyInv, GroupServerInit

\* The keys of the group are as KeyStore keeps them.
LEMMA KeyInvHolds == GroupSystemSpec => [](TypeInv /\ KeyInv)
<1>1. TypeInv => GroupServerTypeOK
  BY DEF TypeInv, GroupSystemTypeOK
<1> QED
  BY <1>1, KeyInvInit, KeyInvStep, TypesHold, PTL DEF GroupSystemSpec

\* However the connections of the clients interleave, the server hands out
\* moduli as a KeyAllocator does: each to one account, and for ever.
THEOREM GroupImplementsAllocator == GroupSystemSpec => ImplementsKeyAllocator
<1>1. GroupSystemInit => Allocator!Init
  BY DEF GroupSystemInit, GroupServerInit, Allocator!Init, NoKey
<1>2. TypeInv /\ KeyInv /\ [GroupSystemNext]_sysVars => [Allocator!Next]_told
  <2> SUFFICES ASSUME TypeInv, KeyInv, [GroupSystemNext]_sysVars PROVE [Allocator!Next]_told
    OBVIOUS
  <2>1. GroupServerTypeOK /\ KeyStoreTypeOK
    BY DEF TypeInv, GroupSystemTypeOK, GroupServerTypeOK
  <2> QED
    BY <2>1, KeyInvStep, AllocatorStep DEF KeyInv
<1> QED
  BY <1>1, <1>2, KeyInvHolds, PTL DEF GroupSystemSpec, ImplementsKeyAllocator, Allocator!Spec

\* While no query fails, the last rekeying message decrypts under exactly the
\* moduli of the group, whatever the connections do.
THEOREM GroupRekeyCoversGroup == QueryMayFail = FALSE /\ GroupSystemSpec => []RekeyCoversGroup
<1> SUFFICES ASSUME QueryMayFail = FALSE PROVE GroupSystemSpec => []RekeyCoversGroup
  OBVIOUS
<1>1. GroupSystemInit => Coefficients
  BY DEF GroupSystemInit, GroupServerInit, Coefficients
<1>2. TypeInv /\ TypeInv' /\ Coefficients /\ [GroupSystemNext]_sysVars => Coefficients'
  <2> SUFFICES ASSUME TypeInv, TypeInv', Coefficients, [GroupSystemNext]_sysVars PROVE Coefficients'
    OBVIOUS
  <2>1. GroupServerTypeOK /\ KeyStoreTypeOK /\ KeyStoreTypeOK'
    BY DEF TypeInv, GroupSystemTypeOK, GroupServerTypeOK
  <2> QED
    BY <2>1, GroupKeys, CoefficientsStep DEF KeyStep
<1>3. Coefficients => RekeyCoversGroup
  BY DEF Coefficients, RekeyCoversGroup
<1> QED
  BY <1>1, <1>2, <1>3, TypesHold, PTL DEF GroupSystemSpec

-----------------------------------------------------------------------------
(* The connections.                                                        *)

\* Whoever takes an event away from a connection arms it again.
LEMMA WatchedStep ==
  ASSUME TypeInv, TypeInv', EveryConnWatched, [GroupSystemNext]_sysVars
  PROVE  EveryConnWatched'
<1> DEFINE Watched(f) == armed[f] # "none" \/ \E ev \in Events : <<f, ev>> \in batch
<1>1. EveryConnWatched <=> \A f \in Fds : Open(f) => Watched(f)
  BY DEF EveryConnWatched, Events
<1>2. EveryConnWatched' <=> \A f \in Fds : Open(f)' => Watched(f)'
  BY DEF EveryConnWatched, Events
<1>3. CASE Wait
  <2>1. conn' = conn /\ batch = {}
    BY <1>3 DEF Wait
  <2> QED
    BY <1>1, <1>2, <1>3, <2>1, WaitTypes DEF Open
<1>4. CASE DealListen
  <2>1. batch' = batch \ {<<Listen, "in">>} /\ \A f \in Fds : f # Listen
    BY <1>4, GroupServerAssumption DEF DealListen, Event, Fds, Listen
  <2>2. ASSUME NEW f \in Fds, Open(f)', ~Accepts(f)
        PROVE  Watched(f)'
    <3>1. conn'[f] = conn[f] /\ armed'[f] = armed[f]
      BY <1>4, <2>2, ListenTypes
    <3> QED
      BY <1>1, <2>1, <2>2, <3>1 DEF Open
  <2>3. \A f \in Fds : Accepts(f) => armed'[f] = "in"
    BY <1>4, ListenTypes
  <2> QED
    BY <1>2, <2>2, <2>3
<1>5. ASSUME NEW f \in Fds, DealRead(f) \/ DealWrite(f) \/ DealHup(f)
      PROVE  EveryConnWatched'
  <2>1. Handled(f)
    BY <1>5, EventHandled DEF TypeInv, GroupSystemTypeOK, GroupServerTypeOK, KeyStoreTypeOK
  <2>2. PICK ev \in Events : batch' = batch \ {<<f, ev>>}
    BY <2>1 DEF Handled
  <2>3. Open(f)' => Watched(f)'
    BY <2>1 DEF Handled, Open
  <2>4. ASSUME NEW g \in Fds, g # f, Open(g)'
        PROVE  Watched(g)'
    <3>1. conn'[g].proc = conn[g].proc /\ armed'[g] \in {armed[g], "out"}
      BY <2>1, <2>4 DEF Handled
    <3>2. Watched(g)
      BY <1>1, <2>4, <3>1 DEF Open
    <3> QED
      BY <2>2, <2>4, <3>1, <3>2
  <2> QED
    BY <1>2, <2>3, <2>4
<1>6. CASE Server
  BY <1>3, <1>4, <1>5, <1>6 DEF Server, ServerStep
<1>7. CASE UNCHANGED <<connVars, batch>>
  BY <1>7 DEF EveryConnWatched, Open, connVars
<1>8. ASSUME NEW p \in Procs, Connect(p) \/ Die(p) \/ ClientStep(p)
      PROVE  EveryConnWatched'
  BY <1>7, <1>8, ClientLeaves DEF Connect, Die
<1>9. ASSUME NEW p \in Peers, PeerReads(p) \/ \E r \in Requests : PeerSends(p, r)
      PROVE  EveryConnWatched'
  BY <1>7, <1>9 DEF PeerReads, PeerSends
<1>10. CASE UNCHANGED sysVars
  BY <1>7, <1>10 DEF sysVars, serverVars
<1> QED
  BY <1>6, <1>8, <1>9, <1>10 DEF GroupSystemNext

\* No connection is forgotten by epoll, on any path through the handlers.
THEOREM NoConnIsForgotten == GroupSystemSpec => []EveryConnWatched
<1>1. GroupSystemInit => EveryConnWatched
  BY DEF GroupSystemInit, GroupServerInit, EveryConnWatched, Open
<1> QED
  BY <1>1, WatchedStep, TypesHold, PTL DEF GroupSystemSpec

-----------------------------------------------------------------------------
(* A process that is connected has one connection.                         *)

Connected(p) == link[p] \in {"open", "fin", "rst"}
Waiting(p)   == \E i \in 1..Len(backlog) : backlog[i] = p

\* The server serves connected processes, each once, from the backlog on.
ConnsDiffer ==
  /\ \A p \in Procs : link[p] = "none" <=> phase[p] = "off"
  /\ \A p \in Procs : Connected(p) => Waiting(p) \/ ServedBy(p) # {}
  /\ \A f \in Fds : Open(f) => Connected(conn[f].proc) /\ ~Waiting(conn[f].proc)
  /\ \A f, g \in Fds : Open(f) /\ conn[f].proc = conn[g].proc => f = g
  /\ \A i \in 1..Len(backlog) : Connected(backlog[i])
  /\ \A i, j \in 1..Len(backlog) : backlog[i] = backlog[j] => i = j

\* Every connection of the backlog has its descriptor.
LEMMA AllAccepted ==
  ASSUME GroupServerTypeOK, Len(backlog) <= Cardinality({f \in Fds : ~Open(f)}),
         NEW i \in 1..Len(backlog)
  PROVE  \E f \in Fds : Accepts(f) /\ PlaceAmongFree(f) = i
<1> DEFINE Free == {f \in Fds : ~Open(f)}
           n == Cardinality(Free)
           Below(h) == {e \in Fds : ~Open(e) /\ e < h}
           place == [f \in Free |-> PlaceAmongFree(f)]
<1>1. IsFiniteSet(Fds) /\ Fds \subseteq Int
  BY GroupServerAssumption, FS_Interval DEF Fds
<1>2. Free \in SUBSET Fds
  OBVIOUS
<1>3. IsFiniteSet(Free) /\ n \in Nat
  BY <1>1, <1>2, FS_Subset, FS_CardinalityType
<1>4. ASSUME NEW f \in Free
      PROVE  PlaceAmongFree(f) \in 1..n
  <2>1. Below(f) \in SUBSET Free /\ f \notin Below(f) /\ f \in Free
    BY <1>1
  <2>2. PlaceAmongFree(f) = Cardinality(Below(f)) + 1
    BY DEF PlaceAmongFree
  <2> HIDE DEF Free, Below
  <2>3. IsFiniteSet(Below(f)) /\ Cardinality(Below(f)) \in Nat
    BY <1>3, <2>1, FS_Subset, FS_CardinalityType
  <2>4. Cardinality(Below(f)) <= Cardinality(Free) /\ Cardinality(Below(f)) # Cardinality(Free)
    BY <1>3, <2>1, FS_Subset
  <2> QED
    BY <1>3, <2>2, <2>3, <2>4
<1>5. i \in 1..n
  <2>1. Len(backlog) \in Nat
    BY LenProperties DEF GroupServerTypeOK
  <2> HIDE DEF n
  <2>2. Len(backlog) <= n
    BY DEF n
  <2> QED
    BY <1>3, <2>1, <2>2
<1>6. \E f \in Free : PlaceAmongFree(f) = i
  <2> SUFFICES ASSUME \A f \in Free : PlaceAmongFree(f) # i PROVE FALSE
    OBVIOUS
  <2>1. place \in [Free -> (1..n) \ {i}]
    BY <1>4
  <2>2. IsFiniteSet(1..n) /\ Cardinality(1..n) = n
    BY <1>3, FS_Interval
  <2>3. IsFiniteSet((1..n) \ {i}) /\ Cardinality((1..n) \ {i}) = n - 1
    BY <1>5, <2>2, FS_RemoveElement
  <2>4. Cardinality((1..n) \ {i}) < Cardinality(Free)
    <3> HIDE DEF Free
    <3> QED
      BY <1>3, <2>3
  <2> HIDE DEF n, Free, place
  <2>5. PICK f \in Free, g \in Free : f # g /\ place[f] = place[g]
    BY <1>3, <2>1, <2>3, <2>4, FS_PigeonHole
  <2> USE DEF Free, place
  <2>6. PlaceAmongFree(f) = PlaceAmongFree(g) /\ f \in Fds /\ g \in Fds /\ ~Open(f) /\ ~Open(g)
    BY <2>5
  <2> QED
    BY <2>5, <2>6, PlacesDiffer
<1>7. PICK f \in Free : PlaceAmongFree(f) = i
  BY <1>6
<1>8. i <= Len(backlog)
  BY LenProperties DEF GroupServerTypeOK
<1> QED
  BY <1>7, <1>8 DEF Accepts

\* A handler of an event.
LEMMA DifferHandled ==
  ASSUME TypeInv, ConnsDiffer, NEW f \in Fds, Handled(f), phase' = phase
  PROVE  ConnsDiffer'
<1> DEFINE p == conn[f].proc
<1>1. /\ GroupServerTypeOK /\ link \in [Procs -> Links] /\ backlog' = backlog /\ backlog \in Seq(Procs)
      /\ conn' \in [Fds -> Conns]
  BY DEF TypeInv, GroupSystemTypeOK, GroupServerTypeOK, Handled
<1>2. Open(f) /\ p \in Procs
  BY <1>1, ConnTypes DEF Handled, TypeInv, BatchIsOpen
<1>3. \A i \in 1..Len(backlog) : backlog[i] \in Procs /\ backlog[i] # p
  BY <1>1, <1>2, ElementOfSeq DEF ConnsDiffer, Waiting
<1>4. \A g \in Fds : g # f => conn'[g].proc = conn[g].proc /\ conn[g].proc # p
  BY <1>2 DEF Handled, ConnsDiffer, Open
<1>5. \/ conn'[f].proc = p /\ link' \in {link, [link EXCEPT ![p] = "rst"]}
      \/ conn'[f].proc = NoProc /\ link' = [link EXCEPT ![p] = "closed"]
  BY DEF Handled
<1>6. \A o \in Procs : o # p => link'[o] = link[o]
  BY <1>1, <1>5
<1>7. \A o \in Procs : link'[o] = "none" <=> phase'[o] = "off"
  <2>1. link[p] # "none" /\ link'[p] # "none"
    BY <1>1, <1>2, <1>5 DEF ConnsDiffer, Connected
  <2> QED
    BY <1>6, <2>1 DEF ConnsDiffer
<1>8. \A o \in Procs : Connected(o)' => Waiting(o)' \/ ServedBy(o)' # {}
  <2> SUFFICES ASSUME NEW o \in Procs, Connected(o)', ~Waiting(o)' PROVE ServedBy(o)' # {}
    OBVIOUS
  <2>1. CASE o = p
    <3>1. conn'[f].proc = p
      BY <1>1, <1>2, <1>5, <2>1 DEF Connected
    <3> QED
      BY <2>1, <3>1 DEF ServedBy
  <2>2. CASE o # p
    <3>1. Connected(o) /\ ~Waiting(o)
      BY <1>1, <1>6, <2>2 DEF Connected, Waiting
    <3>2. PICK g \in Fds : conn[g].proc = o
      BY <3>1 DEF ConnsDiffer, ServedBy
    <3>3. conn'[g].proc = o
      BY <1>4, <2>2, <3>2
    <3> QED
      BY <3>3 DEF ServedBy
  <2> QED
    BY <2>1, <2>2
<1>9. \A g \in Fds : Open(g)' => Connected(conn[g].proc)' /\ ~Waiting(conn[g].proc)'
  <2> SUFFICES ASSUME NEW g \in Fds, Open(g)'
               PROVE  /\ link'[conn'[g].proc] \in {"open", "fin", "rst"}
                      /\ ~\E i \in 1..Len(backlog') : backlog'[i] = conn'[g].proc
    BY DEF Connected, Waiting
  <2>1. CASE g = f
    <3>1. conn'[f].proc = p /\ link' \in {link, [link EXCEPT ![p] = "rst"]}
      BY <1>5, <2>1 DEF Open
    <3> QED
      BY <1>1, <1>2, <1>3, <2>1, <3>1 DEF ConnsDiffer, Connected
  <2>2. CASE g # f
    <3>1. conn'[g].proc = conn[g].proc /\ conn[g].proc # p
      BY <1>4, <2>2
    <3>2. Open(g)
      BY <3>1 DEF Open
    <3>3. conn[g].proc \in Procs
      BY <1>1, <3>2, ConnTypes
    <3> QED
      BY <1>1, <1>6, <3>1, <3>2, <3>3 DEF ConnsDiffer, Connected, Waiting
  <2> QED
    BY <2>1, <2>2
<1>10. \A g, h \in Fds : Open(g)' /\ conn'[g].proc = conn'[h].proc => g = h
  BY <1>2, <1>4, <1>5 DEF ConnsDiffer, Open
<1>11. \A i \in 1..Len(backlog') : Connected(backlog[i])'
  BY <1>1, <1>3, <1>6 DEF ConnsDiffer, Connected
<1> QED
  BY <1>1, <1>7, <1>8, <1>9, <1>10, <1>11 DEF ConnsDiffer

\* dealListen.
LEMMA DifferListen ==
  ASSUME TypeInv, ConnsDiffer, DealListen, phase' = phase
  PROVE  ConnsDiffer'
<1>1. /\ GroupServerTypeOK /\ backlog \in Seq(Procs) /\ link' = link /\ backlog' = <<>> /\ Len(backlog') = 0
      /\ Len(backlog) <= Cardinality({f \in Fds : ~Open(f)})
  BY EmptyTypes DEF TypeInv, GroupSystemTypeOK, GroupServerTypeOK, DealListen
<1>2. \A f \in Fds : Accepts(f) => /\ ~Open(f) /\ conn'[f].proc = backlog[PlaceAmongFree(f)]
                                   /\ PlaceAmongFree(f) \in 1..Len(backlog)
  BY <1>1, ListenTypes, AcceptTypes DEF Accepts
<1>3. \A f \in Fds : ~Accepts(f) => conn'[f] = conn[f]
  BY ListenTypes
<1>4. \A o : ~Waiting(o)'
  BY <1>1 DEF Waiting
<1>5. \A o \in Procs : Connected(o)' => ServedBy(o)' # {}
  <2> SUFFICES ASSUME NEW o \in Procs, Connected(o) PROVE \E f \in Fds : conn'[f].proc = o
    BY <1>1 DEF Connected, ServedBy
  <2>1. CASE Waiting(o)
    <3>1. PICK i \in 1..Len(backlog) : backlog[i] = o
      BY <2>1 DEF Waiting
    <3>2. PICK f \in Fds : Accepts(f) /\ PlaceAmongFree(f) = i
      BY <1>1, AllAccepted
    <3> QED
      BY <1>2, <3>1, <3>2
  <2>2. CASE ~Waiting(o)
    <3>1. PICK f \in Fds : conn[f].proc = o
      BY <2>2 DEF ConnsDiffer, ServedBy
    <3>2. Open(f)
      BY <3>1, GroupServerAssumption DEF Open
    <3> QED
      BY <1>2, <1>3, <3>1, <3>2
  <2> QED
    BY <2>1, <2>2
<1>6. ASSUME NEW f \in Fds, Open(f)'
      PROVE  /\ link[conn'[f].proc] \in {"open", "fin", "rst"}
             /\ Accepts(f) \/ Open(f)
  BY <1>1, <1>2, <1>3, <1>6 DEF ConnsDiffer, Connected, Open
<1>7. \A f, g \in Fds : Open(f)' /\ conn'[f].proc = conn'[g].proc => f = g
  <2> SUFFICES ASSUME NEW f \in Fds, NEW g \in Fds, Open(f)', conn'[f].proc = conn'[g].proc
               PROVE  f = g
    OBVIOUS
  <2>0. Open(g)'
    BY DEF Open
  <2>1. CASE Accepts(f) /\ Accepts(g)
    <3>1. PlaceAmongFree(f) = PlaceAmongFree(g)
      BY <1>2, <2>1 DEF ConnsDiffer
    <3> QED
      BY <1>2, <2>1, <3>1, PlacesDiffer
  <2>2. ASSUME NEW a \in Fds, NEW b \in Fds, Accepts(a), ~Accepts(b), Open(b)', conn'[a].proc = conn'[b].proc
        PROVE  FALSE
    <3>1. Open(b) /\ conn'[b] = conn[b]
      BY <1>3, <2>2 DEF Open
    <3>2. Waiting(conn[b].proc)
      BY <1>2, <2>2, <3>1 DEF Waiting
    <3> QED
      BY <3>1, <3>2 DEF ConnsDiffer
  <2>3. CASE ~Accepts(f) /\ ~Accepts(g)
    BY <1>3, <2>3 DEF ConnsDiffer, Open
  <2> QED
    BY <2>0, <2>1, <2>2, <2>3
<1> QED
  BY <1>1, <1>4, <1>5, <1>6, <1>7 DEF ConnsDiffer, Connected

\* A process that is connected.
LEMMA DifferClients ==
  ASSUME TypeInv, ConnsDiffer, NEW p \in Procs,
         ClientStep(p) \/ Die(p) \/ PeerReads(p) \/ \E r \in Requests : PeerSends(p, r)
  PROVE  ConnsDiffer'
<1>1. /\ GroupServerTypeOK /\ link \in [Procs -> Links] /\ phase \in [Procs -> Phases] /\ backlog \in Seq(Procs)
      /\ UNCHANGED <<conn, backlog>>
  BY ClientLeaves DEF TypeInv, GroupSystemTypeOK, GroupServerTypeOK, Die, PeerReads, PeerSends, connVars, socketVars
<1>2. link[p] = "open" /\ (Connected(p) /\ link[p] # "none" /\ phase[p] # "off")
  BY ClientLeaves DEF ConnsDiffer, Connected, Die, PeerReads, PeerSends
<1>3. \E end \in {"open", "fin", "rst"}, next \in Phases \ {"off"} :
        link' = [link EXCEPT ![p] = end] /\ phase' = [phase EXCEPT ![p] = next]
  <2>1. ASSUME NEW requests, NEW next \in Phases \ {"off"}, Continue(p, requests, next)
        PROVE  link' = [link EXCEPT ![p] = "open"] /\ phase' = [phase EXCEPT ![p] = next]
    BY <1>1, <1>2, <2>1 DEF Continue
  <2>2. ASSUME NEW unread, Disconnect(p, unread)
        PROVE  /\ \E end \in {"fin", "rst"} : link' = [link EXCEPT ![p] = end]
               /\ phase' = [phase EXCEPT ![p] = "ended"] /\ "ended" \in Phases \ {"off"}
    BY <1>1, <2>2, DisconnectTypes DEF Disconnect, Phases
  <2>3. CASE PeerReads(p) \/ \E r \in Requests : PeerSends(p, r)
    <3>1. link' = [link EXCEPT ![p] = "open"] /\ phase' = [phase EXCEPT ![p] = phase[p]]
      BY <1>1, <1>2, <2>3 DEF PeerReads, PeerSends, clientVars, socketVars
    <3> QED
      BY <1>1, <1>2, <3>1
  <2>4. CASE Die(p)
    BY <2>2, <2>4 DEF Die
  <2>5. CASE ClientStep(p)
    BY <2>1, <2>2, <2>5, ClientGoesOn DEF Return
  <2> QED
    BY <2>3, <2>4, <2>5
<1>4. \A o \in Procs : Connected(o)' <=> Connected(o)
  BY <1>1, <1>2, <1>3 DEF Connected
<1>5. \A o \in Procs : link'[o] = "none" <=> phase'[o] = "off"
  BY <1>1, <1>2, <1>3 DEF ConnsDiffer
<1>6. \A f \in Fds : Open(f) => conn[f].proc \in Procs
  BY <1>1, ConnTypes
<1>7. \A i \in 1..Len(backlog) : backlog[i] \in Procs
  BY <1>1, ElementOfSeq
<1>8. /\ \A o \in Procs : Connected(o)' => Waiting(o)' \/ ServedBy(o)' # {}
      /\ \A f \in Fds : Open(f)' => Connected(conn[f].proc)' /\ ~Waiting(conn[f].proc)'
  <2>1. \A o : (Waiting(o)' <=> Waiting(o)) /\ ServedBy(o)' = ServedBy(o)
    BY <1>1 DEF Waiting, ServedBy
  <2>2. \A f \in Fds : (Open(f)' <=> Open(f)) /\ (Open(f) => (Connected(conn[f].proc)' <=> Connected(conn[f].proc)))
    BY <1>1, <1>4, <1>6 DEF Open, Connected
  <2> QED
    BY <1>1, <1>4, <2>1, <2>2 DEF ConnsDiffer, Waiting
<1>9. \A i \in 1..Len(backlog') : Connected(backlog[i])'
  BY <1>1, <1>4, <1>7 DEF ConnsDiffer, Connected
<1> QED
  BY <1>1, <1>5, <1>8, <1>9 DEF ConnsDiffer, Open

\* A process that connects.
LEMMA DifferConnect ==
  ASSUME TypeInv, ConnsDiffer, NEW p \in Procs, Connect(p)
  PROVE  ConnsDiffer'
<1>1. /\ GroupServerTypeOK /\ link \in [Procs -> Links] /\ phase \in [Procs -> Phases] /\ backlog \in Seq(Procs)
      /\ conn' = conn /\ link[p] = "none" /\ link' = [link EXCEPT ![p] = "open"]
      /\ backlog' = Append(backlog, p)
      /\ phase'[p] # "off" /\ \A o \in Procs : o # p => phase'[o] = phase[o]
  BY DEF TypeInv, GroupSystemTypeOK, GroupServerTypeOK, Connect, connVars
<1> DEFINE n == Len(backlog)
<1>2. /\ n \in Nat /\ Len(backlog') = n + 1 /\ backlog'[n + 1] = p
      /\ \A i \in 1..n : backlog'[i] = backlog[i]
  BY <1>1, LenProperties
<1>3. \A i \in 1..n : backlog[i] \in Procs /\ backlog[i] # p
  BY <1>1, ElementOfSeq DEF ConnsDiffer, Connected
<1>4. \A f \in Fds : Open(f) => conn[f].proc \in Procs /\ conn[f].proc # p
  BY <1>1, ConnTypes DEF ConnsDiffer, Connected
<1>5. \A i \in 1..Len(backlog') : i \in 1..n \/ i = n + 1
  BY <1>2
<1> HIDE DEF n
<1>6. \A o : Waiting(o)' <=> Waiting(o) \/ o = p
  <2>1. n + 1 \in 1..Len(backlog') /\ \A i \in 1..n : i \in 1..Len(backlog')
    BY <1>2
  <2> QED
    BY <1>2, <1>5, <2>1 DEF Waiting, n
<1>7. \A o \in Procs : Connected(o)' <=> Connected(o) \/ o = p
  BY <1>1 DEF Connected
<1>8. \A o \in Procs : link'[o] = "none" <=> phase'[o] = "off"
  BY <1>1 DEF ConnsDiffer
<1>9. \A o \in Procs : Connected(o)' => Waiting(o)' \/ ServedBy(o)' # {}
  BY <1>1, <1>6, <1>7 DEF ConnsDiffer, ServedBy
<1>10. \A f \in Fds : Open(f)' => Connected(conn[f].proc)' /\ ~Waiting(conn[f].proc)'
  <2> SUFFICES ASSUME NEW f \in Fds, Open(f)
               PROVE  link'[conn[f].proc] \in {"open", "fin", "rst"} /\ ~Waiting(conn[f].proc)'
    BY <1>1 DEF Open, Connected
  <2>1. link[conn[f].proc] \in {"open", "fin", "rst"} /\ ~Waiting(conn[f].proc)
    BY DEF ConnsDiffer, Connected
  <2>2. ~\E i \in 1..Len(backlog') : backlog'[i] = conn[f].proc
    BY <1>2, <1>4, <1>5, <2>1 DEF Waiting, n
  <2> QED
    BY <1>1, <1>4, <2>1, <2>2 DEF Waiting
<1>11. \A i \in 1..Len(backlog') : Connected(backlog[i])'
  <2>1. \A i \in 1..n : link[backlog[i]] \in {"open", "fin", "rst"}
    BY DEF ConnsDiffer, Connected, n
  <2> QED
    BY <1>1, <1>2, <1>3, <1>5, <2>1 DEF Connected
<1>12. \A i, j \in 1..Len(backlog') : backlog'[i] = backlog'[j] => i = j
  BY <1>2, <1>3, <1>5 DEF ConnsDiffer, n
<1> QED
  BY <1>1, <1>8, <1>9, <1>10, <1>11, <1>12 DEF ConnsDiffer, Open

\* Every step.
LEMMA DifferStep ==
  ASSUME TypeInv, TypeInv', ConnsDiffer, [GroupSystemNext]_sysVars
  PROVE  ConnsDiffer'
<1>1. CASE UNCHANGED <<conn, link, backlog, phase>>
  BY <1>1 DEF ConnsDiffer, Open, Connected, Waiting, ServedBy
<1>2. CASE Server
  <2>1. phase' = phase
    BY <1>2 DEF Server, clientVars
  <2>2. Wait => UNCHANGED <<conn, link, backlog>>
    BY DEF Wait, socketVars
  <2>3. \A f \in Fds : DealRead(f) \/ DealWrite(f) \/ DealHup(f) => Handled(f)
    BY EventHandled DEF TypeInv, GroupSystemTypeOK, GroupServerTypeOK, KeyStoreTypeOK
  <2> QED
    BY <1>1, <1>2, <2>1, <2>2, <2>3, DifferListen, DifferHandled DEF Server, ServerStep
<1>3. CASE UNCHANGED sysVars
  BY <1>1, <1>3 DEF sysVars, serverVars, connVars, socketVars, clientVars
<1> QED
  BY <1>2, <1>3, DifferConnect, DifferClients, GroupSystemAssumption DEF GroupSystemNext

\* Each connected process has one place: in the backlog, or one descriptor
\* that no other process has; dealListen gives away none that is in use.
THEOREM EachServedOnce == GroupSystemSpec => []ConnsDiffer
<1>1. GroupSystemInit => ConnsDiffer
  <2> SUFFICES ASSUME GroupSystemInit PROVE ConnsDiffer
    OBVIOUS
  <2>1. /\ link = [p \in Procs |-> "none"] /\ backlog = <<>> /\ Len(backlog) = 0
        /\ \A f \in Fds : ~Open(f)
    BY EmptyTypes DEF GroupSystemInit, GroupServerInit, Open
  <2> QED
    BY <2>1 DEF GroupSystemInit, ConnsDiffer, Connected, Waiting
<1> QED
  BY <1>1, DifferStep, TypesHold, PTL DEF GroupSystemSpec

-----------------------------------------------------------------------------
(* Output.                                                                 *)

Gone(p)      == link[p] \in {"fin", "rst"}
HasEvent(f)  == \E ev \in Events : <<f, ev>> \in batch
Watched(f)   == conn[f].wbuf = <<>> \/ armed[f] = "out" \/ Gone(conn[f].proc) \/ HasEvent(f)

\* The property, one connection at a time.
LEMMA OutputForm == OutputIsWatched <=> \A f \in Fds : Open(f) => Watched(f)
  BY DEF OutputIsWatched, Watched, Gone, HasEvent, Events

\* What a handler does about the output of its own and the other connections,
\* when every request arrives in one piece.
OutputHandled(f) ==
  /\ \A g \in Fds : g # f => (conn'[g].wbuf = conn[g].wbuf /\ armed'[g] = armed[g]) \/ armed'[g] = "out"
  /\ Open(f)' => \/ conn'[f].wbuf = <<>> \/ armed'[f] = "out"
                 \/ link[conn[f].proc] = "rst" /\ link' = link

\* A broadcast arms whom it writes to.
LEMMA BroadcastArms ==
  ASSUME NEW cs \in [Fds -> Conns], NEW as \in [Fds -> {"in", "out", "none"}], OnWriteNewKey(cs, as),
         NEW f \in Fds
  PROVE  (conn'[f] = cs[f] /\ armed'[f] = as[f]) \/ armed'[f] = "out"
<1>1. IsMember(cs[f]) => armed'[f] = "out"
  BY DEF OnWriteNewKey, ArmMembers
<1>2. ~IsMember(cs[f]) => conn'[f] = cs[f] /\ armed'[f] = as[f]
  BY DEF OnWriteNewKey, ArmMembers
<1> QED
  BY <1>1, <1>2

\* An answer is watched for writing.
LEMMA AnswerOutput ==
  ASSUME GroupServerTypeOK, NEW f \in Fds, Open(f), NEW r, Received(f, r),
         NEW c \in Conns, NEW ms \in Seq(Messages),
         \/ Answer(f, c, ms)
         \/ OnWriteNewKey(Answered(f, c, ms), [armed EXCEPT ![f] = "out"])
  PROVE  OutputHandled(f)
<1> DEFINE cs == Answered(f, c, ms)
           as == [armed EXCEPT ![f] = "out"]
<1>1. cs \in [Fds -> Conns] /\ as \in [Fds -> {"in", "out", "none"}]
  BY AnsweredTypes DEF Received, GroupServerTypeOK
<1>2. as[f] = "out" /\ \A g \in Fds : g # f => cs[g] = conn[g] /\ as[g] = armed[g]
  BY DEF Answered, GroupServerTypeOK
<1>3. CASE Answer(f, c, ms)
  <2>1. conn' = cs /\ armed' = as
    BY <1>3 DEF Answer
  <2> HIDE DEF cs, as
  <2> QED
    BY <1>2, <2>1 DEF OutputHandled
<1>4. CASE OnWriteNewKey(cs, as)
  <2> HIDE DEF cs, as
  <2>1. \A g \in Fds : (conn'[g] = cs[g] /\ armed'[g] = as[g]) \/ armed'[g] = "out"
    BY <1>1, <1>4, BroadcastArms
  <2> QED
    BY <1>2, <2>1 DEF OutputHandled
<1> QED
  BY <1>3, <1>4

\* Handlers that close.
LEMMA CloseOutput ==
  ASSUME GroupServerTypeOK, NEW f \in Fds, DealReadError(f) \/ DealHup(f)
  PROVE  OutputHandled(f)
<1>1. /\ conn \in [Fds -> Conns] /\ conn[f] \in Conns /\ armed \in [Fds -> {"in", "out", "none"}]
  BY DEF GroupServerTypeOK
<1>2. CASE conn' = [conn EXCEPT ![f] = Closed(@)] /\ armed' = [armed EXCEPT ![f] = "none"]
  <2>1. Closed(conn[f]).proc = NoProc
    BY <1>1, ConnChanges
  <2> QED
    BY <1>1, <1>2, <2>1 DEF OutputHandled, Open
<1>3. CASE OnWriteNewKey([conn EXCEPT ![f] = Closed([conn[f] EXCEPT !.act = conn[f].mod \notin active])],
                         [armed EXCEPT ![f] = "none"])
  <2> DEFINE c  == [conn[f] EXCEPT !.act = conn[f].mod \notin active]
             cs == [conn EXCEPT ![f] = Closed(c)]
             as == [armed EXCEPT ![f] = "none"]
  <2>1. c \in Conns
    <3> DEFINE a == conn[f].mod \notin active
    <3>1. a \in BOOLEAN
      BY Zenon
    <3> HIDE DEF a
    <3>2. [conn[f] EXCEPT !.act = a] \in Conns
      BY <1>1, <3>1, ConnChanges
    <3> QED
      BY <3>2 DEF a
  <2> HIDE DEF c
  <2>2. Closed(c) \in Conns /\ Closed(c).proc = NoProc
    BY <2>1, ConnChanges
  <2>3. /\ cs \in [Fds -> Conns] /\ as \in [Fds -> {"in", "out", "none"}]
        /\ cs[f].proc = NoProc /\ \A g \in Fds : g # f => cs[g] = conn[g] /\ as[g] = armed[g]
    BY <1>1, <2>2
  <2>4. OnWriteNewKey(cs, as)
    BY <1>3 DEF c
  <2> HIDE DEF cs, as
  <2>5. \A g \in Fds : (conn'[g] = cs[g] /\ armed'[g] = as[g]) \/ armed'[g] = "out"
    BY <2>3, <2>4, BroadcastArms
  <2> QED
    BY <2>3, <2>5 DEF OutputHandled, Open
<1> QED
  BY <1>2, <1>3 DEF DealReadError, DealHup

\* dealWrite watches for writing as long as something is left.
LEMMA WriteOutput ==
  ASSUME TypeInv, NEW f \in Fds, DealWrite(f)
  PROVE  OutputHandled(f)
<1>1. GroupServerTypeOK /\ conn \in [Fds -> Conns] /\ armed \in [Fds -> {"in", "out", "none"}]
  BY DEF TypeInv, GroupSystemTypeOK, GroupServerTypeOK
<1>2. <<f, "out">> \in batch /\ "out" \in Events
  BY DEF DealWrite, Event, Events
<1>3. Open(f)
  BY <1>2 DEF TypeInv, BatchIsOpen
<1>4. CASE link[conn[f].proc] = "rst"
  BY <1>1, <1>4 DEF DealWrite, socketVars, OutputHandled
<1>5. CASE link[conn[f].proc] = "fin"
  BY <1>1, <1>5 DEF DealWrite, OutputHandled, Conns
<1>6. CASE link[conn[f].proc] \notin {"rst", "fin"}
  <2> DEFINE rest == SubSeq(conn[f].wbuf, Taken(f) + 1, Len(conn[f].wbuf))
  <2>1. /\ conn' = [conn EXCEPT ![f] = [conn[f] EXCEPT !.wbuf = rest]]
        /\ armed' = [armed EXCEPT ![f] = ArmedAfter(f)]
    BY <1>1, <1>6 DEF DealWrite
  <2>2. conn'[f].wbuf = rest /\ armed'[f] = ArmedAfter(f)
    BY <1>1, <2>1 DEF Conns
  <2>3. Taken(f) = Len(conn[f].wbuf) => rest = <<>>
    <3>1. rest \in Seq(Messages) /\ Len(rest) = Len(conn[f].wbuf) - Taken(f) /\ Len(conn[f].wbuf) \in Nat
      BY <1>1, <1>3, TakenTypes, ConnTypes, LenProperties
    <3> HIDE DEF rest
    <3> QED
      BY <3>1, EmptySeq
  <2>4. rest = <<>> \/ ArmedAfter(f) = "out"
    BY <2>3 DEF ArmedAfter
  <2>5. \A g \in Fds : g # f => conn'[g] = conn[g] /\ armed'[g] = armed[g]
    BY <1>1, <2>1
  <2> QED
    BY <2>2, <2>4, <2>5 DEF OutputHandled
<1> QED
  BY <1>4, <1>5, <1>6

\* dealRead.
LEMMA ReadOutput ==
  ASSUME TypeInv, Splits = {}, NEW f \in Fds, DealRead(f)
  PROVE  OutputHandled(f)
<1>1. /\ GroupServerTypeOK /\ conn \in [Fds -> Conns] /\ conn[f] \in Conns /\ armed \in [Fds -> {"in", "out", "none"}]
      /\ userKey \in [Users -> Keys \cup {NoKey}] /\ active \subseteq Keys
  BY DEF TypeInv, GroupSystemTypeOK, GroupServerTypeOK, KeyStoreTypeOK
<1>2. ASSUME <<f, "in">> \in batch
      PROVE  Open(f) /\ conn[f].proc \in Procs
  BY <1>1, <1>2, ConnTypes DEF TypeInv, BatchIsOpen, Events
<1>3. ASSUME NEW r, Received(f, r), NEW c \in Conns, NEW ms \in Seq(Messages),
             \/ Answer(f, c, ms)
             \/ OnWriteNewKey(Answered(f, c, ms), [armed EXCEPT ![f] = "out"])
      PROVE  OutputHandled(f)
  BY <1>1, <1>2, <1>3, AnswerOutput DEF Received, Event
<1>4. CASE DealReadError(f)
  BY <1>1, <1>4, CloseOutput
<1>5. CASE DealReadPart(f)
  BY <1>5 DEF DealReadPart
<1>6. ASSUME NEW isLogin \in BOOLEAN, OnReadUserVerify(f, isLogin)
      PROVE  OutputHandled(f)
  <2> DEFINE u == Acct[conn[f].proc]
  <2>1. PICK r : Received(f, r)
    BY <1>6 DEF OnReadUserVerify
  <2>2. u \in Users
    BY <1>2, <2>1, GroupServerAssumption DEF Received, Event
  <2>3. PICK con \in {conn[f], [conn[f] EXCEPT !.user = u], [conn[f] EXCEPT !.user = NoUser]},
             word \in {"ok", "bad", "pwd"} : Answer(f, con, <<Word("login", word)>>)
    BY <1>6 DEF OnReadUserVerify
  <2>4. [conn[f] EXCEPT !.user = u] \in Conns /\ [conn[f] EXCEPT !.user = NoUser] \in Conns
    BY <1>1, <2>2, ConnChanges
  <2>5. con \in Conns /\ <<Word("login", word)>> \in Seq(Messages)
    BY <1>1, <2>3, <2>4, MessageTypes
  <2> QED
    BY <1>3, <2>1, <2>3, <2>5
<1>7. CASE OnReadAllocation(f)
  <2>1. Received(f, "allocation")
    BY <1>7 DEF OnReadAllocation
  <2>2. CASE Answer(f, conn[f], <<Word("allocation", "bad")>>)
    BY <1>1, <1>3, <2>1, <2>2, MessageTypes
  <2>3. ASSUME NEW k \in Keys \cup {NoKey}, NEW a \in BOOLEAN,
               \/ Answer(f, [conn[f] EXCEPT !.mod = k, !.act = a], <<Word("allocation", "bad")>>)
               \/ Answer(f, [conn[f] EXCEPT !.mod = k, !.act = a],
                         <<Word("allocation", "ok"), Mod([conn[f] EXCEPT !.mod = k, !.act = a].mod)>>)
        PROVE  OutputHandled(f)
    <3> DEFINE con == [conn[f] EXCEPT !.mod = k, !.act = a]
    <3>1. conn[f] \in Conns /\ k \in Keys \cup {NoKey} /\ a \in BOOLEAN
      BY <1>1
    <3>2. con \in Conns /\ con.mod = k
      BY <3>1, ModChanges
    <3>3. <<Word("allocation", "bad")>> \in Seq(Messages) /\ <<Word("allocation", "ok"), Mod(k)>> \in Seq(Messages)
      BY MessageTypes
    <3>4. Answer(f, con, <<Word("allocation", "bad")>>) \/ Answer(f, con, <<Word("allocation", "ok"), Mod(k)>>)
      BY <2>3, <3>2
    <3> HIDE DEF con
    <3> QED
      BY <1>3, <2>1, <3>2, <3>3, <3>4
  <2>4. ASSUME NEW k \in Keys,
               \/ Answer(f, [conn[f] EXCEPT !.mod = k, !.act = k \in active], <<Word("allocation", "bad")>>)
               \/ Answer(f, [conn[f] EXCEPT !.mod = k, !.act = k \in active],
                         <<Word("allocation", "ok"), Mod([conn[f] EXCEPT !.mod = k, !.act = k \in active].mod)>>)
        PROVE  OutputHandled(f)
    <3> DEFINE a == k \in active
    <3>1. a \in BOOLEAN
      OBVIOUS
    <3>2. \/ Answer(f, [conn[f] EXCEPT !.mod = k, !.act = a], <<Word("allocation", "bad")>>)
          \/ Answer(f, [conn[f] EXCEPT !.mod = k, !.act = a],
                    <<Word("allocation", "ok"), Mod([conn[f] EXCEPT !.mod = k, !.act = a].mod)>>)
      BY <2>4
    <3> HIDE DEF a
    <3> QED
      BY <2>3, <3>1, <3>2
  <2>5. CASE /\ conn[f].user # NoUser
             /\ Answer(f, [conn[f] EXCEPT !.mod = userKey[conn[f].user], !.act = FALSE],
                        <<Word("allocation", "ok"), Mod([conn[f] EXCEPT !.mod = userKey[conn[f].user], !.act = FALSE].mod)>>)
    <3>1. userKey[conn[f].user] \in Keys \cup {NoKey}
      BY <1>1, <2>5, ConnTypes
    <3> QED
      BY <2>3, <2>5, <3>1
  <2> QED
    BY <1>7, <2>2, <2>4, <2>5 DEF OnReadAllocation
<1>8. CASE OnReadMemberJoin(f)
  <2>1. /\ Received(f, "mem_join")
        /\ \/ OnWriteNewKey(Answered(f, Activated(conn[f]), <<Word("mem_join", "ok")>>), [armed EXCEPT ![f] = "out"])
           \/ Answer(f, conn[f], <<Word("mem_join", "bad")>>)
    BY <1>8 DEF OnReadMemberJoin
  <2>2. Activated(conn[f]) \in Conns
    <3> DEFINE a == conn[f].act \/ (conn[f].mod \in members /\ conn[f].mod \notin active)
    <3>1. a \in BOOLEAN
      BY <1>1, ConnTypes
    <3> HIDE DEF a
    <3>2. [conn[f] EXCEPT !.act = a] \in Conns
      BY <1>1, <3>1, ConnChanges
    <3> QED
      BY <3>2 DEF a, Activated
  <2>3. <<Word("mem_join", "ok")>> \in Seq(Messages) /\ <<Word("mem_join", "bad")>> \in Seq(Messages)
    BY MessageTypes
  <2> QED
    BY <1>1, <1>3, <2>1, <2>2, <2>3
<1>9. CASE OnReadMemberLeave(f)
  <2>1. /\ Received(f, "mem_leave")
        /\ \/ OnWriteNewKey(Answered(f, [conn[f] EXCEPT !.act = FALSE], <<Word("mem_leave", "ok")>>),
                            [armed EXCEPT ![f] = "out"])
           \/ Answer(f, conn[f], <<Word("mem_leave", "bad")>>)
    BY <1>9 DEF OnReadMemberLeave
  <2>2. [conn[f] EXCEPT !.act = FALSE] \in Conns
    BY <1>1, ConnChanges
  <2>3. <<Word("mem_leave", "ok")>> \in Seq(Messages) /\ <<Word("mem_leave", "bad")>> \in Seq(Messages)
    BY MessageTypes
  <2> QED
    BY <1>1, <1>3, <2>1, <2>2, <2>3
<1>10. CASE OnReadError(f)
  <2>1. <<Word("err", "Unexpected behaviour!")>> \in Seq(Messages)
    BY MessageTypes
  <2> QED
    BY <1>1, <1>3, <1>10, <2>1 DEF OnReadError
<1>11. CASE DealReadDamaged(f)
  <2>1. armed' = [armed EXCEPT ![f] = "out"] /\ \A g \in Fds : g # f => conn'[g] = conn[g]
    BY <1>1, <1>11 DEF DealReadDamaged, Answered
  <2> QED
    BY <1>1, <2>1 DEF OutputHandled
<1> QED
  BY <1>4, <1>5, <1>6, <1>7, <1>8, <1>9, <1>10, <1>11 DEF DealRead

\* Wait only takes what it puts in the batch.
LEMMA WaitKeeps ==
  ASSUME TypeInv, Wait, NEW f \in Fds, Open(f), armed[f] = "out"
  PROVE  armed'[f] = "out" \/ HasEvent(f)'
<1>1. armed' = [g \in Fds |-> IF EventOf(g) # "none" THEN "none" ELSE armed[g]]
  BY DEF Wait
<1>2. armed'[f] = "none" => HasEvent(f)'
  BY WaitTypes DEF HasEvent
<1> QED
  BY <1>1, <1>2

\* Every step of the server.
LEMMA OutputServer ==
  ASSUME TypeInv, Splits = {}, ConnsDiffer, rekey' \in SUBSET Keys, NEW f \in Fds,
         DealRead(f) \/ DealWrite(f) \/ DealHup(f), OutputIsWatched
  PROVE  OutputIsWatched'
<1>1. GroupServerTypeOK /\ link \in [Procs -> Links]
  BY DEF TypeInv, GroupSystemTypeOK, GroupServerTypeOK
<1>2. Handled(f)
  BY EventHandled
<1>3. OutputHandled(f)
  BY <1>1, ReadOutput, WriteOutput, CloseOutput
<1>4. SUFFICES ASSUME NEW g \in Fds, Open(g)' PROVE Watched(g)'
  <2>1. OutputIsWatched' <=> \A g \in Fds : Open(g)' => Watched(g)'
    BY DEF OutputIsWatched, Watched, Gone, HasEvent, Events
  <2> QED
    BY <1>4, <2>1
<1>5. PICK ev \in Events : <<f, ev>> \in batch /\ batch' = batch \ {<<f, ev>>}
  BY <1>2 DEF Handled
<1>6. Open(f)
  BY <1>5 DEF TypeInv, BatchIsOpen
<1>7. CASE g = f
  <2>1. conn'[f].proc = conn[f].proc
    BY <1>2, <1>4, <1>7 DEF Handled, Open
  <2> QED
    BY <1>3, <1>4, <1>7, <2>1 DEF OutputHandled, Watched, Gone
<1>8. CASE g # f
  <2>1. conn'[g].proc = conn[g].proc
    BY <1>2, <1>8 DEF Handled
  <2>2. Open(g) /\ conn[g].proc # conn[f].proc /\ conn[g].proc \in Procs
    BY <1>1, <1>4, <1>6, <1>8, <2>1, ConnTypes DEF Open, ConnsDiffer
  <2>3. link'[conn[g].proc] = link[conn[g].proc]
    <3>1. link' \in {link, [link EXCEPT ![conn[f].proc] = "rst"], [link EXCEPT ![conn[f].proc] = "closed"]}
      BY <1>2 DEF Handled
    <3> QED
      BY <1>1, <2>2, <3>1
  <2>4. Watched(g)
    BY <2>2, OutputForm
  <2>5. HasEvent(g) => HasEvent(g)'
    BY <1>5, <1>8 DEF HasEvent
  <2>6. (conn'[g].wbuf = conn[g].wbuf /\ armed'[g] = armed[g]) \/ armed'[g] = "out"
    BY <1>3, <1>8 DEF OutputHandled
  <2> QED
    BY <2>1, <2>3, <2>4, <2>5, <2>6 DEF Watched, Gone
<1> QED
  BY <1>7, <1>8

\* Every step.
LEMMA OutputStep ==
  ASSUME TypeInv, TypeInv', Splits = {}, ConnsDiffer, OutputIsWatched, [GroupSystemNext]_sysVars
  PROVE  OutputIsWatched'
<1>1. /\ GroupServerTypeOK /\ link \in [Procs -> Links] /\ rekey' \in SUBSET Keys
      /\ conn \in [Fds -> Conns] /\ armed \in [Fds -> {"in", "out", "none"}]
  BY DEF TypeInv, GroupSystemTypeOK, GroupServerTypeOK, KeyStoreTypeOK
<1>2. \A f \in Fds : Open(f) => Watched(f)
  BY OutputForm
<1>3. OutputIsWatched' <=> \A g \in Fds : Open(g)' => Watched(g)'
  BY DEF OutputIsWatched, Watched, Gone, HasEvent, Events
<1>4. CASE Wait
  <2>1. UNCHANGED <<conn, link>> /\ batch = {}
    BY <1>4 DEF Wait, socketVars
  <2>2. ASSUME NEW f \in Fds, Open(f)
        PROVE  Watched(f)'
    <3>1. Watched(f) /\ ~HasEvent(f)
      BY <1>2, <2>1, <2>2 DEF HasEvent
    <3>2. CASE armed[f] = "out"
      <4>1. armed'[f] = "out" \/ HasEvent(f)'
        BY <1>4, <2>2, <3>2, WaitKeeps
      <4> QED
        BY <4>1 DEF Watched
    <3> QED
      BY <2>1, <3>1, <3>2 DEF Watched, Gone
  <2> QED
    BY <1>3, <2>1, <2>2 DEF Open
<1>5. CASE DealListen
  <2>1. batch' = batch \ {<<Listen, "in">>} /\ (\A f \in Fds : f # Listen) /\ link' = link
    BY <1>5, GroupServerAssumption DEF DealListen, Event, Fds, Listen
  <2>2. ASSUME NEW f \in Fds, Open(f)', ~Accepts(f)
        PROVE  Watched(f)'
    <3>1. conn'[f] = conn[f] /\ armed'[f] = armed[f]
      BY <1>5, <2>2, ListenTypes
    <3>2. Watched(f)
      BY <1>2, <2>2, <3>1 DEF Open
    <3>3. HasEvent(f) => HasEvent(f)'
      BY <2>1 DEF HasEvent
    <3> QED
      BY <2>1, <3>1, <3>2, <3>3 DEF Watched, Gone
  <2>3. ASSUME NEW f \in Fds, Accepts(f)
        PROVE  Watched(f)'
    <3>1. conn'[f] = Inited(conn[f], backlog[PlaceAmongFree(f)])
      BY <1>5, <2>3 DEF DealListen
    <3>2. conn'[f].wbuf = <<>>
      BY <1>1, <3>1 DEF Inited, Conns
    <3> QED
      BY <3>2 DEF Watched
  <2> QED
    BY <1>3, <2>2, <2>3
<1>6. CASE Server
  BY <1>1, <1>4, <1>5, <1>6, OutputServer DEF Server, ServerStep
<1>7. CASE /\ UNCHANGED <<connVars, batch>>
           /\ \A o \in Procs : Gone(o) => Gone(o)'
  <2>1. \A f \in Fds : Open(f) => conn[f].proc \in Procs
    BY <1>1, ConnTypes
  <2>2. \A f \in Fds : Open(f) => Watched(f)'
    BY <1>2, <1>7, <2>1 DEF Watched, Gone, HasEvent, connVars
  <2> QED
    BY <1>3, <1>7, <2>2 DEF Open, connVars
<1>8. ASSUME NEW p \in Procs, Connect(p)
      PROVE  OutputIsWatched'
  BY <1>1, <1>7, <1>8 DEF Connect, Gone
<1>9. ASSUME NEW p \in Procs, Die(p) \/ ClientStep(p)
      PROVE  OutputIsWatched'
  <2>1. UNCHANGED <<connVars, batch>> /\ link[p] = "open"
    BY <1>9, ClientLeaves DEF Die
  <2>2. \E end \in {"open", "fin", "rst"} : link' = [link EXCEPT ![p] = end]
    BY <1>1, <1>9, <2>1, ClientGoesOn, DisconnectTypes DEF Continue, Return, Die
  <2>3. \A o \in Procs : Gone(o) => Gone(o)'
    BY <1>1, <2>1, <2>2 DEF Gone
  <2> QED
    BY <1>7, <2>1, <2>3
<1>10. ASSUME NEW p \in Peers, PeerReads(p) \/ \E r \in Requests : PeerSends(p, r)
       PROVE  OutputIsWatched'
  <2>1. UNCHANGED <<connVars, batch, link>>
    BY <1>10 DEF PeerReads, PeerSends, socketVars
  <2> QED
    BY <1>7, <2>1 DEF Gone
<1>11. CASE UNCHANGED sysVars
  BY <1>7, <1>11 DEF sysVars, serverVars, socketVars, Gone
<1> QED
  BY <1>6, <1>8, <1>9, <1>10, <1>11 DEF GroupSystemNext

\* When every request arrives in one piece, what is written for a connection
\* is on its way: epoll watches for the moment it can go out, or an event of
\* the connection is about to be handled.  (GroupStranded shows the other case.)
THEOREM OutputGoesOut == Splits = {} /\ GroupSystemSpec => []OutputIsWatched
<1> SUFFICES ASSUME Splits = {} PROVE GroupSystemSpec => []OutputIsWatched
  OBVIOUS
<1>1. GroupSystemInit => OutputIsWatched
  BY DEF GroupSystemInit, GroupServerInit, OutputIsWatched, Open
<1>2. TypeInv /\ TypeInv' /\ ConnsDiffer /\ OutputIsWatched /\ [GroupSystemNext]_sysVars => OutputIsWatched'
  BY OutputStep
<1> QED
  BY <1>1, <1>2, TypesHold, EachServedOnce, PTL DEF GroupSystemSpec
=============================================================================
