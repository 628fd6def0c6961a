--------------------------- MODULE MessageStream ----------------------------
(***************************************************************************)
(* One direction of a connection between the server and a client: a        *)
(* program adds messages to its write buffer and writes what it can of it, *)
(* the other reads what has arrived into its read buffer and takes whole   *)
(* messages out of that.  The ends are one of a Conn, which is used again   *)
(* for later connections, and one of a client process, which is new each   *)
(* time.  They do not read in the same way:                                *)
(*   Client::readFd blocks: it looks for a message first, and each time    *)
(*   that none is complete it reads once and looks again;                  *)
(*   Server::start waits for a read event, Server::dealRead then reads     *)
(*   until nothing is there, looks once, for one message, and arms the     *)
(*   connection again.  What lies behind that message in the read buffer   *)
(*   is looked at when more data comes, and a hang-up closes the           *)
(*   connection without a look.                                            *)
(*                                                                         *)
(* The socket keeps the bytes in order and holds at most WireSize of them; *)
(* a write hands over some of what is there, a read gets all that arrived  *)
(* (the array on its stack holds more than the socket).                    *)
(***************************************************************************)
EXTENDS MessageBuffer

CONSTANTS
  Messages,   \* the messages, pairs of a title and a content
  MaxSent,    \* bound: messages on one connection
  Window,     \* bound: messages under way at a time
  WireSize    \* bound: bytes the socket holds

ASSUME StreamAssumption ==
  /\ MaxSent \in Nat /\ Window \in Nat /\ WireSize \in Nat \ {0}
  /\ \A msg \in Messages : msg \in Seq(Letters) \X Seq(Letters)

VARIABLES
  writer,    \* the write buffer at one end
  wire,      \* the bytes that were written and not yet read
  reader,    \* the read buffer at the other end
  reading,   \* where the reading program is, see Places
  ret,       \* what getMessage returned last
  message,   \* the message it found last
  flight,    \* the messages added and not yet found
  sent,      \* how many were added on this connection
  open       \* whether the writing program still holds its end

streamVars == <<writer, wire, reader, reading, ret, message, flight, sent, open>>

Aborted == ret = 1

ClientPlaces == {"look", "read"}            \* in readFd
ConnPlaces   == {"wait", "drain", "take"}   \* in the loop, read, getMessage
Places       == ClientPlaces \cup ConnPlaces

ConnReads == reading \in ConnPlaces

StreamTypeOK ==
  /\ IsBuffer(writer) /\ IsBuffer(reader)
  /\ wire \in Seq(Bytes) /\ Len(wire) <= WireSize
  /\ reading \in Places /\ ret \in {-2, -1, 0, 1}
  /\ message \in Messages \cup {<< >>}
  /\ flight \in Seq(Messages) /\ Len(flight) <= Window
  /\ sent \in 0..MaxSent /\ open \in BOOLEAN

Fresh ==
  /\ wire' = << >> /\ ret' = -2
  /\ message' = << >> /\ flight' = << >> /\ sent' = 0 /\ open' = TRUE

StreamInit ==
  /\ writer = Buffer(InitSize) /\ reader = Buffer(InitSize)
  /\ wire = << >> /\ reading \in {"look", "wait"} /\ ret = -2
  /\ message = << >> /\ flight = << >> /\ sent = 0 /\ open = TRUE

-----------------------------------------------------------------------------
Add(msg) ==
  /\ open /\ sent < MaxSent /\ Len(flight) < Window
  /\ writer' = AddMessage(writer, msg)
  /\ flight' = Append(flight, msg)
  /\ sent' = sent + 1
  /\ UNCHANGED <<wire, reader, reading, ret, message, open>>

\* WriteFd: write takes a part of the readable bytes.
WriteFd ==
  /\ open
  /\ \E n \in 1..ReadableBytes(writer) :
       /\ Len(wire) + n <= WireSize
       /\ wire' = wire \o Peek(writer, n)
       /\ writer' = Retrieve(writer, n)
  /\ UNCHANGED <<reader, reading, ret, message, flight, sent, open>>

\* epoll_wait reports data, and the loop calls dealRead.
Event ==
  /\ reading = "wait" /\ ~Aborted /\ wire # << >>
  /\ reading' = "drain"
  /\ UNCHANGED <<writer, wire, reader, ret, message, flight, sent, open>>

\* ReadFd, when something has arrived: Client::readFd looks after each of
\* them, Conn::read goes on until nothing is there.
ReadFd ==
  /\ reading \in {"read", "drain"} /\ ~Aborted /\ wire # << >>
  /\ reader' = Filled(reader, wire)
  /\ wire' = << >>
  /\ reading' = IF reading = "read" THEN "look" ELSE "drain"
  /\ UNCHANGED <<writer, ret, message, flight, sent, open>>

\* ReadFd, when nothing is there.  Conn::read ends at EAGAIN or at the end of
\* file; a client blocks, and takes the 0 of an end of file for data: it
\* looks again and is back here.
NothingThere ==
  /\ ~Aborted /\ wire = << >>
  /\ \/ reading = "drain" /\ reading' = "take"
     \/ reading = "read" /\ ~open /\ reading' = "look"
  /\ UNCHANGED <<writer, wire, reader, ret, message, flight, sent, open>>

\* Look for a message.  The client reads next when it is incomplete, and calls
\* readFd again when it has one; dealRead arms the connection whatever it got.
Look ==
  /\ reading \in {"look", "take"} /\ ~Aborted
  /\ \E o \in GetMessage(reader) :
       /\ reader' = o.buffer /\ ret' = o.ret
       /\ reading' = CASE reading = "take" -> "wait"
                       [] reading = "look" -> IF o.ret = -2 THEN "read" ELSE "look"
       /\ message' = IF o.ret = 0 THEN o.msg ELSE message
       /\ flight' = IF o.ret = 0 /\ flight # << >> THEN Tail(flight) ELSE flight
  /\ UNCHANGED <<writer, wire, sent, open>>

\* The writing process is gone; what it did not write stays where it is.
Gone ==
  /\ open /\ open' = FALSE
  /\ UNCHANGED <<writer, wire, reader, reading, ret, message, flight, sent>>

\* The next connection: Conn::init empties the buffers of the Conn, and the
\* process at the other end is a new one.  A server that aborted is started
\* again, with new Conns.
NotEmptied(b) == b
ConnInit(b)   == RetrieveAll(b)

Renew ==
  /\ Fresh
  /\ \/ /\ ~ConnReads /\ reading' = "look"
        /\ writer' = ConnInit(writer) /\ reader' = Buffer(InitSize)
     \/ /\ ConnReads /\ reading' = "wait"
        /\ reader' = IF Aborted THEN Buffer(InitSize) ELSE ConnInit(reader)
        /\ writer' = Buffer(InitSize)

StreamNext ==
  \/ \E msg \in Messages : Add(msg)
  \/ WriteFd \/ Event \/ ReadFd \/ NothingThere \/ Look
  \/ Gone \/ Renew

\* A process that writes goes on until all is written, a handler that has
\* begun ends, and a client that waits for messages stays in readFd.  The
\* loop gets to data it was told of, but only while the peer is there: when
\* the hang-up is reported with the data, the connection is closed unread.
StreamFairness ==
  /\ WF_streamVars(WriteFd) /\ WF_streamVars(open /\ Event)
  /\ WF_streamVars(ReadFd) /\ WF_streamVars(NothingThere)
  /\ WF_streamVars(Look)

StreamSpec == StreamInit /\ [][StreamNext]_streamVars /\ StreamFairness

-----------------------------------------------------------------------------
(* Properties.                                                             *)

(***************************************************************************)
(* However the stream is cut into writes and reads and however the arrays  *)
(* are compacted, grown and reused: the bytes that wait in the read        *)
(* buffer, on the wire and in the write buffer are the frames of the       *)
(* messages that were not yet taken, in order.                             *)
(***************************************************************************)
StreamIntact ==
  Readable(reader) \o wire \o Readable(writer)
    = FlattenSeq([i \in 1..Len(flight) |-> Frame(flight[i])])

(***************************************************************************)
(* A connection can go on for ever: an array never gets larger than the    *)
(* messages under way and one more piece need, however many messages have  *)
(* gone through it and however many connections it served (MakeSpace_      *)
(* moves the readable bytes to the front before it grows the array).       *)
(***************************************************************************)
LongestFrame == Max({Len(Frame(msg)) : msg \in Messages})

BuffersAreBounded ==
  LET underWay == Window * LongestFrame
  IN  /\ Len(writer.bytes) <= Max({InitSize, underWay + LongestFrame})
      /\ Len(reader.bytes) <= Max({InitSize, underWay + WireSize})

(***************************************************************************)
(* Every message that is added is found by the other end, however it is    *)
(* cut, with these exceptions and no other:                                *)
(*   the process that reads aborts (MessageBorder);                        *)
(*   the writing process is gone, and the server reads, which then closes  *)
(*   the connection, or the message has not arrived whole;                 *)
(*   the server reads, its last look found the message before, this one    *)
(*   lies behind it whole, and no more data has come since (dealRead takes *)
(*   one message for each event).  That is left only through an event,     *)
(*   and entered again only by finding a message.                          *)
(***************************************************************************)
HeadArrived ==
  Len(Readable(reader) \o wire) >= Len(Frame(Head(flight)))

HeldBack ==
  /\ reading = "wait" /\ ret = 0 /\ wire = << >> /\ flight # << >>
  /\ Len(Readable(reader)) >= Len(Frame(Head(flight)))

AllDelivered ==
  flight # << >> /\ ~HeldBack
    ~> \/ flight = << >> \/ Aborted \/ HeldBack
       \/ ~open /\ (ConnReads \/ ~HeadArrived)

(***************************************************************************)
(* buffer.cpp:31, assert(len <= ReadableBytes()): nobody retrieves more    *)
(* than there is.                                                          *)
(***************************************************************************)
AssertionHolds == ~Aborted

Queue == INSTANCE MessageQueue WITH queue <- flight

(***************************************************************************)
(* Each end sees a queue of whole messages.                                *)
(***************************************************************************)
ImplementsMessageQueue == Queue!Spec
=============================================================================
