---------------------- MODULE MessageStreamProofs ----------------------
(*****************************************************************************)
(* Theorems about MessageStream.  The inductive invariant is StreamTypeOK    *)
(* with StreamIntact: what is in the read buffer, on the wire and in the     *)
(* write buffer, one behind the other, are the frames of the messages not yet *)
(* taken.  From it a look into the read buffer finds the message added first *)
(* or nothing, which is the step of the refinement, and no array holds more  *)
(* than the messages under way, which bounds its size.                       *)
(*****************************************************************************)
EXTENDS MessageBufferProofs, FiniteSetTheorems

(* The bytes of the frames of messages.                                    *)

\* The frames of a sequence of messages.
Frames(q) == [i \in 1..Len(q) |-> Frame(q[i])]

\* The bytes of these frames.
Stream(q) == FlattenSeq(Frames(q))

\* They are as many as the messages, and texts.
LEMMA FramesTypes ==
  ASSUME NEW q \in Seq(Messages)
  PROVE  /\ Len(q) \in Nat /\ Frames(q) \in Seq(Text) /\ Len(Frames(q)) = Len(q)
         /\ \A i \in 1..Len(q) : q[i] \in Messages /\ Frames(q)[i] = Frame(q[i])
<1>1. Len(q) \in Nat /\ \A i \in 1..Len(q) : q[i] \in Messages
  BY LenProperties, ElementOfSeq
<1>2. \A i \in 1..Len(q) : Frame(q[i]) \in Text
  BY <1>1, FrameProperties
<1>3. PICK n \in Nat : n = Len(q)
  BY <1>1
<1>4. [i \in 1..n |-> Frame(q[i])] \in [1..n -> Text]
  BY <1>2, <1>3
<1>5. PICK fs : fs = [i \in 1..n |-> Frame(q[i])]
  OBVIOUS
<1>6. Frames(q) = fs
  BY <1>3, <1>5 DEF Frames
<1>7. fs \in Seq(Text) /\ Len(fs) = n
  BY <1>4, <1>5
<1>8. \A i \in 1..n : fs[i] = Frame(q[i])
  BY <1>5
<1> QED
  BY <1>1, <1>3, <1>6, <1>7, <1>8

\* The bytes of frames are bytes.
LEMMA StreamTypes ==
  ASSUME NEW q \in Seq(Messages)
  PROVE  Stream(q) \in Text
<1>1. Frames(q) \in Seq(Seq(Bytes))
  BY FramesTypes DEF Text
<1>2. FlattenSeq(Frames(q)) \in Seq(Bytes)
  BY <1>1, FlattenIsSequence
<1> QED
  BY <1>2 DEF Stream, Text

\* No message, no bytes.
LEMMA StreamOfNone == Stream(<< >>) = << >>
<1>1. Frames(<< >>) = << >>
  BY DEF Frames
<1> QED
  BY <1>1, FlattenEmpty DEF Stream

\* The frame of a message that is added comes last.
LEMMA StreamGrows ==
  ASSUME NEW q \in Seq(Messages), NEW msg \in Messages
  PROVE  Stream(Append(q, msg)) = Stream(q) \o Frame(msg)
<1>1. PICK a, fs, f, n : a = Append(q, msg) /\ fs = Frames(q) /\ f = Frame(msg) /\ n = Len(q)
  OBVIOUS
<1>2. n \in Nat /\ fs \in Seq(Text) /\ Len(fs) = n /\ \A i \in 1..n : fs[i] = Frame(q[i])
  BY <1>1, FramesTypes
<1>3. a \in Seq(Messages) /\ Len(a) = n + 1 /\ a[n + 1] = msg /\ \A i \in 1..n : a[i] = q[i]
  BY <1>1, AppendProperties
<1>4. /\ Frames(a) \in Seq(Text) /\ Len(Frames(a)) = n + 1
      /\ \A i \in 1..(n + 1) : Frames(a)[i] = Frame(a[i])
  BY <1>3, FramesTypes
<1>5. f \in Text
  BY <1>1, FrameProperties
<1>6. PICK g : g = Append(fs, f)
  OBVIOUS
<1>7. g \in Seq(Text) /\ Len(g) = n + 1 /\ g[n + 1] = f /\ \A i \in 1..n : g[i] = fs[i]
  BY <1>2, <1>5, <1>6, AppendProperties
<1>8. ASSUME NEW i \in 1..(n + 1) PROVE Frames(a)[i] = g[i]
  <2>1. CASE i = n + 1
    BY <1>1, <1>3, <1>4, <1>7, <2>1
  <2>2. CASE i # n + 1
    <3>1. i \in 1..n
      BY <1>2, <2>2
    <3> QED
      BY <1>2, <1>3, <1>4, <1>7, <3>1
  <2> QED
    BY <2>1, <2>2
<1>9. Frames(a) = g
  BY <1>4, <1>7, <1>8, SeqEqual
<1>10. FlattenSeq(Append(fs, f)) = FlattenSeq(fs) \o f
  <2>1. fs \in Seq(Seq(Bytes)) /\ f \in Seq(Bytes)
    BY <1>2, <1>5 DEF Text
  <2> QED
    BY <2>1, FlattenAppend
<1> QED
  BY <1>1, <1>6, <1>9, <1>10, Zenon DEF Stream

\* The frame of the message that was added first comes first.
LEMMA StreamFront ==
  ASSUME NEW q \in Seq(Messages), q # << >>
  PROVE  Stream(q) = Frame(Head(q)) \o Stream(Tail(q))
<1>1. PICK t, fs, n : t = Tail(q) /\ fs = Frames(q) /\ n = Len(q)
  OBVIOUS
<1>2. n \in Nat /\ fs \in Seq(Text) /\ Len(fs) = n /\ \A i \in 1..n : fs[i] = Frame(q[i])
  BY <1>1, FramesTypes
<1>3. Head(q) = q[1] /\ n # 0
  BY <1>1, EmptySeq
<1>4. t \in Seq(Messages) /\ Len(t) = n - 1 /\ \A i \in 1..Len(t) : t[i] = q[i + 1]
  BY <1>1, HeadTailProperties
<1>5. /\ Frames(t) \in Seq(Text) /\ Len(Frames(t)) = n - 1
      /\ \A i \in 1..(n - 1) : Frames(t)[i] = Frame(t[i])
  BY <1>4, FramesTypes
<1>6. fs # << >> /\ Head(fs) = fs[1]
  BY <1>2, <1>3
<1>7. PICK g : g = Tail(fs)
  OBVIOUS
<1>8. g \in Seq(Text) /\ Len(g) = n - 1 /\ \A i \in 1..Len(g) : g[i] = fs[i + 1]
  BY <1>2, <1>6, <1>7, HeadTailProperties
<1>9. ASSUME NEW i \in 1..(n - 1) PROVE Frames(t)[i] = g[i]
  <2>1. i + 1 \in 1..n
    BY <1>2
  <2> QED
    BY <1>2, <1>4, <1>5, <1>8, <2>1
<1>10. Frames(t) = g
  BY <1>5, <1>8, <1>9, SeqEqual
<1>11. FlattenSeq(fs) = Head(fs) \o FlattenSeq(Tail(fs))
  <2>1. fs \in Seq(Seq(Bytes))
    BY <1>2 DEF Text
  <2> QED
    BY <1>6, <2>1, FlattenHead
<1>12. Head(fs) = Frame(Head(q))
  <2>1. 1 \in 1..n
    BY <1>2, <1>3
  <2> QED
    BY <1>2, <1>3, <1>6, <2>1
<1> QED
  BY <1>1, <1>7, <1>10, <1>11, <1>12, Zenon DEF Stream

\* No more bytes than messages times the length of a frame.
LEMMA StreamLength ==
  ASSUME NEW q \in Seq(Messages), NEW L \in Nat, \A msg \in Messages : Len(Frame(msg)) <= L
  PROVE  Len(Stream(q)) <= Len(q) * L
<1>1. Frames(q) \in Seq(Seq(Bytes)) /\ Len(Frames(q)) = Len(q) /\ \A i \in 1..Len(Frames(q)) : Len(Frames(q)[i]) <= L
  BY FramesTypes DEF Text
<1>2. Len(FlattenSeq(Frames(q))) <= Len(Frames(q)) * L
  BY <1>1, FlattenTypes
<1> QED
  BY <1>1, <1>2, Zenon DEF Stream

-----------------------------------------------------------------------------
(* The stream, step by step.                                               *)

StreamInv == StreamTypeOK /\ StreamIntact

\* StreamIntact in these words.
LEMMA IntactStream ==
  StreamIntact <=> Readable(reader) \o wire \o Readable(writer) = Stream(flight)
BY Zenon DEF StreamIntact, Stream, Frames

\* The types of the pieces of the stream.
LEMMA StreamPieces ==
  ASSUME StreamTypeOK
  PROVE  /\ IsBuffer(writer) /\ IsBuffer(reader)
         /\ Readable(reader) \in Text /\ wire \in Text /\ Readable(writer) \in Text
         /\ flight \in Seq(Messages)
         /\ (Readable(reader) \o wire) \in Text
BY ReadableProperties, JoinedText DEF StreamTypeOK, Text

\* One look into the read buffer: either the buffer stays as it is and the
\* program reads on or aborts, or the message added first is taken out of it.
Taken(o) ==
  /\ flight # << >> /\ o.ret = 0 /\ o.msg = Head(flight)
  /\ IsBuffer(o.buffer) /\ o.buffer.bytes = reader.bytes
  /\ Readable(o.buffer) \o wire \o Readable(writer) = Stream(Tail(flight))

\* getMessage finds the message that was added first as soon as its frame is
\* there, never another one, and damages nothing before.
LEMMA LookFinds ==
  ASSUME StreamInv, NEW o \in GetMessage(reader)
  PROVE  (o.buffer = reader /\ o.ret \in {-2, 1}) \/ Taken(o)
<1>1. PICK R, w, W : R = Readable(reader) /\ w = wire /\ W = Readable(writer)
  OBVIOUS
<1>2. R \in Text /\ w \in Text /\ W \in Text /\ flight \in Seq(Messages) /\ IsBuffer(reader)
  BY <1>1, StreamPieces DEF StreamInv
<1>3. (R \o w) \o W = Stream(flight)
  BY <1>1, IntactStream DEF StreamInv
<1>4. R \o (w \o W) = Stream(flight) /\ w \o W \in Text
  <2>1. InTurn(R, w, W)
    BY <1>2, JoinedInTurn
  <2>2. w \o W \in Text
    BY <1>2, JoinedText
  <2> QED
    BY <1>3, <2>1, <2>2, Zenon DEF InTurn
<1>5. PICK V : V = w \o W
  OBVIOUS
<1>6. R \o V = Stream(flight) /\ V \in Text
  BY <1>4, <1>5, Zenon
<1>7. ReadableBytes(reader) = Len(R) /\ Len(R) \in Nat /\ Len(V) \in Nat
  BY <1>1, <1>2, <1>6, ReadableProperties, JoinedText
<1>8. CASE flight = << >>
  <2>1. R \o V = << >>
    BY <1>6, <1>8, StreamOfNone
  <2>2. R = << >>
    BY <1>2, <1>6, <2>1, ConcatSimplifications DEF Text
  <2>3. ReadableBytes(reader) = 0
    BY <1>7, <2>2
  <2>4. o = Outcome(-2, reader, << >>)
    BY <2>3, Zenon DEF GetMessage
  <2> QED
    BY <2>4 DEF Outcome
<1>9. CASE flight # << >>
  <2>1. PICK h, t : h = Head(flight) /\ t = Tail(flight)
    OBVIOUS
  <2>2. h \in Messages /\ t \in Seq(Messages)
    BY <1>2, <1>9, <2>1, HeadTailProperties
  <2>3. PICK f, S : f = Frame(h) /\ S = Stream(t)
    OBVIOUS
  <2>4. f \in Text /\ S \in Text /\ Len(f) \in Nat /\ Len(S) \in Nat
    BY <2>2, <2>3, FrameProperties, StreamTypes, JoinedText
  <2>5. R \o V = f \o S
    BY <1>2, <1>6, <1>9, <2>1, <2>3, StreamFront
  <2>6. PICK v : v = R \o V
    OBVIOUS
  <2>7. Split(v, R, V) /\ Split(v, f, S)
    BY <1>2, <1>6, <2>4, <2>5, <2>6, JoinedParts
  <2>8. CASE Len(R) < Len(f)
    <3>1. Starts(reader, f, ReadableBytes(reader))
      <4> SUFFICES ASSUME NEW i \in 1..ReadableBytes(reader)
                   PROVE  reader.bytes[reader.readPos + i] = f[i]
        BY DEF Starts
      <4>1. R[i] = reader.bytes[reader.readPos + i]
        BY <1>1, <1>2, ReadableProperties
      <4>2. i \in 1..Len(R) /\ i \in 1..Len(f)
        BY <1>7, <2>4, <2>8
      <4>3. v[i] = R[i] /\ v[i] = f[i]
        BY <2>7, <4>2 DEF Split
      <4> QED
        BY <4>1, <4>3
    <3> QED
      BY <1>2, <1>7, <2>2, <2>3, <2>8, <3>1, NothingIsFound
  <2>9. CASE ~(Len(R) < Len(f))
    <3>1. PICK n, more : n = Len(f) /\ more = SubSeq(R, n + 1, Len(R))
      OBVIOUS
    <3>2. n \in 0..Len(R)
      BY <1>7, <2>4, <2>9, <3>1
    <3>3. more \in Text /\ SubSeq(R, 1, n) \o more = R
      BY <1>2, <3>1, <3>2, TextIsCut
    <3>4. SubSeq(R, 1, n) = f
      <4>1. Holding(R, 0, f)
        <5> SUFFICES ASSUME NEW i \in 1..Len(f) PROVE R[0 + i] = f[i]
          BY DEF Holding
        <5>1. i \in 1..Len(R) /\ 0 + i = i
          BY <1>7, <2>4, <2>9
        <5> QED
          BY <2>7, <5>1 DEF Split
      <4>2. 0 + Len(f) <= Len(R) /\ 0 + 1 = 1 /\ 0 + Len(f) = n
        BY <1>7, <2>4, <2>9, <3>1
      <4>3. SubSeq(R, 0 + 1, 0 + Len(f)) = f
        BY <1>2, <2>4, <4>1, <4>2, PieceIsText
      <4> QED
        BY <4>2, <4>3, Zenon
    <3>5. R = f \o more
      BY <3>3, <3>4, Zenon
    <3>6. PICK u : /\ GetMessage(reader) = {Outcome(0, u, h)}
                   /\ IsBuffer(u) /\ u.bytes = reader.bytes /\ Readable(u) = more
      <4>1. Readable(reader) = Frame(h) \o more
        BY <1>1, <2>3, <3>5, Zenon
      <4>2. IsBuffer(reader) /\ h \in Messages /\ more \in Text
        BY <1>2, <2>2, <3>3, Zenon
      <4> QED
        BY <4>1, <4>2, MessageIsFound, SMTT(30)
    <3>7. o = Outcome(0, u, h)
      BY <3>6, Zenon
    <3>8. o.ret = 0 /\ o.msg = h /\ o.buffer = u
      BY <3>7 DEF Outcome
    <3>9. more \o V = S
      <4>1. InTurn(f, more, V)
        BY <1>6, <2>4, <3>3, JoinedInTurn
      <4>2. f \o (more \o V) = f \o S
        BY <2>5, <3>5, <4>1, Zenon DEF InTurn
      <4>3. f \in Seq(Bytes) /\ (more \o V) \in Seq(Bytes) /\ S \in Seq(Bytes)
        BY <1>6, <2>4, <3>3, JoinedText DEF Text
      <4> QED
        BY <4>2, <4>3, ConcatSimplifications
    <3>10. (Readable(u) \o wire) \o Readable(writer) = S
      <4>1. InTurn(more, w, W)
        BY <1>2, <3>3, JoinedInTurn
      <4>2. (more \o w) \o W = S
        BY <1>5, <3>9, <4>1, Zenon DEF InTurn
      <4> QED
        BY <1>1, <3>6, <4>2, Zenon
    <3> QED
      BY <1>9, <2>1, <2>3, <3>6, <3>8, <3>10, Zenon DEF Taken
  <2> QED
    BY <2>8, <2>9
<1> QED
  BY <1>8, <1>9

\* The invariant holds at the start.
LEMMA StreamInitInv ==
  ASSUME StreamInit
  PROVE  StreamInv
<1>1. InitSize \in Nat /\ MaxSent \in Nat /\ Window \in Nat /\ WireSize \in Nat
  BY BufferAssumption, StreamAssumption
<1>2. /\ IsBuffer(writer) /\ IsBuffer(reader) /\ Readable(writer) = << >> /\ Readable(reader) = << >>
  BY <1>1, EmptyBuffer DEF StreamInit
<1>3. StreamTypeOK
  <2>1. wire = << >> /\ reading \in {"look", "wait"} /\ ret = -2 /\ message = << >> /\ flight = << >> /\ sent = 0 /\ open = TRUE
    BY DEF StreamInit
  <2>2. wire \in Seq(Bytes) /\ Len(wire) <= WireSize
    BY <1>1, <2>1
  <2>3. flight \in Seq(Messages) /\ Len(flight) <= Window
    BY <1>1, <2>1
  <2>4. sent \in 0..MaxSent /\ ret \in {-2, -1, 0, 1}
    BY <1>1, <2>1
  <2>5. reading \in Places /\ open \in BOOLEAN /\ message \in Messages \cup {<< >>}
    BY <2>1, Zenon DEF Places, ClientPlaces, ConnPlaces
  <2> QED
    BY <1>2, <2>2, <2>3, <2>4, <2>5, Zenon DEF StreamTypeOK
<1>4. StreamIntact
  <2>1. wire = << >> /\ flight = << >>
    BY DEF StreamInit
  <2>2. Readable(reader) \o wire \o Readable(writer) = << >>
    BY <1>2, <2>1
  <2> QED
    BY <2>1, <2>2, StreamOfNone, IntactStream
<1> QED
  BY <1>3, <1>4 DEF StreamInv

\* The same after a step.
LEMMA IntactStreamNext ==
  StreamIntact' <=> Readable(reader') \o wire' \o Readable(writer') = Stream(flight')
BY Zenon DEF StreamIntact, Stream, Frames

\* Adding a message keeps the stream; the array grows to no more than what
\* it holds then and one more frame.
LEMMA AddStep ==
  ASSUME StreamInv, NEW msg \in Messages, Add(msg)
  PROVE  /\ StreamInv'
         /\ GrewTo(writer, writer', Len(Readable(writer)) + Len(Frame(msg)) + Len(Frame(msg)))
<1>1. StreamTypeOK /\ IsBuffer(writer) /\ flight \in Seq(Messages)
  BY StreamPieces DEF StreamInv
<1>2. /\ writer' = AddMessage(writer, msg) /\ flight' = Append(flight, msg) /\ sent' = sent + 1
      /\ wire' = wire /\ reader' = reader /\ reading' = reading /\ ret' = ret /\ message' = message /\ open' = open
      /\ sent < MaxSent /\ Len(flight) < Window
  BY DEF Add
<1>3. /\ IsBuffer(writer') /\ Readable(writer') = Readable(writer) \o Frame(msg)
      /\ GrewTo(writer, writer', Len(Readable(writer)) + Len(Frame(msg)) + Len(Frame(msg)))
  BY <1>1, <1>2, MessageIsAdded
<1>4. StreamTypeOK'
  <2>1. flight' \in Seq(Messages) /\ Len(flight') <= Window
    BY <1>1, <1>2, AppendProperties, StreamAssumption
  <2>2. sent' \in 0..MaxSent
    BY <1>1, <1>2, StreamAssumption DEF StreamTypeOK
  <2> QED
    BY <1>1, <1>2, <1>3, <2>1, <2>2, Zenon DEF StreamTypeOK
<1>5. StreamIntact'
  <2>1. PICK a, W, f : a = Readable(reader) \o wire /\ W = Readable(writer) /\ f = Frame(msg)
    OBVIOUS
  <2>2. a \in Text /\ W \in Text /\ f \in Text
    BY <1>1, <2>1, StreamPieces, FrameProperties
  <2>3. a \o W = Stream(flight)
    BY <2>1, IntactStream DEF StreamInv
  <2>4. Stream(flight') = Stream(flight) \o f
    BY <1>1, <1>2, <2>1, StreamGrows
  <2>5. InTurn(a, W, f)
    BY <2>2, JoinedInTurn
  <2>6. a \o (W \o f) = Stream(flight')
    BY <2>3, <2>4, <2>5, Zenon DEF InTurn
  <2> QED
    BY <1>2, <1>3, <2>1, <2>6, IntactStreamNext, Zenon
<1> QED
  BY <1>3, <1>4, <1>5 DEF StreamInv

\* Writing moves bytes from the buffer to the wire.
LEMMA WriteStep ==
  ASSUME StreamInv, WriteFd
  PROVE  StreamInv' /\ writer'.bytes = writer.bytes
<1>1. StreamTypeOK /\ IsBuffer(writer) /\ wire \in Text
  BY StreamPieces DEF StreamInv
<1>2. PICK n \in 1..ReadableBytes(writer) :
        Len(wire) + n <= WireSize /\ wire' = wire \o Peek(writer, n) /\ writer' = Retrieve(writer, n)
  BY DEF WriteFd
<1>3. /\ reader' = reader /\ reading' = reading /\ ret' = ret /\ message' = message
      /\ flight' = flight /\ sent' = sent /\ open' = open
  BY DEF WriteFd
<1>4. n \in 0..ReadableBytes(writer)
  BY <1>1, ReadableProperties
<1>5. /\ IsBuffer(writer') /\ writer'.bytes = writer.bytes
      /\ Peek(writer, n) \in Text /\ Len(Peek(writer, n)) = n
      /\ Peek(writer, n) \o Readable(writer') = Readable(writer)
  BY <1>1, <1>2, <1>4, RetrieveProperties
<1>6. StreamTypeOK'
  <2>1. wire' \in Seq(Bytes) /\ Len(wire') <= WireSize
    BY <1>1, <1>2, <1>5, JoinedText DEF Text
  <2> QED
    BY <1>1, <1>3, <1>5, <2>1, Zenon DEF StreamTypeOK
<1>7. StreamIntact'
  <2>1. PICK R, w, p, W : R = Readable(reader) /\ w = wire /\ p = Peek(writer, n) /\ W = Readable(writer')
    OBVIOUS
  <2>2. R \in Text /\ w \in Text /\ p \in Text /\ W \in Text /\ R \o w \in Text
    BY <1>1, <1>5, <2>1, StreamPieces, ReadableProperties
  <2>3. (R \o w) \o (p \o W) = Stream(flight)
    BY <1>5, <2>1, IntactStream, Zenon DEF StreamInv
  <2>4. InTurn(R, w, p) /\ InTurn(R \o w, p, W)
    BY <2>2, JoinedInTurn
  <2>5. (R \o (w \o p)) \o W = Stream(flight)
    BY <2>3, <2>4, Zenon DEF InTurn
  <2> QED
    BY <1>2, <1>3, <2>1, <2>5, IntactStreamNext, Zenon
<1> QED
  BY <1>5, <1>6, <1>7 DEF StreamInv

\* Reading moves them on.
LEMMA ReadStep ==
  ASSUME StreamInv, ReadFd
  PROVE  StreamInv' /\ GrewTo(reader, reader', Len(Readable(reader)) + Len(wire) + Len(wire))
<1>1. StreamTypeOK /\ IsBuffer(reader) /\ wire \in Text
  BY StreamPieces DEF StreamInv
<1>2. /\ reader' = Filled(reader, wire) /\ wire' = << >> /\ reading' \in {"look", "drain"}
      /\ writer' = writer /\ ret' = ret /\ message' = message
      /\ flight' = flight /\ sent' = sent /\ open' = open
  BY DEF ReadFd
<1>3. /\ IsBuffer(reader') /\ Readable(reader') = Readable(reader) \o wire
      /\ GrewTo(reader, reader', Len(Readable(reader)) + Len(wire) + Len(wire))
  BY <1>1, <1>2, FilledProperties
<1>4. StreamTypeOK'
  <2>1. wire' \in Seq(Bytes) /\ Len(wire') <= WireSize
    BY <1>2, StreamAssumption
  <2>2. reading' \in Places
    BY <1>2, Zenon DEF Places, ClientPlaces, ConnPlaces
  <2> QED
    BY <1>1, <1>2, <1>3, <2>1, <2>2, Zenon DEF StreamTypeOK
<1>5. StreamIntact'
  <2>1. PICK v : v = Readable(reader) \o wire
    OBVIOUS
  <2>2. v \in Text
    BY <1>1, <2>1, StreamPieces
  <2>3. v \o << >> = v
    BY <2>2, ConcatEmptySeq DEF Text
  <2>4. v \o Readable(writer) = Stream(flight)
    BY <2>1, IntactStream, Zenon DEF StreamInv
  <2> QED
    BY <1>2, <1>3, <2>1, <2>3, <2>4, IntactStreamNext, Zenon
<1> QED
  BY <1>3, <1>4, <1>5 DEF StreamInv

\* A look takes the message that was added first, or changes no buffer.
LEMMA LookStep ==
  ASSUME StreamInv, Look
  PROVE  /\ StreamInv' /\ reader'.bytes = reader.bytes
         /\ \/ flight' = flight /\ message' = message
            \/ flight # << >> /\ message' = Head(flight) /\ flight' = Tail(flight)
<1>1. StreamTypeOK /\ IsBuffer(reader) /\ flight \in Seq(Messages)
  BY StreamPieces DEF StreamInv
<1>2. PICK o \in GetMessage(reader) :
        /\ reader' = o.buffer /\ ret' = o.ret
        /\ message' = IF o.ret = 0 THEN o.msg ELSE message
        /\ flight' = IF o.ret = 0 /\ flight # << >> THEN Tail(flight) ELSE flight
  BY DEF Look
<1>3. writer' = writer /\ wire' = wire /\ sent' = sent /\ open' = open
  BY DEF Look
<1>4. reading' \in Places
  BY DEF Look, Places, ClientPlaces, ConnPlaces
<1>5. CASE o.buffer = reader /\ o.ret \in {-2, 1}
  <2>1. reader' = reader /\ ret' \in {-2, -1, 0, 1} /\ flight' = flight /\ message' = message
    BY <1>2, <1>5
  <2>2. StreamTypeOK'
    BY <1>1, <1>3, <1>4, <2>1, Zenon DEF StreamTypeOK
  <2>3. StreamIntact'
    BY <1>3, <2>1, IntactStream, IntactStreamNext, Zenon DEF StreamInv
  <2> QED
    BY <2>1, <2>2, <2>3 DEF StreamInv
<1>6. CASE Taken(o)
  <2>1. /\ flight # << >> /\ o.ret = 0 /\ o.msg = Head(flight)
        /\ IsBuffer(reader') /\ reader'.bytes = reader.bytes
        /\ Readable(reader') \o wire \o Readable(writer) = Stream(Tail(flight))
    BY <1>2, <1>6, Zenon DEF Taken
  <2>2. ret' = 0 /\ message' = Head(flight) /\ flight' = Tail(flight)
    BY <1>2, <2>1, Zenon
  <2>3. Head(flight) \in Messages /\ Tail(flight) \in Seq(Messages) /\ Len(Tail(flight)) = Len(flight) - 1
    BY <1>1, <2>1, HeadTailProperties
  <2>4. StreamTypeOK'
    <3>1. Len(flight') <= Window
      BY <1>1, <2>2, <2>3, StreamAssumption DEF StreamTypeOK
    <3>2. ret' \in {-2, -1, 0, 1}
      BY <2>2
    <3> QED
      BY <1>1, <1>3, <1>4, <2>1, <2>2, <2>3, <3>1, <3>2, Zenon DEF StreamTypeOK
  <2>5. StreamIntact'
    BY <1>3, <2>1, <2>2, IntactStreamNext, Zenon
  <2> QED
    BY <2>1, <2>2, <2>4, <2>5 DEF StreamInv
<1> QED
  BY <1>2, <1>5, <1>6, LookFinds

\* A new connection starts with buffers that are empty, whatever they held.
LEMMA RenewStep ==
  ASSUME StreamInv, Renew
  PROVE  /\ StreamInv'
         /\ Len(writer'.bytes) \in {Len(writer.bytes), InitSize}
         /\ Len(reader'.bytes) \in {Len(reader.bytes), InitSize}
<1>1. IsBuffer(writer) /\ IsBuffer(reader)
  BY StreamPieces DEF StreamInv
<1>2. /\ wire' = << >> /\ reading' \in {"look", "wait"} /\ ret' = -2
      /\ message' = << >> /\ flight' = << >> /\ sent' = 0 /\ open' = TRUE
  BY DEF Renew, Fresh
<1>3. \E k \in {Len(writer.bytes), InitSize} : writer' = Buffer(k)
  BY DEF Renew, ConnInit, RetrieveAll
<1>4. \E k \in {Len(reader.bytes), InitSize} : reader' = Buffer(k)
  BY DEF Renew, ConnInit, RetrieveAll
<1>5. Len(writer.bytes) \in Nat /\ Len(reader.bytes) \in Nat /\ InitSize \in Nat
  BY <1>1, BufferFields, BufferAssumption
<1>6. /\ IsBuffer(writer') /\ Readable(writer') = << >> /\ Len(writer'.bytes) \in {Len(writer.bytes), InitSize}
  BY <1>3, <1>5, EmptyBuffer
<1>7. /\ IsBuffer(reader') /\ Readable(reader') = << >> /\ Len(reader'.bytes) \in {Len(reader.bytes), InitSize}
  BY <1>4, <1>5, EmptyBuffer
<1>8. StreamTypeOK'
  <2>0. MaxSent \in Nat /\ Window \in Nat /\ WireSize \in Nat
    BY StreamAssumption
  <2>1. wire' \in Seq(Bytes) /\ Len(wire') <= WireSize
    BY <1>2, <2>0
  <2>2. flight' \in Seq(Messages) /\ Len(flight') <= Window
    BY <1>2, <2>0
  <2>3. sent' \in 0..MaxSent /\ ret' \in {-2, -1, 0, 1}
    BY <1>2, <2>0
  <2>4. reading' \in Places /\ open' \in BOOLEAN /\ message' \in Messages \cup {<< >>}
    BY <1>2, Zenon DEF Places, ClientPlaces, ConnPlaces
  <2> QED
    BY <1>6, <1>7, <2>1, <2>2, <2>3, <2>4, Zenon DEF StreamTypeOK
<1>9. StreamIntact'
  <2>1. Readable(reader') \o wire' \o Readable(writer') = << >>
    BY <1>2, <1>6, <1>7
  <2> QED
    BY <1>2, <2>1, StreamOfNone, IntactStreamNext
<1> QED
  BY <1>6, <1>7, <1>8, <1>9 DEF StreamInv

\* The other steps touch no byte.
Untouched ==
  /\ writer' = writer /\ wire' = wire /\ reader' = reader
  /\ flight' = flight /\ message' = message

\* Event, NothingThere, Gone and a stutter keep the invariant.
LEMMA QuietStep ==
  ASSUME StreamInv, Event \/ NothingThere \/ Gone \/ UNCHANGED streamVars
  PROVE  StreamInv' /\ Untouched
<1>1. Untouched /\ ret' = ret /\ sent' = sent
  BY DEF Event, NothingThere, Gone, streamVars, Untouched
<1>2. reading' \in Places /\ open' \in BOOLEAN
  BY DEF Event, NothingThere, Gone, streamVars, StreamInv, StreamTypeOK, Places, ClientPlaces, ConnPlaces
<1>3. StreamTypeOK'
  BY <1>1, <1>2, Zenon DEF Untouched, StreamTypeOK, StreamInv
<1>4. StreamIntact'
  BY <1>1, IntactStream, IntactStreamNext, Zenon DEF Untouched, StreamInv
<1> QED
  BY <1>1, <1>3, <1>4 DEF StreamInv

\* Every step keeps it.
LEMMA StreamInvStep ==
  ASSUME StreamInv, [StreamNext]_streamVars
  PROVE  StreamInv'
<1>1. CASE \E msg \in Messages : Add(msg)
  BY <1>1, AddStep
<1>2. CASE WriteFd
  BY <1>2, WriteStep
<1>3. CASE ReadFd
  BY <1>3, ReadStep
<1>4. CASE Look
  BY <1>4, LookStep
<1>5. CASE Renew
  BY <1>5, RenewStep
<1>6. CASE Event \/ NothingThere \/ Gone \/ UNCHANGED streamVars
  BY <1>6, QuietStep
<1> QED
  BY <1>1, <1>2, <1>3, <1>4, <1>5, <1>6 DEF StreamNext

-----------------------------------------------------------------------------
(* Theorems.                                                               *)

\* Types and stream together are inductive: StreamIntact says what the next
\* look finds, and the types keep the positions of both buffers in their arrays.
THEOREM StreamInvHolds == StreamSpec => []StreamInv
BY StreamInitInv, StreamInvStep, PTL DEF StreamSpec

\* Both buffers stay buffers (readPos_ <= writePos_ <= the size of the array,
\* which the assertions of buffer.cpp rely on), and the rest keeps its type.
THEOREM StreamTypesHold == StreamSpec => []StreamTypeOK
BY StreamInvHolds, PTL DEF StreamInv

\* However the bytes are cut into writes and reads, and however often the
\* arrays are compacted, grown and reused by later connections: what waits in the
\* read buffer, on the wire and in the write buffer are the frames of the
\* messages not yet taken, in order, for buffers, sockets and messages of any size.
THEOREM StreamStaysIntact == StreamSpec => []StreamIntact
BY StreamInvHolds, PTL DEF StreamInv

\* What addMessage and getMessage do to the bytes is a queue of whole messages:
\* adding is Put, a look that finds a message is Take of the first one, init of
\* a Conn is Renew, and every read, write or look in between changes nothing.
THEOREM StreamImplementsQueue == StreamSpec => ImplementsMessageQueue
<1>1. StreamInit => Queue!Init
  BY DEF StreamInit, Queue!Init
<1>2. StreamInv /\ [StreamNext]_streamVars => [Queue!Next]_Queue!vars
  <2> SUFFICES ASSUME StreamInv, [StreamNext]_streamVars PROVE [Queue!Next]_Queue!vars
    OBVIOUS
  <2>1. CASE \E msg \in Messages : Add(msg)
    BY <2>1 DEF Add, Queue!Next, Queue!Put
  <2>2. CASE WriteFd
    BY <2>2 DEF WriteFd, Queue!vars
  <2>3. CASE ReadFd
    BY <2>3 DEF ReadFd, Queue!vars
  <2>4. CASE Look
    BY <2>4, LookStep DEF Queue!Next, Queue!Take, Queue!vars
  <2>5. CASE Renew
    BY <2>5 DEF Renew, Fresh, Queue!Next, Queue!Renew
  <2>6. CASE Event \/ NothingThere \/ Gone \/ UNCHANGED streamVars
    BY <2>6, QuietStep DEF Untouched, Queue!vars
  <2> QED
    BY <2>1, <2>2, <2>3, <2>4, <2>5, <2>6 DEF StreamNext
<1> QED
  BY <1>1, <1>2, StreamInvHolds, PTL DEF StreamSpec, ImplementsMessageQueue, Queue!Spec

-----------------------------------------------------------------------------
(* The size of the arrays.                                                 *)

\* No frame is longer than L, and the arrays keep the bound that L gives them.
NoneLonger(L) == \A msg \in Messages : Len(Frame(msg)) <= L

Within(b, n) == Len(b.bytes) <= InitSize \/ Len(b.bytes) <= n

ArraysWithin(L) == Within(writer, Window * L + L) /\ Within(reader, Window * L + WireSize)

\* The bytes under way are bounded by the messages under way.
LEMMA BytesUnderWay ==
  ASSUME NEW q \in Seq(Messages), Len(q) <= Window, NEW x \in Text, NEW y \in Text, NEW z \in Text,
         x \o y \o z = Stream(q), NEW L \in Nat, NoneLonger(L)
  PROVE  /\ Len(x) \in Nat /\ Len(y) \in Nat /\ Len(z) \in Nat
         /\ Window * L \in Nat
         /\ Len(x) + Len(y) + Len(z) <= Window * L
<1>2. PICK r \in Nat, w \in Nat, t \in Nat : r = Len(x) /\ w = Len(y) /\ t = Len(z)
  BY JoinedText
<1>3. Len(Stream(q)) = r + w + t
  <2>1. Len(x \o y) = r + w /\ x \o y \in Text
    BY <1>2, JoinedText
  <2>2. Len((x \o y) \o z) = Len(x \o y) + Len(z)
    BY <2>1, JoinedText
  <2> QED
    BY <1>2, <2>1, <2>2, Zenon
<1>4. Len(Stream(q)) <= Len(q) * L
  BY StreamLength DEF NoneLonger
<1>5. Len(q) * L <= Window * L /\ Window * L \in Nat /\ Len(q) * L \in Nat
  <2>1. PICK k \in Nat, n \in Nat : k = Len(q) /\ n = Window /\ k <= n
    BY LenProperties, StreamAssumption
  <2>2. k * L <= n * L /\ n * L \in Nat /\ k * L \in Nat
    <3>1. PICK d \in Nat : n = k + d
      <4>1. n - k \in Nat /\ n = k + (n - k)
        BY <2>1
      <4> QED
        BY <4>1
    <3>2. n * L = k * L + d * L /\ d * L \in Nat /\ k * L \in Nat
      BY <3>1
    <3> QED
      BY <3>2
  <2> QED
    BY <2>1, <2>2, Zenon
<1>6. r + w + t <= Window * L
  <2>1. PICK p \in Nat, u \in Nat : p = Len(q) * L /\ u = Window * L /\ p <= u
    BY <1>5, Zenon
  <2>2. r + w + t <= p
    BY <1>3, <1>4, <2>1, Zenon
  <2>3. r + w + t <= u
    BY <2>1, <2>2
  <2> QED
    BY <2>1, <2>3, Zenon
<1> QED
  BY <1>2, <1>5, <1>6, Zenon

\* A step that leaves an array's length, or makes it small enough.
LEMMA StaysWithin ==
  ASSUME NEW a, NEW b, NEW n, NEW m \in Nat, NEW k \in Nat,
         IsBuffer(a), IsBuffer(b), Within(a, m), GrewTo(a, b, k), k <= m
  PROVE  Within(b, m)
<1>1. PICK x \in Nat, y \in Nat : x = Len(a.bytes) /\ y = Len(b.bytes)
  BY BufferFields
<1>2. (x <= InitSize \/ x <= m) /\ (y = x \/ y <= k)
  BY <1>1, Zenon DEF Within, GrewTo
<1>3. y <= InitSize \/ y <= m
  BY <1>2
<1> QED
  BY <1>1, <1>3, Zenon DEF Within

\* Every step keeps the arrays within these bounds.
LEMMA ArraysStep ==
  ASSUME StreamInv, StreamInv', NEW L \in Nat, NoneLonger(L), ArraysWithin(L), [StreamNext]_streamVars
  PROVE  ArraysWithin(L)'
<1>1. PICK r \in Nat, w \in Nat, t \in Nat, u \in Nat :
        /\ r = Len(Readable(reader)) /\ w = Len(wire) /\ t = Len(Readable(writer))
        /\ u = Window * L /\ r + w + t <= u
  <2>1. /\ Readable(reader) \in Text /\ wire \in Text /\ Readable(writer) \in Text
        /\ flight \in Seq(Messages) /\ Len(flight) <= Window
    BY StreamPieces DEF StreamInv, StreamTypeOK
  <2>2. Readable(reader) \o wire \o Readable(writer) = Stream(flight)
    BY IntactStream DEF StreamInv
  <2>3. /\ Len(Readable(reader)) \in Nat /\ Len(wire) \in Nat /\ Len(Readable(writer)) \in Nat
        /\ Window * L \in Nat
        /\ Len(Readable(reader)) + Len(wire) + Len(Readable(writer)) <= Window * L
    BY <2>1, <2>2, BytesUnderWay
  <2> QED
    BY <2>3, Zenon
<1>2. IsBuffer(writer) /\ IsBuffer(reader) /\ IsBuffer(writer') /\ IsBuffer(reader')
  BY DEF StreamInv, StreamTypeOK
<1>3. WireSize \in Nat /\ w <= WireSize /\ InitSize \in Nat
  BY <1>1, StreamAssumption, BufferAssumption DEF StreamInv, StreamTypeOK
<1>4. Within(writer, u + L) /\ Within(reader, u + WireSize)
  BY <1>1, Zenon DEF ArraysWithin
<1>5. u + L \in Nat /\ u + WireSize \in Nat
  BY <1>3
<1>6. SUFFICES Within(writer', u + L) /\ Within(reader', u + WireSize)
  BY <1>1, Zenon DEF ArraysWithin, Within
<1>7. CASE \E msg \in Messages : Add(msg)
  <2>1. PICK msg \in Messages : Add(msg)
    BY <1>7
  <2>2. PICK f \in Nat : f = Len(Frame(msg)) /\ f <= L
    BY FrameProperties, JoinedText DEF NoneLonger
  <2>3. GrewTo(writer, writer', t + f + f)
    BY <1>1, <2>1, <2>2, AddStep, Zenon
  <2>4. t + f + f \in Nat /\ t + f + f <= u + L
    <3>1. reader' = reader /\ wire' = wire
      BY <2>1 DEF Add
    <3>2. Readable(writer') = Readable(writer) \o Frame(msg)
      BY <1>2, <2>1, MessageIsAdded DEF Add
    <3>3. Len(Readable(writer')) = t + f
      BY <1>1, <1>2, <2>2, <3>2, ReadableProperties, FrameProperties, JoinedText
    <3>4. /\ Readable(reader) \in Text /\ wire \in Text /\ Readable(writer') \in Text
          /\ flight' \in Seq(Messages) /\ Len(flight') <= Window
      BY <1>2, StreamPieces, ReadableProperties DEF StreamInv, StreamTypeOK
    <3>5. Readable(reader) \o wire \o Readable(writer') = Stream(flight')
      BY <3>1, IntactStreamNext DEF StreamInv
    <3>6. Len(Readable(reader)) + Len(wire) + Len(Readable(writer')) <= Window * L
      BY <3>4, <3>5, BytesUnderWay
    <3>7. r + w + (t + f) <= u
      BY <1>1, <3>3, <3>6, Zenon
    <3> QED
      BY <2>2, <3>7
  <2>5. Within(writer', u + L)
    BY <1>2, <1>4, <1>5, <2>3, <2>4, StaysWithin
  <2>6. Within(reader', u + WireSize)
    BY <1>4, <2>1 DEF Add
  <2> QED
    BY <2>5, <2>6
<1>8. CASE WriteFd
  <2>1. writer'.bytes = writer.bytes /\ reader' = reader
    BY <1>8, WriteStep DEF WriteFd
  <2> QED
    BY <1>4, <2>1 DEF Within
<1>9. CASE ReadFd
  <2>1. GrewTo(reader, reader', r + w + w) /\ writer' = writer
    BY <1>1, <1>9, ReadStep DEF ReadFd
  <2>2. r + w + w \in Nat /\ r + w + w <= u + WireSize
    BY <1>1, <1>3
  <2>3. Within(reader', u + WireSize)
    BY <1>2, <1>4, <1>5, <2>1, <2>2, StaysWithin
  <2> QED
    BY <1>4, <2>1, <2>3
<1>10. CASE Look
  <2>1. reader'.bytes = reader.bytes /\ writer' = writer
    BY <1>10, LookStep DEF Look
  <2> QED
    BY <1>4, <2>1 DEF Within
<1>11. CASE Renew
  <2>1. /\ Len(writer'.bytes) = Len(writer.bytes) \/ Len(writer'.bytes) = InitSize
        /\ Len(reader'.bytes) = Len(reader.bytes) \/ Len(reader'.bytes) = InitSize
    BY <1>11, RenewStep
  <2> QED
    BY <1>3, <1>4, <2>1 DEF Within
<1>12. CASE Event \/ NothingThere \/ Gone \/ UNCHANGED streamVars
  BY <1>4, <1>12, QuietStep DEF Untouched
<1> QED
  BY <1>7, <1>8, <1>9, <1>10, <1>11, <1>12 DEF StreamNext

\* A frame has a length.
LEMMA FrameLength ==
  ASSUME NEW msg \in Messages
  PROVE  Len(Frame(msg)) \in Nat
BY FrameProperties, JoinedText

\* Finitely many messages have a longest one.
LEMMA LongestExists ==
  ASSUME IsFiniteSet(Messages), Messages # {}
  PROVE  \E top \in Messages : NoneLonger(Len(Frame(top)))
<1>1. PICK n \in Nat : ExistsBijection(1..n, Messages)
  BY FS_NatBijection
<1>2. PICK m \in [1..n -> Messages] : \A msg \in Messages : \E i \in 1..n : m[i] = msg
  BY <1>1 DEF ExistsBijection, Bijection, Surjection
<1> DEFINE Bounded(k) == \E u \in Nat : \A i \in 1..k : i <= n => Len(Frame(m[i])) <= u
<1> DEFINE T == {k \in Nat : Bounded(k)}
<1>3. Bounded(0)
  <2>1. 0 \in Nat /\ 1..0 = {}
    OBVIOUS
  <2> QED
    BY <2>1
<1>4. ASSUME NEW k \in Nat, Bounded(k) PROVE Bounded(k + 1)
  <2>1. PICK u \in Nat : \A i \in 1..k : i <= n => Len(Frame(m[i])) <= u
    BY <1>4
  <2>2. CASE k + 1 <= n
    <3>1. m[k + 1] \in Messages
      BY <2>2
    <3>2. PICK l \in Nat : l = Len(Frame(m[k + 1]))
      BY <3>1, FrameLength
    <3>3. ASSUME NEW i \in 1..(k + 1), i <= n PROVE Len(Frame(m[i])) <= u + l
      <4>1. CASE i = k + 1
        BY <3>2, <4>1
      <4>2. CASE i # k + 1
        <5>1. i \in 1..k
          BY <4>2
        <5>2. Len(Frame(m[i])) <= u
          BY <2>1, <3>3, <5>1
        <5>3. m[i] \in Messages
          BY <3>3
        <5>4. PICK x \in Nat : x = Len(Frame(m[i]))
          BY <5>3, FrameLength
        <5>5. x <= u
          BY <5>2, <5>4
        <5>6. x <= u + l
          BY <5>5
        <5> QED
          BY <5>4, <5>6
      <4> QED
        BY <4>1, <4>2
    <3>4. u + l \in Nat
      OBVIOUS
    <3> QED
      BY <3>3, <3>4
  <2>3. CASE ~(k + 1 <= n)
    <3>1. \A i \in 1..(k + 1) : i <= n => i \in 1..k
      BY <2>3
    <3> QED
      BY <2>1, <3>1
  <2> QED
    BY <2>2, <2>3
<1> HIDE DEF Bounded
<1>5. n \in T
  <2>1. 0 \in T /\ \A k \in T : k + 1 \in T
    BY <1>3, <1>4
  <2>2. T \in SUBSET Nat
    OBVIOUS
  <2> HIDE DEF T
  <2> QED
    BY <2>1, <2>2, SetOfAllNumbers
<1>6. PICK u \in Nat : NoneLonger(u)
  <2>1. PICK u \in Nat : \A i \in 1..n : i <= n => Len(Frame(m[i])) <= u
    BY <1>5 DEF Bounded
  <2>2. \A i \in 1..n : i <= n
    OBVIOUS
  <2>3. \A msg \in Messages : Len(Frame(msg)) <= u
    BY <1>2, <2>1, <2>2, Zenon
  <2> QED
    BY <2>3 DEF NoneLonger
<1> DEFINE B == {v \in Nat : NoneLonger(v)}
<1>7. PICK v \in B : \A x \in B : v <= x
  <2>1. B \in SUBSET Nat /\ B # {}
    BY <1>6
  <2> HIDE DEF B
  <2> QED
    BY <2>1, LeastNumber
<1>8. \E top \in Messages : Len(Frame(top)) = v
  <2> SUFFICES ASSUME \A msg \in Messages : Len(Frame(msg)) # v PROVE FALSE
    OBVIOUS
  <2>1. v \in Nat /\ NoneLonger(v)
    BY <1>7
  <2>2. ASSUME NEW msg \in Messages PROVE Len(Frame(msg)) <= v - 1 /\ v - 1 \in Nat
    <3>1. PICK x \in Nat : x = Len(Frame(msg))
      BY FrameLength
    <3>2. x <= v /\ x # v
      BY <2>1, <3>1 DEF NoneLonger
    <3>3. x <= v - 1 /\ v - 1 \in Nat
      BY <2>1, <3>2
    <3> QED
      BY <3>1, <3>3
  <2>3. v - 1 \in B
    BY <2>2 DEF NoneLonger
  <2> QED
    BY <1>7, <2>1, <2>3
<1> QED
  BY <1>7, <1>8

\* LongestFrame is its length.
LEMMA LongestFrameProperties ==
  ASSUME IsFiniteSet(Messages), Messages # {}
  PROVE  LongestFrame \in Nat /\ NoneLonger(LongestFrame)
<1>1. PICK top \in Messages : NoneLonger(Len(Frame(top)))
  BY LongestExists
<1>2. PICK S : S = {Len(Frame(msg)) : msg \in Messages}
  OBVIOUS
<1>3. \A x \in S : x \in Nat
  BY <1>2, FrameLength
<1>4. \E x \in S : \A y \in S : x >= y
  <2>1. Len(Frame(top)) \in S
    BY <1>2
  <2>2. ASSUME NEW y \in S PROVE Len(Frame(top)) >= y
    <3>1. y <= Len(Frame(top))
      BY <1>1, <1>2 DEF NoneLonger
    <3> QED
      BY <1>3, <2>1, <3>1
  <2> QED
    BY <2>1, <2>2
<1>5. Max(S) \in S /\ \A y \in S : Max(S) >= y
  BY <1>4 DEF Max
<1>6. LongestFrame = Max(S)
  BY <1>2 DEF LongestFrame
<1>7. ASSUME NEW msg \in Messages PROVE Len(Frame(msg)) <= LongestFrame
  <2>1. Len(Frame(msg)) \in S
    BY <1>2
  <2> QED
    BY <1>3, <1>5, <1>6, <2>1
<1> QED
  BY <1>3, <1>5, <1>6, <1>7 DEF NoneLonger

\* The bound in the words of BuffersAreBounded.
LEMMA WithinBound ==
  ASSUME NEW b, IsBuffer(b), NEW n \in Nat
  PROVE  Within(b, n) <=> Len(b.bytes) <= Max({InitSize, n})
<1>1. PICK x \in Nat, k \in Nat : x = Len(b.bytes) /\ k = InitSize
  BY BufferFields, BufferAssumption
<1>2. Max({k, n}) = IF k >= n THEN k ELSE n
  BY MaxOfTwo
<1>3. (x <= k \/ x <= n) <=> x <= (IF k >= n THEN k ELSE n)
  OBVIOUS
<1> QED
  BY <1>1, <1>2, <1>3, Zenon DEF Within

\* When the messages are finitely many, the arrays stay within bounds that do
\* not depend on how many messages pass or how many connections a Conn serves:
\* MakeSpace_ grows an array only when the readable bytes and the new ones do
\* not fit, and those are messages under way.
THEOREM StreamBuffersAreBounded ==
  IsFiniteSet(Messages) /\ Messages # {} /\ StreamSpec => []BuffersAreBounded
<1> SUFFICES ASSUME IsFiniteSet(Messages), Messages # {} PROVE StreamSpec => []BuffersAreBounded
  OBVIOUS
<1>1. PICK L \in Nat : L = LongestFrame /\ NoneLonger(L)
  BY LongestFrameProperties
<1>2. Window * L + L \in Nat /\ Window * L + WireSize \in Nat /\ InitSize \in Nat
  BY StreamAssumption, BufferAssumption
<1>3. StreamInv => (ArraysWithin(L) <=> BuffersAreBounded)
  <2> SUFFICES ASSUME StreamInv PROVE ArraysWithin(L) <=> BuffersAreBounded
    OBVIOUS
  <2>1. IsBuffer(writer) /\ IsBuffer(reader)
    BY StreamPieces DEF StreamInv
  <2>2. /\ Within(writer, Window * L + L) <=> Len(writer.bytes) <= Max({InitSize, Window * L + L})
        /\ Within(reader, Window * L + WireSize) <=> Len(reader.bytes) <= Max({InitSize, Window * L + WireSize})
    BY <1>2, <2>1, WithinBound
  <2> QED
    BY <1>1, <2>2, Zenon DEF ArraysWithin, BuffersAreBounded
<1>4. StreamInit => ArraysWithin(L)
  <2> SUFFICES ASSUME StreamInit PROVE ArraysWithin(L)
    OBVIOUS
  <2>1. Len(writer.bytes) = InitSize /\ Len(reader.bytes) = InitSize
    BY <1>2, EmptyBuffer DEF StreamInit
  <2> QED
    BY <1>2, <2>1 DEF ArraysWithin, Within
<1>5. StreamInv /\ StreamInv' /\ ArraysWithin(L) /\ [StreamNext]_streamVars => ArraysWithin(L)'
  BY <1>1, ArraysStep
<1>6. StreamSpec => []ArraysWithin(L)
  BY <1>4, <1>5, StreamInvHolds, PTL DEF StreamSpec
<1> QED
  BY <1>3, <1>6, StreamInvHolds, PTL
========================================================================
