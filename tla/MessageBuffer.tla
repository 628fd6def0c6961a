--------------------------- MODULE MessageBuffer ----------------------------
(***************************************************************************)
(* class Buffer: an array of bytes that is filled at writePos_, emptied at *)
(* readPos_, compacted when the space in front suffices and grown when it  *)
(* does not, and the two operations that put the frames #title:content#    *)
(* into it and find them again.                                            *)
(*                                                                         *)
(* A buffer is a record of the array and of the two positions, counted     *)
(* from 0 as in the code.  A byte is a border, a delimiter, a letter or    *)
(* the 0 that the array is filled with.                                    *)
(***************************************************************************)
EXTENDS Integers, Sequences, SequencesExt

CONSTANTS
  Letters,    \* the bytes of titles and contents
  InitSize,   \* initBuffSize, 1024 in the programs
  Beyond      \* what the byte behind the end of the array can read as

Border    == "#"
Delimiter == ":"
Zero      == "0"
Bytes     == Letters \cup {Border, Delimiter, Zero}

ASSUME BufferAssumption ==
  /\ InitSize \in Nat \ {0}
  /\ Letters \cap {Border, Delimiter, Zero} = {}
  /\ Beyond \subseteq Bytes /\ Beyond # {}

Zeros(n) == [i \in 1..n |-> Zero]

Buffer(size) == [bytes |-> Zeros(size), readPos |-> 0, writePos |-> 0]

IsBuffer(b) ==
  /\ b \in [bytes : Seq(Bytes), readPos : Nat, writePos : Nat]
  /\ b.readPos <= b.writePos /\ b.writePos <= Len(b.bytes)

ReadableBytes(b) == b.writePos - b.readPos
WritableBytes(b) == Len(b.bytes) - b.writePos

\* What stands between the two positions, and its first n bytes.
Readable(b) == SubSeq(b.bytes, b.readPos + 1, b.writePos)
Peek(b, n)  == SubSeq(b.bytes, b.readPos + 1, b.readPos + n)

Retrieve(b, n) == [b EXCEPT !.readPos = @ + n]

RetrieveAll(b) == Buffer(Len(b.bytes))

-----------------------------------------------------------------------------
(* Writing.  An operator just above another one with the same parameters   *)
(* is a slip of it that a run must notice: LeftInPlace, NeverShifted,      *)
(* StackLost, WithDelimiter, and NotEmptied in MessageStream.              *)

\* Overwrite the array with bs from position pos on.
Copied(bytes, pos, bs) ==
  SubSeq(bytes, 1, pos) \o bs \o SubSeq(bytes, pos + Len(bs) + 1, Len(bytes))

\* The two halves of MakeSpace_.  The compacting one leaves old bytes behind
\* writePos_ and the growing one leaves the ones in front of readPos_.
Grown(b, n) == [b EXCEPT !.bytes = @ \o Zeros(b.writePos + n + 1 - Len(@))]

LeftInPlace(b) == [b EXCEPT !.readPos = 0, !.writePos = ReadableBytes(b)]
Shifted(b) ==
  [bytes    |-> Copied(b.bytes, 0, Readable(b)),
   readPos  |-> 0,
   writePos |-> ReadableBytes(b)]

NeverShifted(b, n) == Grown(b, n)
MakeSpace(b, n) ==
  IF WritableBytes(b) + b.readPos < n THEN Grown(b, n) ELSE Shifted(b)

EnsureWriteable(b, n) == IF WritableBytes(b) < n THEN MakeSpace(b, n) ELSE b

Appended(b, bs) ==
  LET w == EnsureWriteable(b, Len(bs))
  IN  [w EXCEPT !.bytes = Copied(@, w.writePos, bs), !.writePos = @ + Len(bs)]

\* addMessage: five appends, each of which may compact or grow the array.
Frame(msg) == <<Border>> \o msg[1] \o <<Delimiter>> \o msg[2] \o <<Border>>

AddMessage(b, msg) ==
  LET title   == Appended(Appended(b, <<Border>>), msg[1])
      content == Appended(Appended(title, <<Delimiter>>), msg[2])
  IN  Appended(content, <<Border>>)

\* ReadFd: readv fills the array and an array on the stack; what landed in
\* the second one is appended.
StackLost(b, bs) ==
  LET here == SubSeq(bs, 1, Min({Len(bs), WritableBytes(b)}))
  IN  [b EXCEPT !.bytes = Copied(@, b.writePos, here), !.writePos = @ + Len(here)]
Filled(b, bs) ==
  LET n    == Min({Len(bs), WritableBytes(b)})
      here == [b EXCEPT !.bytes = Copied(@, b.writePos, SubSeq(bs, 1, n)),
                        !.writePos = @ + n]
  IN  IF n = Len(bs) THEN here ELSE Appended(here, SubSeq(bs, n + 1, Len(bs)))

-----------------------------------------------------------------------------
(* getMessage.                                                             *)

\* The values the byte at a position may have when the code looks at it.
Seen(b, pos) == IF pos < Len(b.bytes) THEN {b.bytes[pos + 1]} ELSE Beyond

\* Where the loop that looks for the right border stops: at the first border
\* behind the left one, or behind the last readable byte.
StopPos(b) ==
  LET borders == {p \in (b.readPos + 1)..(b.writePos - 1) : b.bytes[p + 1] = Border}
  IN  IF borders = {} THEN b.writePos
      ELSE CHOOSE p \in borders : \A q \in borders : p <= q

\* The text between the two borders, cut at its first delimiter.
FirstDelimiter(text) ==
  CHOOSE j \in 1..Len(text) :
    text[j] = Delimiter /\ \A l \in 1..(j - 1) : text[l] # Delimiter

WithDelimiter(text) ==
  LET i == FirstDelimiter(text) IN  <<SubSeq(text, 1, i), SubSeq(text, i, Len(text))>>
TitleAndContent(text) ==
  LET i == FirstDelimiter(text) IN  <<SubSeq(text, 1, i - 1), SubSeq(text, i + 1, Len(text))>>

(***************************************************************************)
(* The outcomes of getMessage, as records of the return value, the buffer  *)
(* afterwards and the message.  Return value 1 stands for the assertion of *)
(* Retrieve: no border among the readable bytes, and one just behind them. *)
(***************************************************************************)
Outcome(ret, b, msg) == [ret |-> ret, buffer |-> b, msg |-> msg]

AtBorder(b, stop) ==
  LET text == SubSeq(b.bytes, b.readPos + 2, stop)
      rest == Retrieve(b, stop - b.readPos + 1)
  IN  IF stop = b.writePos THEN Outcome(1, b, << >>)
      ELSE IF Contains(text, Delimiter) THEN Outcome(0, rest, TitleAndContent(text))
      ELSE Outcome(-1, rest, << >>)

GetMessage(b) ==
  IF ReadableBytes(b) = 0 THEN {Outcome(-2, b, << >>)}
  ELSE IF Peek(b, 1) # <<Border>> THEN {Outcome(-1, b, << >>)}
  ELSE {IF c = Border THEN AtBorder(b, StopPos(b)) ELSE Outcome(-2, b, << >>) :
          c \in Seen(b, StopPos(b))}
=============================================================================
