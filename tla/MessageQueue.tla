---------------------------- MODULE MessageQueue ----------------------------
(***************************************************************************)
(* What a connection promises the two programs that call addMessage and    *)
(* getMessage on its ends, without bytes, buffers and partial reads: the   *)
(* messages of one connection are taken whole, in order and once.          *)
(***************************************************************************)
EXTENDS Sequences

CONSTANT Messages   \* the pairs of a title and a content

VARIABLES
  queue,   \* the messages added and not yet taken
  message  \* the message taken last, << >> before the first one

vars == <<queue, message>>

Init == queue = << >> /\ message = << >>

Put(msg) ==
  /\ queue' = Append(queue, msg)
  /\ UNCHANGED message

Take ==
  /\ queue # << >>
  /\ message' = Head(queue)
  /\ queue' = Tail(queue)

\* A new connection: what was under way on the old one is lost.
Renew == queue' = << >> /\ message' = << >>

Next == (\E msg \in Messages : Put(msg)) \/ Take \/ Renew

Spec == Init /\ [][Next]_vars
=============================================================================
