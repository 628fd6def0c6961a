----------------------------- MODULE HeapTimer ------------------------------
(***************************************************************************)
(* class HeapTimer and the loop of Server::start that asks it how long to  *)
(* sleep: a binary heap of timers ordered by expires, an index ref_ from a *)
(* timer to its place, and the clock that goes on between any two reads of *)
(* it.                                                                     *)
(*                                                                         *)
(* A time is what is left of it, in half milliseconds: duration_cast drops *)
(* what is less than a millisecond.  Indices count from 0 as in the code.  *)
(* A timer is added with its period, as the (disabled) call in start does, *)
(* and so adjust, which only sifts down, never has to bring one forward.   *)
(* Only the callback of a cyclic timer touches the heap, as the disabled   *)
(* call in onWrite_newKey does: it adjusts its own timer.                  *)
(***************************************************************************)
EXTENDS Integers, SequencesExt

CONSTANTS
  Ids,          \* the ids of timers
  Cyclic,       \* those with cyclicity
  Period,       \* the period of each id, in milliseconds
  MaxDelay,     \* bound: half milliseconds between two reads of the clock
  MaxOverdue,   \* bound: half milliseconds a timer is left unserved
  StrayLarge    \* whether the memory in front of the heap can hold a late time

ASSUME HeapTimerAssumption ==
  /\ Cyclic \subseteq Ids
  /\ Period \in [Ids -> Nat \ {0}]
  /\ MaxDelay \in Nat /\ MaxOverdue \in Nat
  /\ StrayLarge \in BOOLEAN

None == <<"none">>

Span == [id \in Ids |-> 2 * Period[id]]

VARIABLES
  heap,      \* heap_: a sequence of records of an id and the time left
  ref,       \* ref_: the index in heap_ of each timer
  pc,        \* what the loop does: tick, ask, wait, serve or tick again
  timeout,   \* the milliseconds the loop waits for events; negative: for ever
  waited,    \* the half milliseconds it has waited
  delay,     \* the half milliseconds since the clock was last read
  late,      \* whether the last two reads before the wait were 2 ms apart
  called,    \* whose callback the last step ran, by tick or by doWork
  aborted    \* whether an assertion has failed

heapVars == <<heap, ref, called, aborted>>
loopVars == <<pc, timeout, waited, late>>
vars     == <<heapVars, pc, timeout, waited, delay, late>>

Node(i)  == heap[i + 1]
Left(id) == heap[ref[id] + 1].left

HeapTimerTypeOK ==
  /\ heap \in Seq([id : Ids, left : Int])
  /\ DOMAIN ref \subseteq Ids /\ Range(ref) \subseteq 0..(Len(heap) - 1)
  /\ pc \in {"tick", "ask", "wait", "serve", "tock"}
  /\ timeout \in Int /\ waited \in Nat /\ delay \in 0..MaxDelay
  /\ called \in {None} \cup ({"due", "asked"} \X Ids)
  /\ late \in BOOLEAN /\ aborted \in BOOLEAN

HeapTimerInit ==
  /\ heap = << >> /\ ref = << >> /\ called = None /\ aborted = FALSE
  /\ pc = "tick" /\ timeout = -1 /\ waited = 0 /\ delay = 0 /\ late = FALSE

-----------------------------------------------------------------------------
(* The heap.  A state of it is a record h of heap_ and ref_.  An operator  *)
(* just above another one with the same parameters is a slip of it that    *)
(* the run must notice: RefOfOne, LeftChild, KeepsRef, TakesBack,          *)
(* RoundedUp.                                                              *)

State == [heap |-> heap, ref |-> ref]

\* operator< of TimerNode on two places.
Before(h, i, j) == h.heap[i + 1].left < h.heap[j + 1].left

RefOfOne(h, i, j) ==
  [heap |-> [h.heap EXCEPT ![i + 1] = h.heap[j + 1], ![j + 1] = h.heap[i + 1]],
   ref  |-> [h.ref EXCEPT ![h.heap[j + 1].id] = i]]
SwapNode(h, i, j) ==
  [heap |-> [h.heap EXCEPT ![i + 1] = h.heap[j + 1], ![j + 1] = h.heap[i + 1]],
   ref  |-> [h.ref EXCEPT ![h.heap[j + 1].id] = i, ![h.heap[i + 1].id] = j]]

\* One round of the loop of siftup_ with its i: it breaks or goes on above.  It
\* does not stop at the root: (i - 1) / 2 of 0 is 2^63 - 1, which addresses the
\* node in front of the array.
UpRound(s) ==
  LET j == (s.i - 1) \div 2
  IN  IF s.i = 0 \/ Before(s.h, j, s.i) THEN s ELSE [h |-> SwapNode(s.h, s.i, j), i |-> j]

\* siftup_: no more than i rounds go up.  `stray' says that it looked in front
\* of the array.
SiftUp(h, i) ==
  LET s[k \in 0..i] == IF k = 0 THEN [h |-> h, i |-> i] ELSE UpRound(s[k - 1])
  IN  [h |-> s[i].h, stray |-> s[i].i = 0]

\* The child siftdown_ goes on with.
LeftChild(h, i, n) == 2 * i + 1
EarlierChild(h, i, n) ==
  IF 2 * i + 2 < n /\ Before(h, 2 * i + 2, 2 * i + 1) THEN 2 * i + 2 ELSE 2 * i + 1

\* The same of siftdown_, which goes down at most n times and tells how far.
DownRound(s, n) ==
  LET j == EarlierChild(s.h, s.i, n)
  IN  IF 2 * s.i + 1 >= n \/ Before(s.h, s.i, j) THEN s ELSE [h |-> SwapNode(s.h, s.i, j), i |-> j]

SiftDown(h, i, n) ==
  LET s[k \in 0..n] == IF k = 0 THEN [h |-> h, i |-> i] ELSE DownRound(s[k - 1], n)
  IN  s[n]

\* siftdown_, and siftup_ when that moved nothing.
Sift(h, i, n) ==
  LET down == SiftDown(h, i, n)
  IN  IF down.i > i THEN [h |-> down.h, stray |-> FALSE] ELSE SiftUp(down.h, i)

SetLeft(h, i, t) == [h EXCEPT !.heap[i + 1].left = t]

\* del_: to the back, sift what came in its place, then off the back.
KeepsRef(h) == [heap |-> Front(h.heap), ref |-> h.ref]
PopBack(h)  ==
  [heap |-> Front(h.heap),
   ref  |-> Restrict(h.ref, DOMAIN h.ref \ {Last(h.heap).id})]

TakesBack(h, i) == [h |-> PopBack(h), stray |-> FALSE]
Del(h, i) ==
  LET n      == Len(h.heap) - 1
      sifted == IF i < n THEN Sift(SwapNode(h, i, n), i, n)
                ELSE [h |-> h, stray |-> FALSE]
  IN  [sifted EXCEPT !.h = PopBack(@)]

\* add of a new id, and of one that is there.
AddNew(h, id) ==
  LET n == Len(h.heap)
  IN  SiftUp([heap |-> Append(h.heap, [id |-> id, left |-> Span[id]]),
              ref  |-> [j \in DOMAIN h.ref \cup {id} |-> IF j = id THEN n ELSE h.ref[j]]], n)

AddOld(h, id) == Sift(SetLeft(h, h.ref[id], Span[id]), h.ref[id], Len(h.heap))

AdjustIn(h, id) ==
  SiftDown(SetLeft(h, h.ref[id], Span[id]), h.ref[id], Len(h.heap)).h

\* What an operation leaves: when siftup_ looked in front of the heap, a later
\* time there makes it swap, and SwapNode_ asserts that both places exist.
Becomes(result) ==
  /\ heap' = result.h.heap /\ ref' = result.h.ref
  /\ aborted' \in {FALSE, result.stray /\ StrayLarge}

-----------------------------------------------------------------------------
(* The operations, from the handlers the loop calls.                       *)

Serving == pc = "serve" /\ ~aborted /\ delay' = 0 /\ UNCHANGED loopVars

Add(id) ==
  /\ Serving /\ called' = None
  /\ Becomes(IF id \in DOMAIN ref THEN AddOld(State, id) ELSE AddNew(State, id))

Adjust(id) ==
  /\ Serving /\ id \in DOMAIN ref /\ called' = None
  /\ Becomes([h |-> AdjustIn(State, id), stray |-> FALSE])

\* doWork: the index is taken before the callback, so this is for timers whose
\* callback leaves the heap alone.
DoWork(id) ==
  /\ Serving /\ id \in DOMAIN ref \ Cyclic /\ called' = <<"asked", id>>
  /\ Becomes(Del(State, ref[id]))

Clear ==
  /\ Serving /\ called' = None
  /\ Becomes([h |-> [heap |-> << >>, ref |-> << >>], stray |-> FALSE])

-----------------------------------------------------------------------------
(* The loop: getNextTick, epoll_wait, the handlers, tick.                  *)

\* duration_cast to milliseconds: towards zero.
ToMs(t) == IF t >= 0 THEN t \div 2 ELSE -((-t) \div 2)

IsDue(t)  == ToMs(t) <= 0

\* One round of tick's loop.  The callback of a cyclic timer may adjust it
\* already, and tick adjusts it again.
Fire ==
  /\ pc \in {"tick", "tock"} /\ ~aborted
  /\ heap # << >> /\ IsDue(Node(0).left)
  /\ IF Node(0).id \in Cyclic
     THEN \E h \in {State, AdjustIn(State, Node(0).id)} :
            Becomes([h |-> AdjustIn(h, Node(0).id), stray |-> FALSE])
     ELSE Becomes(Del(State, 0))
  /\ called' = <<"due", Node(0).id>>
  /\ delay' = 0
  /\ UNCHANGED loopVars

TickDone ==
  /\ pc \in {"tick", "tock"} /\ ~aborted
  /\ heap # << >> => ~IsDue(Node(0).left)
  /\ pc' = IF pc = "tick" THEN "ask" ELSE "tick"
  /\ delay' = 0
  /\ UNCHANGED <<heapVars, timeout, waited, late>>

\* The rest of getNextTick: res is unsigned, so the test for a negative one
\* never holds and it is returned as it is.
RoundedUp(t) == ToMs(t + 1)
NextTick(t)  == ToMs(t)

Ask ==
  /\ pc = "ask" /\ ~aborted
  /\ timeout' = IF heap = << >> THEN -1 ELSE NextTick(Node(0).left)
  /\ pc' = "wait" /\ waited' = 0 /\ delay' = 0
  /\ late' = (delay >= 4)
  /\ UNCHANGED heapVars

TimedOut == timeout >= 0 /\ waited = 2 * timeout

\* epoll_wait returns, with events at any time or without at the end.
Return ==
  /\ pc = "wait"
  /\ pc' = "serve" /\ delay' = 0
  /\ UNCHANGED <<heapVars, timeout, waited, late>>

Served ==
  /\ pc = "serve" /\ ~aborted
  /\ pc' = "tock"
  /\ UNCHANGED <<heapVars, timeout, waited, delay, late>>

\* Half a millisecond passes, in the wait or between two reads of the clock.
Pass ==
  /\ ~aborted
  /\ \A i \in 1..Len(heap) : heap[i].left > -MaxOverdue
  /\ IF pc = "wait"
     THEN ~TimedOut /\ delay' = delay /\ waited' = IF timeout < 0 THEN 0 ELSE waited + 1
     ELSE delay < MaxDelay /\ delay' = delay + 1 /\ waited' = waited
  /\ heap' = [i \in 1..Len(heap) |-> [heap[i] EXCEPT !.left = @ - 1]]
  /\ called' = None
  /\ UNCHANGED <<ref, aborted, pc, timeout, late>>

HeapTimerNext ==
  \/ \E id \in Ids : Add(id) \/ Adjust(id) \/ DoWork(id)
  \/ Clear
  \/ Fire \/ TickDone \/ Ask \/ Return \/ Served
  \/ Pass

HeapTimerSpec == HeapTimerInit /\ [][HeapTimerNext]_vars

-----------------------------------------------------------------------------
(* Properties.                                                             *)

(***************************************************************************)
(* ref_ is the inverse of heap_ and no timer stands above an earlier one,  *)
(* whatever was added, adjusted, removed and served.                       *)
(***************************************************************************)
HeapIsSound ==
  ~aborted =>
    /\ DOMAIN ref = {heap[i].id : i \in 1..Len(heap)}
    /\ \A i \in 1..Len(heap) : ref[heap[i].id] = i - 1
    /\ \A i \in 1..(Len(heap) - 1) : Node((i - 1) \div 2).left <= Node(i).left

(***************************************************************************)
(* When tick is through, no timer in the whole heap was due when it last   *)
(* read the clock.                                                         *)
(***************************************************************************)
NoneOverdue ==
  pc = "ask" => \A i \in 1..Len(heap) : heap[i].left + delay >= 2

(***************************************************************************)
(* The loop is back from epoll_wait before the first timer expires, and at *)
(* most a millisecond before when no event comes, unless the process was   *)
(* held up for two milliseconds within getNextTick.                        *)
(***************************************************************************)
SleepsTillFirst ==
  pc = "wait" /\ heap # << >> /\ ~late =>
    /\ timeout >= 0
    /\ \A i \in 1..Len(heap) : 2 * timeout - waited <= Max({heap[i].left, 0})
    /\ \E i \in 1..Len(heap) : heap[i].left <= 2 * timeout - waited + 1

Running == [id \in DOMAIN ref |-> Left(id)]
Service == INSTANCE Timers WITH left <- Running, Due <- 2

(***************************************************************************)
(* The heap with its index is a set of timers of which serving, removing   *)
(* or adjusting one leaves the others alone.                               *)
(***************************************************************************)
ImplementsTimers == Service!Spec
=============================================================================
