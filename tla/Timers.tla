------------------------------- MODULE Timers -------------------------------
(***************************************************************************)
(* What a timer queue promises the loop that asks it, without the heap:    *)
(* each timer runs off at its own time, the one that is due first is       *)
(* served first, and serving one leaves the others alone.                  *)
(***************************************************************************)
EXTENDS Integers, Functions

CONSTANTS
  Ids,       \* the timers
  Cyclic,    \* those that start again when they have run off
  Span,      \* how long each of them runs
  Due        \* a timer with less than this left is served

VARIABLES
  left,    \* the time each running timer has left; its domain are those
  called   \* whose callback the last step ran: by the clock, on demand, or none

vars == <<left, called>>

None == <<"none">>

Init == left = << >> /\ called = None

Started(id) ==
  [j \in DOMAIN left \cup {id} |-> IF j = id THEN Span[id] ELSE left[j]]

Stopped(id) == Restrict(left, DOMAIN left \ {id})

Start(id) == left' = Started(id) /\ called' = None

Clear == left' = << >> /\ called' = None

\* The callback is asked for before the time is up.
Run(id) == left' = Stopped(id) /\ called' = <<"asked", id>>

Serve(id) ==
  /\ left[id] < Due
  /\ \A j \in DOMAIN left : left[id] <= left[j]
  /\ left' = IF id \in Cyclic THEN Started(id) ELSE Stopped(id)
  /\ called' = <<"due", id>>

Pass ==
  /\ left' = [id \in DOMAIN left |-> left[id] - 1]
  /\ called' = None

Next ==
  \/ \E id \in Ids : Start(id)
  \/ \E id \in DOMAIN left : Run(id) \/ Serve(id)
  \/ Clear
  \/ Pass

Spec == Init /\ [][Next]_vars
=============================================================================
