---------------------------- MODULE KeyAllocator ----------------------------
(***************************************************************************)
(* What the key store of the group-key server promises its users, without  *)
(* the database, the in-memory sets or the faults: a user is given a key   *)
(* once, keeps it for ever, and shares it with nobody.                     *)
(***************************************************************************)
EXTENDS Integers

CONSTANTS Users,    \* the accounts
          MaxKey    \* number of keys that can ever be generated

VARIABLE owned      \* owned[u]: the key u was given, 0 when it has none

Init == owned = [u \in Users |-> 0]

Give(u, k) ==
  /\ owned[u] = 0
  /\ \A v \in Users : owned[v] # k
  /\ owned' = [owned EXCEPT ![u] = k]

Next == \E u \in Users, k \in 1..MaxKey : Give(u, k)

Spec == Init /\ [][Next]_owned
=============================================================================
