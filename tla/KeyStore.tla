------------------------------ MODULE KeyStore ------------------------------
(***************************************************************************)
(* The key material of the server: class XH_Cipher, the tables xh_keys and *)
(* users it keeps in MySQL, and the handler onRead_allocation that moves a *)
(* key from one to the other.                                              *)
(*                                                                         *)
(* A modulus is a prime.  generate_prime takes the next prime above        *)
(* _modulus_lower_bound and moves the bound there, so the moduli form one  *)
(* increasing sequence and the model names a modulus by its place in it:   *)
(* Keys is 1..MaxKey, and 0 is the modulus of a member that was never      *)
(* assigned one.  A product of distinct moduli is the set of its factors.  *)
(*                                                                         *)
(* The server is one thread, so a handler is one action.  What can happen  *)
(* inside it is a query that fails and a process that dies: both leave the *)
(* statements already executed in the database, and only a death also      *)
(* loses the memory.                                                       *)
(***************************************************************************)
EXTENDS Integers, FiniteSets

CONSTANTS
  Users,         \* the rows of the table users
  MaxKey,        \* bound: the moduli that can be generated
  InitM,         \* the constructor's argument m, 2 in the server
  QueryMayFail   \* whether mysql_query can return an error

ASSUME KeyStoreAssumption ==
  /\ InitM \in Nat \ {0}
  /\ MaxKey \in Nat
  /\ InitM <= MaxKey
  /\ QueryMayFail \in BOOLEAN

Keys  == 1..MaxKey
NoKey == 0

VARIABLES
  dbKeys,      \* the moduli of the rows of xh_keys
  dbUsed,      \* those of them whose column used is 1
  userKey,     \* users.key_id of each account; registered is 1 iff it is set
  up,          \* whether the server process is serving requests
  members,     \* _members: the moduli the process knows
  available,   \* _available: those it can still hand out
  active,      \* _active_members
  modProd,     \* the factors of _mod_product when init_xy last ran
  activeProd,  \* the factors of _active_mod_product
  lowerBound,  \* _modulus_lower_bound
  m,           \* _m
  rekey,       \* the moduli the last rekeying message decrypts under
  told         \* the modulus sent in each user's last successful allocation

dbVars     == <<dbKeys, dbUsed, userKey>>
cipherVars == <<members, available, modProd, lowerBound, m>>
groupVars  == <<active, activeProd, rekey>>
keyVars    == <<dbVars, up, cipherVars, groupVars, told>>

KeyStoreTypeOK ==
  /\ dbKeys \subseteq Keys /\ dbUsed \subseteq Keys
  /\ userKey \in [Users -> Keys \cup {NoKey}]
  /\ told \in [Users -> Keys \cup {NoKey}]
  /\ up \in BOOLEAN
  /\ members \subseteq Keys /\ available \subseteq Keys
  /\ modProd \subseteq Keys
  /\ active \subseteq Keys /\ activeProd \subseteq Keys /\ rekey \subseteq Keys
  /\ lowerBound \in 0..MaxKey
  /\ m \in Nat \ {0}

\* A first start on an empty database with accounts that hold no key yet.
KeyStoreInit ==
  /\ dbKeys = {} /\ dbUsed = {}
  /\ userKey = [u \in Users |-> NoKey]
  /\ told = [u \in Users |-> NoKey]
  /\ up = FALSE
  /\ members = {} /\ available = {} /\ active = {}
  /\ modProd = {} /\ activeProd = {} /\ rekey = {}
  /\ lowerBound = 0 /\ m = InitM

-----------------------------------------------------------------------------
(* The residue number system.  In this module an operator written just     *)
(* above another one with the same parameters is a slip of it that the     *)
(* model must not let pass: XYMissed, EveryRow, IsLowest, SizeOfUnused,    *)
(* AnyUser, KeepsKey.                                                      *)

\* init_members(n): the next n primes above the bound.
InitMembers(n) == (lowerBound + 1)..(lowerBound + n)

\* init_modproduct and init_xy: the moduli that get an x and a y.
XYMissed(known) == modProd
InitXY(known)   == known

(***************************************************************************)
(* The ciphertext is the sum over the active moduli j of r_j * x_j * y_j,  *)
(* reduced modulo _active_mod_product, with x_j = _mod_product / j and     *)
(* y_j the inverse of x_j modulo j as init_xy last left them (x_j = 0 for  *)
(* a modulus init_xy has not seen).  k decrypts it to the group key when k *)
(* divides the reducing product, k's own term is there with x_k y_k = 1    *)
(* modulo k, and every other x_j is a multiple of k; the last follows from *)
(* k being a factor of the _mod_product the coefficients were made from.   *)
(***************************************************************************)
DecryptsUnder(k, group, xyFactors, reduceBy) ==
  k \in group /\ k \in xyFactors /\ k \in reduceBy

\* encrypt, on the state the step leaves behind.
Encrypt ==
  rekey' = {k \in Keys : DecryptsUnder(k, active', modProd', activeProd')}

-----------------------------------------------------------------------------
(* Starting: sys_init_fromDb.                                              *)

\* The rows whose used is 0.
EveryRow == dbKeys
Unused   == dbKeys \ dbUsed

\* The largest modulus of the table becomes the lower bound of the next.
IsLowest(bound)     == bound \in dbKeys /\ \A k \in dbKeys : bound <= k
IsLowerBound(bound) == bound \in dbKeys /\ \A k \in dbKeys : k <= bound

\* _m = _members.size()
SizeOfUnused(rows) == Cardinality(rows \ dbUsed)
SysSize(rows)      == Cardinality(rows)

\* What the rows of xh_keys make of the process memory.
LoadKeys(rows, bound) ==
  /\ up' = TRUE
  /\ members' = rows /\ modProd' = InitXY(rows)
  /\ lowerBound' = bound
  /\ m' = SysSize(rows)
  /\ active' = {} /\ activeProd' = {} /\ rekey' = {}

SysInitFromDb ==
  /\ ~up /\ dbKeys # {}
  /\ \E bound \in Keys : IsLowerBound(bound) /\ LoadKeys(dbKeys, bound)
  /\ available' = Unused
  /\ UNCHANGED <<dbVars, told>>

\* The table is empty: InitM keys are made and inserted, of which the first
\* `rows' get there.  When an insert fails the server gives up and exits; it
\* can also die between two of them.
SysInitEmptyDb(rows) ==
  /\ ~up /\ dbKeys = {}
  /\ rows \in 1..InitM
  /\ dbKeys' = 1..rows
  /\ IF rows = InitM
     THEN /\ LoadKeys(1..InitM, InitM)
          /\ available' = 1..InitM
     ELSE UNCHANGED <<up, cipherVars, groupVars>>
  /\ UNCHANGED <<dbUsed, userKey, told>>

-----------------------------------------------------------------------------
(* Allocation: onRead_allocation, XH_Cipher::allocation, sys_extend_Db.    *)

MustExtend == available = {}

\* onRead_allocation's isNew: users.registered is 0.
AnyUser(u) == TRUE
IsNew(u)   == userKey[u] = NoKey

\* _available.erase(t)
KeepsKey(keys, k) == keys
Erase(keys, k)    == keys \ {k}

\* sys_extend_Db whose insert number rows + 1 fails: that key and the ones
\* before it are in memory already, the products and _m are not updated.
SysExtendDbFails(rows) ==
  /\ MustExtend /\ QueryMayFail
  /\ lowerBound + m <= MaxKey
  /\ rows \in 0..(m - 1)
  /\ members' = members \cup InitMembers(rows + 1)
  /\ available' = InitMembers(rows + 1)
  /\ dbKeys' = dbKeys \cup InitMembers(rows)
  /\ lowerBound' = lowerBound + m
  /\ UNCHANGED <<modProd, m>>

\* XH_Cipher::allocation that hands out k, after sys_extend_Db when nothing
\* was available.  The set is unordered: any available key can come first.
CipherAllocation(k) ==
  LET new == IF MustExtend THEN InitMembers(m) ELSE {}
  IN  /\ lowerBound + Cardinality(new) <= MaxKey
      /\ k \in available \cup new
      /\ available' = Erase(available \cup new, k)
      /\ members' = members \cup new
      /\ dbKeys' = dbKeys \cup new
      /\ lowerBound' = lowerBound + Cardinality(new)
      /\ modProd' = IF MustExtend THEN InitXY(members \cup new) ELSE modProd
      /\ m' = IF MustExtend THEN 2 * m ELSE m

\* The statement of onRead_allocation the handler stops at: none, the
\* SELECT of key_id, the UPDATE of users or the UPDATE of xh_keys.
Stops == {"none", "key_id", "users", "xh_keys"}

\* The statements after the key was chosen, up to the one that fails.  The
\* SELECT finds no row for a key whose insert failed.
RecordAllocation(u, k, stop) ==
  /\ IF k \in dbKeys'
     THEN stop # "none" => QueryMayFail
     ELSE stop = "key_id"
  /\ userKey' = IF stop \in {"none", "xh_keys"}
                THEN [userKey EXCEPT ![u] = k] ELSE userKey
  /\ dbUsed' = IF stop = "none" THEN dbUsed \cup {k} ELSE dbUsed
  /\ told' = IF stop = "none" THEN [told EXCEPT ![u] = k] ELSE told

\* A first allocation for u; it is answered ok iff stop is "none".
AllocateNew(u, k, stop) ==
  /\ up /\ IsNew(u)
  /\ CipherAllocation(k)
  /\ RecordAllocation(u, k, stop)
  /\ UNCHANGED <<up, groupVars>>

\* A first allocation for u that fails inside sys_extend_Db.
AllocateNoKey(u, rows) ==
  /\ up /\ IsNew(u)
  /\ SysExtendDbFails(rows)
  /\ UNCHANGED <<dbUsed, userKey, up, groupVars, told>>

\* An allocation for an account that is registered: the key on record.
AllocateAgain(u) ==
  /\ up /\ ~IsNew(u) /\ userKey[u] \in dbKeys
  /\ told' = [told EXCEPT ![u] = userKey[u]]
  /\ UNCHANGED <<dbVars, up, cipherVars, groupVars>>

-----------------------------------------------------------------------------
(* The active group: member_join, member_leave and the rekeying that       *)
(* follows each of them.                                                   *)

\* The modulus a connection can present: the default one, one that this
\* process has handed out, or one on record for an account.
Presented == {NoKey} \cup (members \ available) \cup {userKey[u] : u \in Users}

JoinReturnsOk(k)  == k \in members
LeaveReturnsOk(k) == k \in members /\ k \in active

\* _active_mod_product *= joiner.get_modulus()
ProductWith(k) == activeProd \cup {k}

MemberJoin(k) ==
  IF k \in members /\ k \notin active
  THEN /\ active' = active \cup {k}
       /\ activeProd' = ProductWith(k)
  ELSE UNCHANGED <<active, activeProd>>

MemberLeave(k) ==
  IF LeaveReturnsOk(k)
  THEN /\ active' = active \ {k}
       /\ activeProd' = activeProd \ {k}
  ELSE UNCHANGED <<active, activeProd>>

Join(k) ==
  /\ up /\ k \in Presented
  /\ MemberJoin(k)
  /\ UNCHANGED cipherVars
  /\ IF JoinReturnsOk(k) THEN Encrypt ELSE UNCHANGED rekey
  /\ UNCHANGED <<dbVars, up, told>>

Leave(k) ==
  /\ up /\ k \in Presented
  /\ LET ok == LeaveReturnsOk(k)
     IN  /\ MemberLeave(k)
         /\ UNCHANGED cipherVars
         /\ IF ok THEN Encrypt ELSE UNCHANGED rekey
  /\ UNCHANGED <<dbVars, up, told>>

\* The connection of an active member is gone: its key leaves and a rekeying
\* follows, whatever member_leave returned.
Drop(k) ==
  /\ up /\ k \in Presented
  /\ MemberLeave(k)
  /\ UNCHANGED cipherVars
  /\ Encrypt
  /\ UNCHANGED <<dbVars, up, told>>

-----------------------------------------------------------------------------
(* The process dies, between two handlers or inside an allocation.         *)

MemoryLost ==
  /\ up' = FALSE
  /\ members' = {} /\ available' = {} /\ active' = {}
  /\ modProd' = {} /\ activeProd' = {} /\ rekey' = {}
  /\ lowerBound' = 0 /\ m' = InitM

Crash ==
  /\ up
  /\ MemoryLost
  /\ UNCHANGED <<dbVars, told>>

\* Inside sys_extend_Db, after `rows' inserts.
CrashExtending(u, rows) ==
  /\ up /\ IsNew(u) /\ MustExtend
  /\ rows \in 1..m /\ lowerBound + m <= MaxKey
  /\ dbKeys' = dbKeys \cup InitMembers(rows)
  /\ MemoryLost
  /\ UNCHANGED <<dbUsed, userKey, told>>

\* Between the UPDATE of users and the UPDATE of xh_keys.
CrashBetweenUpdates(u, k) ==
  /\ up /\ IsNew(u)
  /\ LET new == IF MustExtend THEN InitMembers(m) ELSE {}
     IN  /\ lowerBound + Cardinality(new) <= MaxKey
         /\ k \in available \cup new
         /\ dbKeys' = dbKeys \cup new
  /\ k \in dbKeys'
  /\ userKey' = [userKey EXCEPT ![u] = k]
  /\ MemoryLost
  /\ UNCHANGED <<dbUsed, told>>

-----------------------------------------------------------------------------
KeyStoreNext ==
  \/ SysInitFromDb
  \/ \E rows \in Keys : SysInitEmptyDb(rows)
  \/ \E u \in Users, k \in Keys, stop \in Stops : AllocateNew(u, k, stop)
  \/ \E u \in Users, rows \in 0..MaxKey : AllocateNoKey(u, rows)
  \/ \E u \in Users : AllocateAgain(u)
  \/ \E k \in Keys \cup {NoKey} : Join(k) \/ Leave(k) \/ Drop(k)
  \/ Crash
  \/ \E u \in Users, rows \in Keys : CrashExtending(u, rows)
  \/ \E u \in Users, k \in Keys : CrashBetweenUpdates(u, k)

KeyStoreSpec == KeyStoreInit /\ [][KeyStoreNext]_keyVars

(***************************************************************************)
(* A key is torn when users names its owner and xh_keys still calls it     *)
(* unused: the handler was stopped between its two UPDATEs.  TidySpec is   *)
(* the specification without the one thing the code does not survive, the  *)
(* memory being lost while a key is torn.                                  *)
(***************************************************************************)
Torn == \E u \in Users : userKey[u] # NoKey /\ userKey[u] \notin dbUsed

LostWhileTorn == up /\ ~up' /\ Torn'

TidySpec == KeyStoreInit /\ [][KeyStoreNext /\ ~LostWhileTorn]_keyVars

-----------------------------------------------------------------------------
(* Properties.                                                             *)

(***************************************************************************)
(* No two accounts have the same modulus, across failed queries, crashes   *)
(* and restarts: what _available hands out is owned by nobody, although    *)
(* its contents come from one table and ownership is recorded in another.  *)
(***************************************************************************)
KeysUnique ==
  \A u, v \in Users : u # v /\ userKey[u] # NoKey => userKey[u] # userKey[v]

(***************************************************************************)
(* XH_Cipher.cpp:137: a key is available only when it is not in use, i.e.  *)
(* while no account owns it.                                               *)
(***************************************************************************)
AvailableIsUnowned ==
  \A k \in available, u \in Users : userKey[u] # k

(***************************************************************************)
(* Whatever onRead_allocation once answered a user with, it answers with   *)
(* ever after, in this process and in every later one.                     *)
(***************************************************************************)
AllocationIsStable ==
  [][\A u \in Users : told[u] # NoKey => told'[u] = told[u]]_told

(***************************************************************************)
(* However queries fail and wherever the process dies: an account's key is *)
(* a row of xh_keys, an answer once given still names it, and the memory   *)
(* of a running server knows every row, so that the next prime above       *)
(* _modulus_lower_bound is a key nobody has ever been given.               *)
(***************************************************************************)
RecordsAgree ==
  /\ \A u \in Users : userKey[u] \in dbKeys \cup {NoKey}
  /\ \A u \in Users : told[u] \in {NoKey, userKey[u]}
  /\ up => /\ dbKeys \subseteq members /\ available \subseteq members
           /\ \A k \in members : k <= lowerBound

(***************************************************************************)
(* The last rekeying message decrypts under exactly the moduli of the      *)
(* active group: nobody who left can read it, nobody who is in is left out *)
(* (_members, the CRT coefficients, the active set and the active product  *)
(* agree, and no change of the group goes without a rekeying).             *)
(***************************************************************************)
RekeyCoversGroup == rekey = active

(* The abstract allocator this store implements.                           *)
Allocator == INSTANCE KeyAllocator WITH owned <- told

(***************************************************************************)
(* Seen through the answers it gives, the store is a KeyAllocator.         *)
(***************************************************************************)
ImplementsKeyAllocator == Allocator!Spec
=============================================================================
