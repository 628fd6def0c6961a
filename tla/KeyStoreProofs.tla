--------------------------- MODULE KeyStoreProofs ---------------------------
(***************************************************************************)
(* What KeyStore guarantees for every number of accounts and of keys.  The *)
(* invariants are layered: types, then how the database, the memory and    *)
(* the answers agree (RecordsAgree, which every fault leaves true), then   *)
(* ownership (Ownership, which needs the memory to outlive a torn key),    *)
(* and on the side the coefficients of the active group.                   *)
(***************************************************************************)
EXTENDS KeyStore, FiniteSetTheorems, TLAPS

\* The keys an allocation adds to the system before it chooses one.
NewKeys == IF MustExtend THEN InitMembers(m) ELSE {}

\* The value for no key is none of the keys.
LEMMA NoKeyIsNotAKey == NoKey \notin Keys
  BY KeyStoreAssumption DEF NoKey, Keys

\* The keys made by init_members lie above the lower bound and are finite.
LEMMA InitMembersFacts ==
  ASSUME lowerBound \in 0..MaxKey, NEW n \in Nat
  PROVE  /\ IsFiniteSet(InitMembers(n))
         /\ Cardinality(InitMembers(n)) = n
         /\ \A k \in InitMembers(n) : k \in Nat /\ lowerBound < k /\ k <= lowerBound + n
<1>1. /\ IsFiniteSet((lowerBound + 1)..(lowerBound + n))
      /\ Cardinality((lowerBound + 1)..(lowerBound + n)) = n
  BY KeyStoreAssumption, FS_Interval
<1> QED
  BY <1>1, KeyStoreAssumption DEF InitMembers

\* The same of the keys of an allocation that fits below MaxKey.
LEMMA NewKeysFacts ==
  ASSUME KeyStoreTypeOK, lowerBound + Cardinality(NewKeys) <= MaxKey
  PROVE  /\ Cardinality(NewKeys) \in Nat
         /\ NewKeys \subseteq Keys
         /\ \A k \in NewKeys : lowerBound < k /\ k <= lowerBound + Cardinality(NewKeys)
<1>0. m \in Nat /\ lowerBound \in 0..MaxKey
  BY DEF KeyStoreTypeOK
<1>1. CASE MustExtend
  <2>1. NewKeys = InitMembers(m)
    BY <1>1 DEF NewKeys
  <2>2. /\ Cardinality(NewKeys) = m
        /\ \A k \in NewKeys : k \in Nat /\ lowerBound < k /\ k <= lowerBound + m
    BY <1>0, <2>1, InitMembersFacts
  <2> QED
    BY <1>0, <2>2, KeyStoreAssumption DEF Keys
<1>2. CASE ~MustExtend
  <2>1. NewKeys = {} /\ Cardinality(NewKeys) = 0
    BY <1>2, FS_EmptySet DEF NewKeys
  <2> QED
    BY <2>1
<1> QED
  BY <1>1, <1>2

\* A non-empty table of keys has a positive number of rows.
LEMMA RowsArePositive ==
  ASSUME NEW rows \in SUBSET Keys, rows # {}
  PROVE  SysSize(rows) \in Nat \ {0}
<1>1. IsFiniteSet(Keys)
  BY KeyStoreAssumption, FS_Interval DEF Keys
<1>2. IsFiniteSet(rows)
  BY <1>1, FS_Subset
<1>3. Cardinality(rows) \in Nat /\ Cardinality(rows) # 0
  BY <1>2, FS_CardinalityType, FS_EmptySet
<1> QED
  BY <1>3 DEF SysSize

-----------------------------------------------------------------------------
(* Types.                                                                  *)

\* A process that dies (XH_Cipher and the set of members start empty) keeps the
\* types, if its last query does.
LEMMA MemoryLostTypes ==
  ASSUME KeyStoreTypeOK, MemoryLost,
         dbKeys' \subseteq Keys, dbUsed' \subseteq Keys,
         userKey' \in [Users -> Keys \cup {NoKey}],
         told' \in [Users -> Keys \cup {NoKey}]
  PROVE  KeyStoreTypeOK'
<1>1. 0 \in 0..MaxKey /\ InitM \in Nat \ {0}
  BY KeyStoreAssumption
<1>2. lowerBound' \in 0..MaxKey /\ m' \in Nat \ {0} /\ up' \in BOOLEAN
  BY <1>1 DEF MemoryLost
<1>3. /\ members' \subseteq Keys /\ available' \subseteq Keys /\ modProd' \subseteq Keys
      /\ active' \subseteq Keys /\ activeProd' \subseteq Keys /\ rekey' \subseteq Keys
  BY DEF MemoryLost
<1> QED
  BY <1>2, <1>3 DEF KeyStoreTypeOK

\* Loading the rows of xh_keys gives the memory its types.
LEMMA LoadKeysTypes ==
  ASSUME KeyStoreTypeOK, NEW rows \in SUBSET Keys, rows # {},
         NEW bound \in 0..MaxKey, LoadKeys(rows, bound),
         available' \subseteq Keys, dbKeys' \subseteq Keys,
         UNCHANGED <<dbUsed, userKey, told>>
  PROVE  KeyStoreTypeOK'
<1>1. SysSize(rows) \in Nat \ {0}
  BY RowsArePositive
<1> QED
  BY <1>1 DEF LoadKeys, KeyStoreTypeOK, InitXY

\* XH_Cipher::allocation, with the extension it may need.
LEMMA CipherAllocationTypes ==
  ASSUME KeyStoreTypeOK, NEW k \in Keys, CipherAllocation(k)
  PROVE  /\ members' \subseteq Keys /\ available' \subseteq Keys
         /\ modProd' \subseteq Keys /\ dbKeys' \subseteq Keys
         /\ lowerBound' \in 0..MaxKey /\ m' \in Nat \ {0}
<1>1. /\ lowerBound + Cardinality(NewKeys) <= MaxKey
      /\ available' = Erase(available \cup NewKeys, k)
      /\ members' = members \cup NewKeys
      /\ dbKeys' = dbKeys \cup NewKeys
      /\ lowerBound' = lowerBound + Cardinality(NewKeys)
      /\ modProd' = IF MustExtend THEN InitXY(members \cup NewKeys) ELSE modProd
      /\ m' = IF MustExtend THEN 2 * m ELSE m
  BY DEF CipherAllocation, NewKeys
<1>2. NewKeys \subseteq Keys /\ Cardinality(NewKeys) \in Nat
  BY <1>1, NewKeysFacts
<1>3. lowerBound' \in 0..MaxKey
  BY <1>1, <1>2, KeyStoreAssumption DEF KeyStoreTypeOK
<1>4. m' \in Nat \ {0}
  BY <1>1 DEF KeyStoreTypeOK
<1> QED
  BY <1>1, <1>2, <1>3, <1>4 DEF KeyStoreTypeOK, Erase, InitXY

\* Every operation keeps the types.
LEMMA TypeStep ==
  ASSUME KeyStoreTypeOK, [KeyStoreNext]_keyVars
  PROVE  KeyStoreTypeOK'
<1> USE DEF dbVars, cipherVars, groupVars
<1>1. CASE SysInitFromDb
  <2>1. PICK bound \in Keys : IsLowerBound(bound) /\ LoadKeys(dbKeys, bound)
    BY <1>1 DEF SysInitFromDb
  <2>2. /\ dbKeys # {} /\ available' = Unused
        /\ UNCHANGED <<dbKeys, dbUsed, userKey, told>>
    BY <1>1 DEF SysInitFromDb
  <2>3. dbKeys \subseteq Keys /\ Unused \subseteq Keys /\ bound \in 0..MaxKey
    BY KeyStoreAssumption DEF KeyStoreTypeOK, Unused, Keys
  <2> QED
    BY <2>1, <2>2, <2>3, LoadKeysTypes
<1>2. ASSUME NEW rows \in Keys, SysInitEmptyDb(rows)
      PROVE  KeyStoreTypeOK'
  <2>1. /\ rows \in 1..InitM /\ dbKeys' = 1..rows
        /\ UNCHANGED <<dbUsed, userKey, told>>
    BY <1>2 DEF SysInitEmptyDb
  <2>2. dbKeys' \subseteq Keys /\ 1..InitM \subseteq Keys /\ 1..InitM # {}
    BY <2>1, KeyStoreAssumption DEF Keys
  <2>3. CASE rows = InitM
    <3>1. LoadKeys(1..InitM, InitM) /\ available' = 1..InitM
      BY <1>2, <2>3 DEF SysInitEmptyDb
    <3>2. InitM \in 0..MaxKey /\ 1..InitM \in SUBSET Keys
      BY <2>2, KeyStoreAssumption
    <3>3. available' \subseteq Keys
      BY <2>2, <3>1
    <3> QED
      BY <2>1, <2>2, <3>1, <3>2, <3>3, LoadKeysTypes
  <2>4. CASE rows # InitM
    <3>1. UNCHANGED <<up, cipherVars, groupVars>>
      BY <1>2, <2>4 DEF SysInitEmptyDb
    <3> QED
      BY <2>1, <2>2, <3>1 DEF KeyStoreTypeOK
  <2> QED
    BY <2>3, <2>4
<1>3. ASSUME NEW u \in Users, NEW k \in Keys, NEW stop \in Stops, AllocateNew(u, k, stop)
      PROVE  KeyStoreTypeOK'
  <2>1. CipherAllocation(k) /\ RecordAllocation(u, k, stop) /\ UNCHANGED <<up, groupVars>>
    BY <1>3 DEF AllocateNew
  <2>2. /\ userKey' \in [Users -> Keys \cup {NoKey}]
        /\ told' \in [Users -> Keys \cup {NoKey}]
        /\ dbUsed' \subseteq Keys
    BY <2>1 DEF RecordAllocation, KeyStoreTypeOK
  <2> QED
    BY <2>1, <2>2, CipherAllocationTypes DEF KeyStoreTypeOK
<1>4. ASSUME NEW u \in Users, NEW rows \in 0..MaxKey, AllocateNoKey(u, rows)
      PROVE  KeyStoreTypeOK'
  <2>1. /\ rows \in 0..(m - 1) /\ lowerBound + m <= MaxKey /\ lowerBound' = lowerBound + m
        /\ members' = members \cup InitMembers(rows + 1)
        /\ available' = InitMembers(rows + 1)
        /\ dbKeys' = dbKeys \cup InitMembers(rows)
        /\ UNCHANGED <<dbUsed, userKey, up, groupVars, told, modProd, m>>
    BY <1>4 DEF AllocateNoKey, SysExtendDbFails
  <2>2. InitMembers(rows) \subseteq Keys /\ InitMembers(rows + 1) \subseteq Keys
    BY <2>1, KeyStoreAssumption DEF InitMembers, Keys, KeyStoreTypeOK
  <2>3. lowerBound' \in 0..MaxKey
    BY <2>1, KeyStoreAssumption DEF KeyStoreTypeOK
  <2> QED
    BY <2>1, <2>2, <2>3 DEF KeyStoreTypeOK
<1>5. ASSUME NEW u \in Users, AllocateAgain(u)
      PROVE  KeyStoreTypeOK'
  BY <1>5 DEF AllocateAgain, KeyStoreTypeOK
<1>6. ASSUME NEW k \in Keys \cup {NoKey}, Join(k) \/ Leave(k) \/ Drop(k)
      PROVE  KeyStoreTypeOK'
  <2>1. active' \subseteq Keys /\ activeProd' \subseteq Keys
    <3>1. CASE Join(k)
      <4>1. MemberJoin(k) /\ UNCHANGED cipherVars
        BY <3>1 DEF Join
      <4>2. k \in members => k \in Keys
        BY DEF KeyStoreTypeOK
      <4> QED
        BY <4>1, <4>2 DEF MemberJoin, ProductWith, KeyStoreTypeOK
    <3>2. CASE Leave(k) \/ Drop(k)
      BY <3>2 DEF Leave, Drop, MemberLeave, KeyStoreTypeOK
    <3> QED
      BY <1>6, <3>1, <3>2
  <2>2. rekey' \subseteq Keys
    BY <1>6 DEF Join, Leave, Drop, Encrypt, KeyStoreTypeOK
  <2>3. UNCHANGED <<dbVars, up, told, cipherVars>>
    BY <1>6 DEF Join, Leave, Drop
  <2> QED
    BY <2>1, <2>2, <2>3 DEF KeyStoreTypeOK
<1>7. CASE Crash
  BY <1>7, MemoryLostTypes DEF Crash, KeyStoreTypeOK
<1>8. ASSUME NEW u \in Users, NEW rows \in Keys, CrashExtending(u, rows)
      PROVE  KeyStoreTypeOK'
  <2>1. InitMembers(rows) \subseteq Keys
    BY <1>8, KeyStoreAssumption DEF CrashExtending, InitMembers, Keys, KeyStoreTypeOK
  <2> QED
    BY <1>8, <2>1, MemoryLostTypes DEF CrashExtending, KeyStoreTypeOK
<1>9. ASSUME NEW u \in Users, NEW k \in Keys, CrashBetweenUpdates(u, k)
      PROVE  KeyStoreTypeOK'
  <2>1. /\ lowerBound + Cardinality(NewKeys) <= MaxKey /\ dbKeys' = dbKeys \cup NewKeys
        /\ userKey' = [userKey EXCEPT ![u] = k] /\ MemoryLost /\ UNCHANGED <<dbUsed, told>>
    BY <1>9 DEF CrashBetweenUpdates, NewKeys
  <2>2. NewKeys \subseteq Keys
    BY <2>1, NewKeysFacts
  <2> QED
    BY <2>1, <2>2, MemoryLostTypes DEF KeyStoreTypeOK
<1>10. CASE UNCHANGED keyVars
  BY <1>10 DEF keyVars, KeyStoreTypeOK
<1> QED
  BY <1>1, <1>2, <1>3, <1>4, <1>5, <1>6, <1>7, <1>8, <1>9, <1>10 DEF KeyStoreNext

(***************************************************************************)
(* Every variable keeps its type, under every fault.                       *)
(***************************************************************************)
THEOREM TypeCorrect == KeyStoreSpec => []KeyStoreTypeOK
<1>1. KeyStoreInit => KeyStoreTypeOK
  <2> SUFFICES ASSUME KeyStoreInit PROVE KeyStoreTypeOK
    OBVIOUS
  <2>0. 0 \in 0..MaxKey /\ InitM \in Nat \ {0}
    BY KeyStoreAssumption
  <2>1. lowerBound \in 0..MaxKey /\ m \in Nat \ {0} /\ up \in BOOLEAN
    BY <2>0 DEF KeyStoreInit
  <2>2. /\ userKey \in [Users -> Keys \cup {NoKey}]
        /\ told \in [Users -> Keys \cup {NoKey}]
    BY DEF KeyStoreInit
  <2>3. /\ dbKeys \subseteq Keys /\ dbUsed \subseteq Keys
        /\ members \subseteq Keys /\ available \subseteq Keys /\ modProd \subseteq Keys
        /\ active \subseteq Keys /\ activeProd \subseteq Keys /\ rekey \subseteq Keys
    BY DEF KeyStoreInit
  <2> QED
    BY <2>1, <2>2, <2>3 DEF KeyStoreTypeOK
<1> QED
  BY <1>1, TypeStep, PTL DEF KeyStoreSpec

-----------------------------------------------------------------------------
(* The database, the memory and the answers agree.                         *)

\* An allocation chooses a key of the pool or a new one, and the new ones
\* lie above every key of the table.
LEMMA ChosenKey ==
  ASSUME KeyStoreTypeOK, RecordsAgree, up, NEW k \in available \cup NewKeys,
         lowerBound + Cardinality(NewKeys) <= MaxKey
  PROVE  /\ k \in Keys
         /\ k \in available \/ k \notin dbKeys
         /\ k \in NewKeys => \A u \in Users : userKey[u] # k
<1>1. NewKeys \subseteq Keys /\ \A n \in NewKeys : lowerBound < n
  BY NewKeysFacts
<1>2. \A n \in dbKeys : n <= lowerBound /\ n \in Keys
  BY DEF RecordsAgree, KeyStoreTypeOK
<1>3. lowerBound \in Int /\ Keys \subseteq Int
  BY DEF KeyStoreTypeOK, Keys
<1>4. \A n \in NewKeys : n \notin dbKeys
  BY <1>1, <1>2, <1>3
<1>5. \A u \in Users : userKey[u] \in dbKeys \cup {NoKey}
  BY DEF RecordsAgree
<1> QED
  BY <1>1, <1>4, <1>5, NoKeyIsNotAKey DEF KeyStoreTypeOK

\* What the tables and the answers say of each other outlives the process.
LEMMA MemoryLostRecords ==
  ASSUME RecordsAgree, MemoryLost, dbKeys \subseteq dbKeys',
         \A u \in Users : userKey'[u] \in dbKeys' \cup {NoKey},
         \A u \in Users : told'[u] \in {NoKey, userKey'[u]}
  PROVE  RecordsAgree'
  BY DEF MemoryLost, RecordsAgree

\* Every operation keeps tables, answers and memory in agreement.
LEMMA RecordsStep ==
  ASSUME KeyStoreTypeOK, RecordsAgree, [KeyStoreNext]_keyVars
  PROVE  RecordsAgree'
<1> USE DEF dbVars, cipherVars, groupVars
<1>0. /\ userKey \in [Users -> Keys \cup {NoKey}] /\ told \in [Users -> Keys \cup {NoKey}]
      /\ lowerBound \in Int /\ m \in Nat /\ members \subseteq Int
  BY DEF KeyStoreTypeOK, Keys
<1>1. CASE SysInitFromDb
  <2>1. PICK bound \in Keys : IsLowerBound(bound) /\ LoadKeys(dbKeys, bound)
    BY <1>1 DEF SysInitFromDb
  <2>2. available' = Unused /\ UNCHANGED <<dbKeys, dbUsed, userKey, told>>
    BY <1>1 DEF SysInitFromDb
  <2> QED
    BY <2>1, <2>2 DEF RecordsAgree, LoadKeys, Unused, IsLowerBound
<1>2. ASSUME NEW rows \in Keys, SysInitEmptyDb(rows)
      PROVE  RecordsAgree'
  <2>1. /\ rows \in 1..InitM /\ dbKeys = {} /\ dbKeys' = 1..rows /\ ~up
        /\ UNCHANGED <<dbUsed, userKey, told>>
    BY <1>2 DEF SysInitEmptyDb
  <2>2. CASE rows = InitM
    <3>1. LoadKeys(1..InitM, InitM) /\ available' = 1..InitM
      BY <1>2, <2>2 DEF SysInitEmptyDb
    <3>2. \A k \in members' : k <= lowerBound'
      BY <3>1, KeyStoreAssumption DEF LoadKeys
    <3> QED
      BY <2>1, <2>2, <3>1, <3>2 DEF RecordsAgree, LoadKeys
  <2>3. CASE rows # InitM
    <3>1. UNCHANGED up
      BY <1>2, <2>3 DEF SysInitEmptyDb
    <3> QED
      BY <2>1, <3>1 DEF RecordsAgree
  <2> QED
    BY <2>2, <2>3
<1>3. ASSUME NEW u \in Users, NEW k \in Keys, NEW stop \in Stops, AllocateNew(u, k, stop)
      PROVE  RecordsAgree'
  <2>1. /\ up /\ up' /\ userKey[u] = NoKey /\ RecordAllocation(u, k, stop)
        /\ lowerBound + Cardinality(NewKeys) <= MaxKey
        /\ available' = Erase(available \cup NewKeys, k)
        /\ members' = members \cup NewKeys
        /\ dbKeys' = dbKeys \cup NewKeys
        /\ lowerBound' = lowerBound + Cardinality(NewKeys)
    BY <1>3 DEF AllocateNew, CipherAllocation, NewKeys, IsNew
  <2>2. /\ Cardinality(NewKeys) \in Nat
        /\ \A n \in NewKeys : n <= lowerBound + Cardinality(NewKeys)
    BY <2>1, NewKeysFacts
  <2>3. \A n \in members' : n <= lowerBound'
    BY <1>0, <2>1, <2>2 DEF RecordsAgree
  <2>4. \A v \in Users : userKey'[v] \in dbKeys' \cup {NoKey}
    BY <1>0, <2>1 DEF RecordAllocation, RecordsAgree
  <2>5. \A v \in Users : told'[v] \in {NoKey, userKey'[v]}
    BY <1>0, <2>1 DEF RecordAllocation, RecordsAgree
  <2> QED
    BY <2>1, <2>3, <2>4, <2>5 DEF RecordsAgree, Erase
<1>4. ASSUME NEW u \in Users, NEW rows \in 0..MaxKey, AllocateNoKey(u, rows)
      PROVE  RecordsAgree'
  <2>1. /\ up /\ rows \in 0..(m - 1) /\ lowerBound' = lowerBound + m
        /\ members' = members \cup InitMembers(rows + 1)
        /\ available' = InitMembers(rows + 1)
        /\ dbKeys' = dbKeys \cup InitMembers(rows)
        /\ UNCHANGED <<userKey, told, up>>
    BY <1>4 DEF AllocateNoKey, SysExtendDbFails
  <2>2. /\ InitMembers(rows) \subseteq InitMembers(rows + 1)
        /\ \A n \in InitMembers(rows + 1) : n <= lowerBound + m
    BY <1>0, <2>1 DEF InitMembers
  <2>3. \A n \in members' : n <= lowerBound'
    BY <1>0, <2>1, <2>2 DEF RecordsAgree
  <2> QED
    BY <2>1, <2>2, <2>3 DEF RecordsAgree
<1>5. ASSUME NEW u \in Users, AllocateAgain(u)
      PROVE  RecordsAgree'
  BY <1>0, <1>5 DEF AllocateAgain, RecordsAgree
<1>6. ASSUME NEW k \in Keys \cup {NoKey}, Join(k) \/ Leave(k) \/ Drop(k)
      PROVE  RecordsAgree'
  BY <1>6 DEF Join, Leave, Drop, RecordsAgree
<1>7. CASE Crash
  BY <1>7, MemoryLostRecords DEF Crash, RecordsAgree
<1>8. ASSUME NEW u \in Users, NEW rows \in Keys, CrashExtending(u, rows)
      PROVE  RecordsAgree'
  BY <1>8, MemoryLostRecords DEF CrashExtending, RecordsAgree
<1>9. ASSUME NEW u \in Users, NEW k \in Keys, CrashBetweenUpdates(u, k)
      PROVE  RecordsAgree'
  <2>1. /\ dbKeys' = dbKeys \cup NewKeys /\ k \in dbKeys' /\ userKey[u] = NoKey
        /\ userKey' = [userKey EXCEPT ![u] = k] /\ MemoryLost /\ UNCHANGED told
    BY <1>9 DEF CrashBetweenUpdates, NewKeys, IsNew
  <2>2. \A v \in Users : /\ userKey'[v] \in dbKeys' \cup {NoKey}
                         /\ told'[v] \in {NoKey, userKey'[v]}
    BY <1>0, <2>1 DEF RecordsAgree
  <2> QED
    BY <2>1, <2>2, MemoryLostRecords
<1>10. CASE UNCHANGED keyVars
  BY <1>10 DEF keyVars, RecordsAgree
<1> QED
  BY <1>1, <1>2, <1>3, <1>4, <1>5, <1>6, <1>7, <1>8, <1>9, <1>10 DEF KeyStoreNext

(***************************************************************************)
(* The records agree under every fault the model has.                      *)
(***************************************************************************)
THEOREM RecordsAlwaysAgree == KeyStoreSpec => []RecordsAgree
<1>1. KeyStoreInit => RecordsAgree
  BY DEF KeyStoreInit, RecordsAgree
<1> QED
  BY <1>1, RecordsStep, TypeCorrect, PTL DEF KeyStoreSpec

(***************************************************************************)
(* The answer to an allocation never changes, under every fault.           *)
(***************************************************************************)
THEOREM AllocationStable == KeyStoreSpec => AllocationIsStable
<1> DEFINE Stable == \A u \in Users : told[u] # NoKey => told'[u] = told[u]
<1>1. KeyStoreTypeOK /\ RecordsAgree /\ [KeyStoreNext]_keyVars => [Stable]_told
  <2> SUFFICES ASSUME KeyStoreTypeOK, RecordsAgree, KeyStoreNext, told' # told
               PROVE  Stable
    BY DEF keyVars
  <2>0. told \in [Users -> Keys \cup {NoKey}]
    BY DEF KeyStoreTypeOK
  <2>1. ASSUME NEW u \in Users, NEW k \in Keys, NEW stop \in Stops, AllocateNew(u, k, stop)
        PROVE  Stable
    <3>1. told[u] = NoKey
      BY <2>1 DEF AllocateNew, IsNew, RecordsAgree
    <3> QED
      BY <2>0, <2>1, <3>1 DEF AllocateNew, RecordAllocation
  <2>2. ASSUME NEW u \in Users, AllocateAgain(u)
        PROVE  Stable
    BY <2>0, <2>2 DEF AllocateAgain, RecordsAgree
  <2> QED
    BY <2>1, <2>2 DEF KeyStoreNext, SysInitFromDb, SysInitEmptyDb, AllocateNoKey,
       Join, Leave, Drop, Crash, CrashExtending, CrashBetweenUpdates
<1> QED
  BY <1>1, TypeCorrect, RecordsAlwaysAgree, PTL DEF KeyStoreSpec, AllocationIsStable

-----------------------------------------------------------------------------
(* Ownership, when the memory outlives a torn key.                         *)

\* AvailableIsUnowned is not inductive alone: a start takes _available from
\* the column used, so nobody's key may be torn while the server is down.
Ownership == KeysUnique /\ AvailableIsUnowned /\ (~up => ~Torn)

TidyNext == KeyStoreNext /\ ~LostWhileTorn

\* When nothing is torn, a restart finds each key with one owner.
LEMMA MemoryLostOwnership ==
  ASSUME MemoryLost, up, ~LostWhileTorn, KeysUnique'
  PROVE  Ownership'
  BY DEF MemoryLost, LostWhileTorn, Ownership, AvailableIsUnowned

\* Every operation keeps that, as long as no memory is lost while a key is torn.
LEMMA OwnershipStep ==
  ASSUME KeyStoreTypeOK, RecordsAgree, Ownership, [TidyNext]_keyVars
  PROVE  Ownership'
<1> USE DEF dbVars, cipherVars, groupVars
<1>0. /\ userKey \in [Users -> Keys \cup {NoKey}]
      /\ \A u \in Users : userKey[u] \in dbKeys \cup {NoKey}
  BY DEF KeyStoreTypeOK, RecordsAgree
<1>1. CASE SysInitFromDb
  <2>1. /\ ~up /\ up' /\ available' = Unused /\ UNCHANGED <<userKey, dbUsed>>
    BY <1>1 DEF SysInitFromDb, LoadKeys
  <2>2. \A u \in Users : userKey[u] # NoKey => userKey[u] \in dbUsed
    BY <2>1 DEF Ownership, Torn
  <2>3. NoKey \notin Unused
    BY NoKeyIsNotAKey DEF Unused, KeyStoreTypeOK
  <2> QED
    BY <2>1, <2>2, <2>3 DEF Ownership, KeysUnique, AvailableIsUnowned, Unused
<1>2. ASSUME NEW rows \in Keys, SysInitEmptyDb(rows)
      PROVE  Ownership'
  <2>1. /\ ~up /\ dbKeys = {} /\ UNCHANGED <<userKey, dbUsed>>
        /\ \/ up' /\ available' = 1..InitM
           \/ UNCHANGED <<up, available>>
    BY <1>2 DEF SysInitEmptyDb, LoadKeys
  <2>2. \A u \in Users : userKey[u] = NoKey
    BY <1>0, <2>1
  <2>3. NoKey \notin 1..InitM
    BY KeyStoreAssumption DEF NoKey
  <2> QED
    BY <2>1, <2>2, <2>3 DEF Ownership, KeysUnique, AvailableIsUnowned, Torn
<1>3. ASSUME NEW u \in Users, NEW k \in Keys, NEW stop \in Stops, AllocateNew(u, k, stop)
      PROVE  Ownership'
  <2>1. /\ up /\ up' /\ k \in available \cup NewKeys /\ RecordAllocation(u, k, stop)
        /\ lowerBound + Cardinality(NewKeys) <= MaxKey
        /\ available' = (available \cup NewKeys) \ {k}
    BY <1>3 DEF AllocateNew, CipherAllocation, NewKeys, Erase
  <2>2. \A n \in available \cup NewKeys, v \in Users : userKey[v] # n
    BY <2>1, ChosenKey DEF Ownership, AvailableIsUnowned
  <2>3. userKey' = userKey \/ userKey' = [userKey EXCEPT ![u] = k]
    BY <2>1 DEF RecordAllocation
  <2>4. AvailableIsUnowned'
    BY <1>0, <2>1, <2>2, <2>3 DEF AvailableIsUnowned
  <2>5. KeysUnique'
    BY <1>0, <2>1, <2>2, <2>3 DEF KeysUnique, Ownership
  <2> QED
    BY <2>1, <2>4, <2>5 DEF Ownership
<1>4. ASSUME NEW u \in Users, NEW rows \in 0..MaxKey, AllocateNoKey(u, rows)
      PROVE  Ownership'
  <2>1. /\ up /\ rows \in 0..(m - 1) /\ available' = InitMembers(rows + 1)
        /\ UNCHANGED <<userKey, up>>
    BY <1>4 DEF AllocateNoKey, SysExtendDbFails
  <2>2. \A n \in InitMembers(rows + 1) : lowerBound < n
    BY DEF InitMembers, KeyStoreTypeOK
  <2>3. \A v \in Users : userKey[v] \in Int /\ userKey[v] <= lowerBound
    BY <1>0, <2>1 DEF RecordsAgree, KeyStoreTypeOK, Keys, NoKey
  <2>4. \A n \in InitMembers(rows + 1), v \in Users : userKey[v] # n
    BY <2>2, <2>3 DEF InitMembers, KeyStoreTypeOK
  <2> QED
    BY <2>1, <2>4 DEF Ownership, KeysUnique, AvailableIsUnowned
<1>5. ASSUME NEW u \in Users, AllocateAgain(u)
      PROVE  Ownership'
  BY <1>5 DEF AllocateAgain, Ownership, KeysUnique, AvailableIsUnowned, Torn
<1>6. ASSUME NEW k \in Keys \cup {NoKey}, Join(k) \/ Leave(k) \/ Drop(k)
      PROVE  Ownership'
  BY <1>6 DEF Join, Leave, Drop, Ownership, KeysUnique, AvailableIsUnowned, Torn
<1>7. CASE Crash /\ ~LostWhileTorn
  BY <1>7, MemoryLostOwnership DEF Crash, Ownership, KeysUnique
<1>8. ASSUME NEW u \in Users, NEW rows \in Keys, CrashExtending(u, rows), ~LostWhileTorn
      PROVE  Ownership'
  BY <1>8, MemoryLostOwnership DEF CrashExtending, Ownership, KeysUnique
<1>9. ASSUME NEW u \in Users, NEW k \in Keys, CrashBetweenUpdates(u, k), ~LostWhileTorn
      PROVE  Ownership'
  <2>1. /\ up /\ k \in available \cup NewKeys /\ MemoryLost
        /\ lowerBound + Cardinality(NewKeys) <= MaxKey
        /\ userKey' = [userKey EXCEPT ![u] = k]
    BY <1>9 DEF CrashBetweenUpdates, NewKeys
  <2>2. \A v \in Users : userKey[v] # k
    BY <2>1, ChosenKey DEF Ownership, AvailableIsUnowned
  <2>3. KeysUnique'
    BY <1>0, <2>1, <2>2 DEF KeysUnique, Ownership
  <2> QED
    BY <1>9, <2>1, <2>3, MemoryLostOwnership
<1>10. CASE UNCHANGED keyVars
  BY <1>10 DEF keyVars, Ownership, KeysUnique, AvailableIsUnowned, Torn
<1> QED
  BY <1>1, <1>2, <1>3, <1>4, <1>5, <1>6, <1>7, <1>8, <1>9, <1>10 DEF KeyStoreNext, TidyNext

\* TidySpec leaves out behaviours of KeyStoreSpec and adds none.
LEMMA TidyIsKeyStore == TidySpec => KeyStoreSpec
<1>1. [TidyNext]_keyVars => [KeyStoreNext]_keyVars
  BY DEF TidyNext
<1> QED
  BY <1>1, PTL DEF TidySpec, KeyStoreSpec, TidyNext

\* So ownership is right in all of its states.
LEMMA OwnershipHolds == TidySpec => []Ownership
<1>1. KeyStoreInit => Ownership
  BY DEF KeyStoreInit, Ownership, KeysUnique, AvailableIsUnowned, Torn
<1> QED
  BY <1>1, OwnershipStep, TidyIsKeyStore, TypeCorrect, RecordsAlwaysAgree, PTL
  DEF TidySpec, TidyNext

(***************************************************************************)
(* No two accounts share a modulus.                                        *)
(***************************************************************************)
THEOREM KeysAreUnique == TidySpec => []KeysUnique
<1>1. Ownership => KeysUnique
  BY DEF Ownership
<1> QED
  BY <1>1, OwnershipHolds, PTL

(***************************************************************************)
(* What _available can hand out belongs to nobody.                         *)
(***************************************************************************)
THEOREM AvailableUnowned == TidySpec => []AvailableIsUnowned
<1>1. Ownership => AvailableIsUnowned
  BY DEF Ownership
<1> QED
  BY <1>1, OwnershipHolds, PTL

-----------------------------------------------------------------------------
(* Refinement of the abstract allocator.                                   *)

\* Every step gives one user one fresh key, or changes no answer.
LEMMA AllocatorStep ==
  ASSUME KeyStoreTypeOK, RecordsAgree, Ownership, [TidyNext]_keyVars
  PROVE  [Allocator!Next]_told
<1> SUFFICES ASSUME TidyNext, told' # told PROVE Allocator!Next
  BY DEF keyVars
<1>0. /\ told \in [Users -> Keys \cup {NoKey}] /\ userKey \in [Users -> Keys \cup {NoKey}]
      /\ \A u \in Users : told[u] \in {NoKey, userKey[u]}
  BY DEF KeyStoreTypeOK, RecordsAgree
<1>1. ASSUME NEW u \in Users, NEW k \in Keys, told[u] = NoKey,
             \A v \in Users : told[v] # k, told' = [told EXCEPT ![u] = k]
      PROVE  Allocator!Next
  BY <1>1 DEF Allocator!Next, Allocator!Give, NoKey, Keys
<1>2. ASSUME NEW u \in Users, NEW k \in Keys, NEW stop \in Stops, AllocateNew(u, k, stop)
      PROVE  Allocator!Next
  <2>1. /\ up /\ k \in available \cup NewKeys /\ userKey[u] = NoKey
        /\ lowerBound + Cardinality(NewKeys) <= MaxKey
        /\ RecordAllocation(u, k, stop)
    BY <1>2 DEF AllocateNew, CipherAllocation, NewKeys, IsNew
  <2>2. \A v \in Users : userKey[v] # k
    BY <2>1, ChosenKey DEF Ownership, AvailableIsUnowned
  <2>3. \A v \in Users : told[v] # k
    BY <1>0, <2>2, NoKeyIsNotAKey
  <2>4. told' = [told EXCEPT ![u] = k] /\ told[u] = NoKey
    BY <1>0, <2>1 DEF RecordAllocation
  <2> QED
    BY <1>1, <2>3, <2>4
<1>3. ASSUME NEW u \in Users, AllocateAgain(u)
      PROVE  Allocator!Next
  <2>1. userKey[u] \in Keys /\ told' = [told EXCEPT ![u] = userKey[u]]
    BY <1>0, <1>3 DEF AllocateAgain, IsNew
  <2>2. told[u] = NoKey
    BY <1>0, <2>1
  <2>3. \A v \in Users : told[v] # userKey[u]
    BY <1>0, <2>1, <2>2, NoKeyIsNotAKey DEF Ownership, KeysUnique
  <2> QED
    BY <1>1, <2>1, <2>2, <2>3
<1> QED
  BY <1>2, <1>3 DEF TidyNext, KeyStoreNext, SysInitFromDb, SysInitEmptyDb, AllocateNoKey,
     Join, Leave, Drop, Crash, CrashExtending, CrashBetweenUpdates

(***************************************************************************)
(* The store implements the abstract allocator: through restarts, failed   *)
(* queries and system extensions, its answers are those of a KeyAllocator. *)
(***************************************************************************)
THEOREM StoreImplementsAllocator == TidySpec => ImplementsKeyAllocator
<1>1. KeyStoreInit => Allocator!Init
  BY DEF KeyStoreInit, Allocator!Init, NoKey
<1> QED
  BY <1>1, AllocatorStep, OwnershipHolds, TidyIsKeyStore, TypeCorrect, RecordsAlwaysAgree, PTL
  DEF TidySpec, TidyNext, ImplementsKeyAllocator, Allocator!Spec

-----------------------------------------------------------------------------
(* The coefficients of the active group.                                   *)

\* Without a failed query, every member of the system has its coefficients
\* and the active product is the product of the active moduli.
Coefficients ==
  /\ members \subseteq modProd
  /\ active \subseteq members
  /\ activeProd = active
  /\ rekey = active

\* When no query fails, every operation keeps the products and the last rekeying
\* message in step with the members.
LEMMA CoefficientsStep ==
  ASSUME QueryMayFail = FALSE, KeyStoreTypeOK, KeyStoreTypeOK', Coefficients,
         [KeyStoreNext]_keyVars
  PROVE  Coefficients'
<1> USE DEF dbVars, cipherVars, groupVars
<1>1. CASE SysInitFromDb
  BY <1>1 DEF SysInitFromDb, LoadKeys, InitXY, Coefficients
<1>2. ASSUME NEW rows \in Keys, SysInitEmptyDb(rows)
      PROVE  Coefficients'
  BY <1>2 DEF SysInitEmptyDb, LoadKeys, InitXY, Coefficients
<1>3. ASSUME NEW u \in Users, NEW k \in Keys, NEW stop \in Stops, AllocateNew(u, k, stop)
      PROVE  Coefficients'
  <2>1. /\ UNCHANGED <<active, activeProd, rekey>>
        /\ members' = members \cup NewKeys
        /\ modProd' = IF MustExtend THEN members \cup NewKeys ELSE modProd
    BY <1>3 DEF AllocateNew, CipherAllocation, NewKeys, InitXY
  <2> QED
    BY <2>1 DEF Coefficients, NewKeys
<1>4. ASSUME NEW u \in Users, NEW rows \in 0..MaxKey, AllocateNoKey(u, rows)
      PROVE  Coefficients'
  BY <1>4 DEF AllocateNoKey, SysExtendDbFails
<1>5. ASSUME NEW u \in Users, AllocateAgain(u)
      PROVE  Coefficients'
  BY <1>5 DEF AllocateAgain, Coefficients
<1>6. ASSUME NEW k \in Keys \cup {NoKey}, Join(k)
      PROVE  Coefficients'
  <2>1. MemberJoin(k) /\ UNCHANGED <<members, modProd>>
    BY <1>6 DEF Join
  <2>2. active' \subseteq members /\ activeProd' = active'
    BY <2>1 DEF MemberJoin, ProductWith, Coefficients
  <2>3. rekey' = active'
    <3>1. CASE JoinReturnsOk(k)
      BY <1>6, <2>1, <2>2, <3>1 DEF Join, Encrypt, DecryptsUnder, Coefficients, KeyStoreTypeOK
    <3>2. CASE ~JoinReturnsOk(k)
      BY <1>6, <2>1, <3>2 DEF Join, JoinReturnsOk, MemberJoin, Coefficients
    <3> QED
      BY <3>1, <3>2
  <2> QED
    BY <2>1, <2>2, <2>3 DEF Coefficients
<1>7. ASSUME NEW k \in Keys \cup {NoKey}, Leave(k) \/ Drop(k)
      PROVE  Coefficients'
  <2>1. MemberLeave(k) /\ UNCHANGED <<members, modProd>>
    BY <1>7 DEF Leave, Drop
  <2>2. active' \subseteq members /\ activeProd' = active'
    BY <2>1 DEF MemberLeave, Coefficients
  <2>3. rekey' = active'
    <3>1. CASE LeaveReturnsOk(k)
      BY <1>7, <2>1, <2>2, <3>1 DEF Leave, Drop, Encrypt, DecryptsUnder, Coefficients, KeyStoreTypeOK
    <3>2. CASE ~LeaveReturnsOk(k) /\ Leave(k)
      BY <2>1, <3>2 DEF Leave, MemberLeave, Coefficients
    <3>3. CASE ~LeaveReturnsOk(k) /\ Drop(k)
      BY <2>1, <2>2, <3>3 DEF Drop, Encrypt, DecryptsUnder, Coefficients, KeyStoreTypeOK
    <3> QED
      BY <1>7, <3>1, <3>2, <3>3
  <2> QED
    BY <2>1, <2>2, <2>3 DEF Coefficients
<1>8. CASE MemoryLost
  BY <1>8 DEF MemoryLost, Coefficients
<1>9. CASE UNCHANGED keyVars
  BY <1>9 DEF keyVars, Coefficients
<1> QED
  BY <1>1, <1>2, <1>3, <1>4, <1>5, <1>6, <1>7, <1>8, <1>9
  DEF KeyStoreNext, Crash, CrashExtending, CrashBetweenUpdates

\* So they are in every state.
LEMMA CoefficientsHold == QueryMayFail = FALSE /\ KeyStoreSpec => []Coefficients
<1> SUFFICES ASSUME QueryMayFail = FALSE PROVE KeyStoreSpec => []Coefficients
  OBVIOUS
<1>1. KeyStoreInit => Coefficients
  BY DEF KeyStoreInit, Coefficients
<1>2. KeyStoreTypeOK /\ KeyStoreTypeOK' /\ Coefficients /\ [KeyStoreNext]_keyVars => Coefficients'
  BY CoefficientsStep
<1> QED
  BY <1>1, <1>2, TypeCorrect, PTL DEF KeyStoreSpec

(***************************************************************************)
(* As long as no query fails, the last rekeying message decrypts under     *)
(* exactly the moduli of the active group, crashes and restarts included.  *)
(***************************************************************************)
THEOREM RekeyReachesGroup == QueryMayFail = FALSE /\ KeyStoreSpec => []RekeyCoversGroup
<1>1. Coefficients => RekeyCoversGroup
  BY DEF Coefficients, RekeyCoversGroup
<1> QED
  BY <1>1, CoefficientsHold, PTL
=============================================================================
