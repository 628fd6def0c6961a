------------------------ MODULE KeyStoreModesProofs -------------------------
(***************************************************************************)
(* The theorems of KeyStoreProofs, brought to the specification in which   *)
(* the regime of faults is chosen at the start: a behaviour of ModeSpec is *)
(* one of KeyStoreSpec, and one of TidySpec when tidy was chosen.          *)
(***************************************************************************)
EXTENDS KeyStoreModes, KeyStoreProofs

\* In both regimes the key store does what KeyStoreSpec allows.
LEMMA ModeIsKeyStore == ModeSpec => KeyStoreSpec
<1>1. ModeInit => KeyStoreInit
  BY DEF ModeInit
<1>2. [ModeNext]_modeVars => [KeyStoreNext]_keyVars
  BY DEF ModeNext, modeVars
<1> QED
  BY <1>1, <1>2, PTL DEF ModeSpec, KeyStoreSpec

\* The regime does not change.
LEMMA ModeIsKept ==
  /\ ModeSpec /\ tidy => []tidy
  /\ ModeSpec /\ ~tidy => []~tidy
<1>1. tidy /\ [ModeNext]_modeVars => tidy'
  BY DEF ModeNext, modeVars
<1>2. ~tidy /\ [ModeNext]_modeVars => ~tidy'
  BY DEF ModeNext, modeVars
<1> QED
  BY <1>1, <1>2, PTL DEF ModeSpec

\* In the tidy one it does what TidySpec allows: tidy never changes.
LEMMA TidyModeIsTidy == ModeSpec /\ tidy => TidySpec
<1>1. ModeInit => KeyStoreInit
  BY DEF ModeInit
<1>2. tidy /\ [ModeNext]_modeVars => [KeyStoreNext /\ ~LostWhileTorn]_keyVars
  BY DEF ModeNext, modeVars
<1> QED
  BY <1>1, <1>2, ModeIsKept, PTL DEF ModeSpec, TidySpec

(***************************************************************************)
(* Whatever the regime, types, records and answers are as KeyStoreProofs   *)
(* shows.                                                                  *)
(***************************************************************************)
THEOREM ModesAreCorrect == ModeSpec => []KeyStoreTypeOK /\ []RecordsAgree /\ AllocationIsStable
  BY ModeIsKeyStore, TypeCorrect, RecordsAlwaysAgree, AllocationStable, PTL

(***************************************************************************)
(* No two accounts share a modulus, while no torn key is lost.             *)
(***************************************************************************)
THEOREM UniqueWhenTidy == ModeSpec => []KeysUniqueWhenTidy
<1>1. KeysUnique => KeysUniqueWhenTidy
  BY DEF KeysUniqueWhenTidy
<1>2. ~tidy => KeysUniqueWhenTidy
  BY DEF KeysUniqueWhenTidy
<1> QED
  BY <1>1, <1>2, ModeIsKept, TidyModeIsTidy, KeysAreUnique, PTL

(***************************************************************************)
(* What _available can hand out then belongs to nobody.                    *)
(***************************************************************************)
THEOREM UnownedWhenTidy == ModeSpec => []AvailableUnownedWhenTidy
<1>1. AvailableIsUnowned => AvailableUnownedWhenTidy
  BY DEF AvailableUnownedWhenTidy
<1>2. ~tidy => AvailableUnownedWhenTidy
  BY DEF AvailableUnownedWhenTidy
<1> QED
  BY <1>1, <1>2, ModeIsKept, TidyModeIsTidy, AvailableUnowned, PTL

\* One step of the tidy regime, seen through Answered.
LEMMA TidyAllocatorStep ==
  ASSUME tidy, tidy', [Allocator!Next]_told
  PROVE  [TidyAllocator!Next]_Answered
<1>1. Answered = told /\ Answered' = told'
  BY DEF Answered
<1>2. CASE UNCHANGED told
  BY <1>1, <1>2
<1>3. CASE Allocator!Next
  <2>1. PICK u \in Users, k \in 1..MaxKey : Allocator!Give(u, k)
    BY <1>3 DEF Allocator!Next
  <2>2. TidyAllocator!Give(u, k)
    BY <1>1, <2>1 DEF Allocator!Give, TidyAllocator!Give
  <2> QED
    BY <2>2 DEF TidyAllocator!Next
<1> QED
  BY <1>2, <1>3

(***************************************************************************)
(* Seen through the answers it gives, the tidy store is a KeyAllocator.    *)
(***************************************************************************)
THEOREM TidyImplementsAllocator == ModeSpec => TidyIsAllocator
<1>1. ModeInit => TidyAllocator!Init
  BY DEF ModeInit, KeyStoreInit, TidyAllocator!Init, Answered, NoKey
<1>2. ~tidy /\ ~tidy' => UNCHANGED Answered
  BY DEF Answered
<1>3. ModeSpec /\ tidy => [][Allocator!Next]_told
  BY TidyModeIsTidy, StoreImplementsAllocator, PTL DEF ImplementsKeyAllocator, Allocator!Spec
<1>4. tidy /\ tidy' /\ [Allocator!Next]_told => [TidyAllocator!Next]_Answered
  BY TidyAllocatorStep
<1> QED
  BY <1>1, <1>2, <1>3, <1>4, ModeIsKept, PTL DEF ModeSpec, TidyIsAllocator, TidyAllocator!Spec
=============================================================================
