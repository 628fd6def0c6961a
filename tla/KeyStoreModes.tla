--------------------------- MODULE KeyStoreModes ----------------------------
(***************************************************************************)
(* KeyStore under two regimes of faults, one of which is chosen at the     *)
(* start: every fault there is, or every one but the loss of the memory    *)
(* while a key is torn, after which nothing is promised about who owns     *)
(* what.                                                                   *)
(***************************************************************************)
EXTENDS KeyStore

VARIABLE tidy   \* whether the memory outlives a torn key

modeVars == <<keyVars, tidy>>

ModeInit == KeyStoreInit /\ tidy \in BOOLEAN

ModeNext == KeyStoreNext /\ (tidy => ~LostWhileTorn) /\ UNCHANGED tidy

ModeSpec == ModeInit /\ [][ModeNext]_modeVars

-----------------------------------------------------------------------------
(* Properties, next to those of KeyStore that hold in both regimes.        *)

(***************************************************************************)
(* No two accounts have the same modulus, across failed queries, crashes   *)
(* and restarts that leave no key torn.                                    *)
(***************************************************************************)
KeysUniqueWhenTidy == tidy => KeysUnique

(***************************************************************************)
(* What _available can hand out then is owned by nobody, although its      *)
(* contents come from one table and ownership is recorded in another.      *)
(***************************************************************************)
AvailableUnownedWhenTidy == tidy => AvailableIsUnowned

\* What the users were answered; the other regime answers nothing here.
Answered == IF tidy THEN told ELSE [u \in Users |-> NoKey]

TidyAllocator == INSTANCE KeyAllocator WITH owned <- Answered

(***************************************************************************)
(* Seen through the answers it gives, the tidy store is a KeyAllocator.    *)
(***************************************************************************)
TidyIsAllocator == TidyAllocator!Spec
=============================================================================
