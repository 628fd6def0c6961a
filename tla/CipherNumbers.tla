--------------------------- MODULE CipherNumbers ----------------------------
(***************************************************************************)
(* The arithmetic of the two implementations of the interface Cipher, in   *)
(* real numbers that are small: XH_Cipher, which the server uses and whose *)
(* products KeyStore keeps as sets of factors, and PH_Cipher, which keeps  *)
(* a master key that is put together by the Chinese remainder theorem.     *)
(*                                                                         *)
(* Both keep for each member a residue modulus (the prime itself in XH,    *)
(* (p - 1) / 2 of a safe prime p in PH), the product of all of them, the   *)
(* product of those of the active group, and for each member x, the        *)
(* product divided by its own modulus, and y, the inverse of x.            *)
(*                                                                         *)
(* The database is KeyStore's; here a start has read some rows, and an     *)
(* extension fails after some of its inserts.                              *)
(***************************************************************************)
EXTENDS Integers, FiniteSetsExt, Bitwise

CONSTANTS
  HashBits,    \* the bits of a hash and of a group key, 256 in the program
  InitM,       \* the constructor's argument m
  MaxRows,     \* bound: rows that can be in the table at a start
  MaxMembers,  \* bound: members of the system
  MaxActive,   \* bound: the product of the moduli of the active group
  EncSample    \* the random encryption keys that are tried

ASSUME CipherAssumption ==
  /\ HashBits \in Nat \ {0} /\ InitM \in Nat \ {0}
  /\ MaxRows \in Nat /\ MaxMembers \in Nat /\ MaxActive \in Nat
  /\ EncSample \subseteq Nat

Methods == {"XH_CIPHER", "PH_CIPHER"}

VARIABLES
  method,         \* the class of the cipher
  members,        \* members: the moduli of the system
  available,      \* available: those that can be handed out
  active,         \* active_members
  enc,            \* enc_key_ of each member (PH)
  x, y,           \* x and y of each member, 0 before init_xy has seen it
  product,        \* _mod_product (XH), exp_mod_product (PH)
  activeProduct,  \* _active_mod_product (XH), active_exp_mod_product (PH)
  activeModuli,   \* active_mod_product (PH)
  keyInfo,        \* m_key_info (PH)
  mKey,           \* m_key (PH)
  lowerBound,     \* modulus_lower_bound
  m               \* m

memberVars  == <<members, available, enc, lowerBound>>
productVars == <<x, y, product, m>>
groupVars   == <<active, activeProduct, activeModuli>>
masterVars  == <<keyInfo, mKey>>
vars        == <<method, memberVars, productVars, groupVars, masterVars>>

XH == method = "XH_CIPHER"
PH == method = "PH_CIPHER"

CipherTypeOK ==
  /\ method \in Methods
  /\ available \subseteq members /\ active \subseteq members
  /\ \A f \in {enc, x, y} : DOMAIN f = members /\ \A k \in members : f[k] \in Nat
  /\ \A n \in {product, activeProduct, activeModuli, lowerBound, m} : n \in Nat \ {0}
  /\ keyInfo \in 0..(product - 1) /\ mKey \in 0..(activeProduct - 1)

-----------------------------------------------------------------------------
(* Numbers.                                                                *)

\* The remainder of C++ and of GMP's operator %: its sign is the dividend's.
TruncMod(a, n) == IF a >= 0 THEN a % n ELSE -((-a) % n)

Divides(d, n) == n % d = 0
IsPrime(n)    == n > 1 /\ \A d \in 2..(n - 1) : d * d <= n => ~Divides(d, n)
Half(p)       == (p - 1) \div 2

\* The keys of each method, and what it computes modulo for one of them.
IsModulus(p) == IsPrime(p) /\ (PH => IsPrime(Half(p)))
Residue(k)   == IF XH THEN k ELSE Half(k)

\* The residue modulus 2 of PH's shadow member.
Base == IF XH THEN 1 ELSE 2

\* generate_prime and generate_safe_prime.  The second one goes on until GMP
\* calls (p - 1) / 2 certainly prime, which it does for small numbers only.
NextModulus(b) ==
  CHOOSE p \in (b + 1)..(8 * b) : IsModulus(p) /\ \A q \in (b + 1)..(p - 1) : ~IsModulus(q)

\* The moduli init_members(n) makes above the bound b.
NewModuli(b, n) ==
  LET next[i \in Nat] == IF i = 0 THEN b ELSE NextModulus(next[i - 1])
  IN  {next[i] : i \in 1..n}

\* mpz_invert.  Without an inverse the result stays the 0 it was.
Invert(a, n) ==
  IF \E b \in 1..(n - 1) : (a * b) % n = 1
  THEN CHOOSE b \in 1..(n - 1) : (a * b) % n = 1 ELSE 0

\* mpz_powm.
Powm(base, exponent, n) ==
  LET power[e \in Nat] ==
        IF e = 0 THEN 1 % n
        ELSE LET root == power[e \div 2]
                 square == (root * root) % n
             IN  IF e % 2 = 0 THEN square ELSE (square * base) % n
  IN  power[exponent]

\* get_enckey: an odd number below the modulus; only PH has one.
EncKeys(k) == IF XH THEN {0} ELSE {e \in EncSample : e % 2 = 1 /\ e < k - 1}

\* The random keys of new members, next to the keys of the old ones.
EncWith(new) ==
  {f \in [members \cup new -> EncSample \cup {0}] :
     /\ \A k \in members \ new : f[k] = enc[k]
     /\ \A k \in new : f[k] \in EncKeys(k)}

-----------------------------------------------------------------------------
(* The residue number system.  An operator just above another one with the *)
(* same parameters is a slip of it that the run must notice: NewOnly,      *)
(* OnlyShadow, KeepsShare, NotNormalised.                                  *)

\* init_modproduct.
ProductOf(known) == Base * ProductSet({Residue(k) : k \in known})

\* init_xy.
X(known) == [k \in known |-> ProductOf(known) \div Residue(k)]

NewOnly(known) ==
  [k \in known |-> IF k \in members /\ y[k] # 0 THEN y[k] ELSE Invert(X(known)[k], Residue(k))]
Y(known) == [k \in known |-> Invert(X(known)[k], Residue(k))]

\* What a member adds to m_key_info, with the coefficients xs and ys.
Share(k, xs, ys) == enc[k] * xs[k] * ys[k]

\* master_key_init: the share of the shadow member with modulus 2, and those
\* of the active members.
ShadowShare(all) == (all \div 2) * Invert(all \div 2, 2)

OnlyShadow(xs, ys, all) == ShadowShare(all) % all
KeyInfo(xs, ys, all) ==
  (ShadowShare(all) + MapThenSumSet(LAMBDA k : Share(k, xs, ys), active)) % all

\* The number of bits makes the first bound, an odd one with its top bit set.
FirstBounds == {b \in (2^HashBits)..(2^(HashBits + 1) - 1) : b % 2 = 1}

(***************************************************************************)
(* What sys_init_fromDb leaves: over the rows that were read or, when the  *)
(* table was empty, over m new keys, an empty group.                       *)
(***************************************************************************)
CipherInit ==
  /\ method \in Methods
  /\ \E b \in FirstBounds, rows \in 0..MaxRows :
       /\ members = NewModuli(b, IF rows = 0 THEN InitM ELSE rows)
       /\ available \in IF rows = 0 THEN {members} ELSE SUBSET members
  /\ enc \in {f \in [members -> EncSample \cup {0}] : \A k \in members : f[k] \in EncKeys(k)}
  /\ lowerBound = Max(members) /\ m = Cardinality(members)
  /\ product = ProductOf(members) /\ x = X(members) /\ y = [k \in members |-> Invert(x[k], Residue(k))]
  /\ active = {} /\ activeProduct = Base /\ activeModuli = 1
  /\ keyInfo = IF PH THEN ShadowShare(product) % product ELSE 0
  /\ mKey = IF PH THEN keyInfo % activeProduct ELSE 0

-----------------------------------------------------------------------------
(* The operations.                                                         *)

HandOut(k, from) == k \in from /\ available' = from \ {k}

\* allocation with a key to hand out.
Allocation(k) ==
  /\ HandOut(k, available)
  /\ UNCHANGED <<method, members, enc, lowerBound, productVars, groupVars, masterVars>>

\* init_members(m): the keys an extension makes, and their random halves.
NewMembers ==
  LET made == NewModuli(lowerBound, m)
  IN  /\ available = {}
      /\ Cardinality(members \cup made) <= MaxMembers
      /\ lowerBound' = Max(made)

\* sys_extend_Db, then the allocation goes on.
ExtendAndAllocate(k) ==
  LET made == NewModuli(lowerBound, m)
  IN  /\ NewMembers
      /\ members' = members \cup made /\ enc' \in EncWith(made)
      /\ HandOut(k, made)
      /\ product' = ProductOf(members')
      /\ x' = X(members') /\ y' = Y(members')
      /\ m' = 2 * m
      /\ keyInfo' = IF PH THEN KeyInfo(x', y', product') ELSE 0
      /\ mKey' = IF PH THEN keyInfo' % activeProduct ELSE 0
      /\ UNCHANGED <<method, groupVars>>

\* sys_extend_Db when the insert after the first n fails: the keys so far are
\* members, without x and y, and can be handed out.
ExtendFails(n) ==
  LET made == NewModuli(lowerBound, n + 1)
  IN  /\ NewMembers /\ n < m
      /\ members' = members \cup made /\ enc' \in EncWith(made)
      /\ available' = made
      /\ x' = [k \in members' |-> IF k \in members THEN x[k] ELSE 0]
      /\ y' = [k \in members' |-> IF k \in members THEN y[k] ELSE 0]
      /\ UNCHANGED <<method, product, m, groupVars, masterVars>>

\* member_join and member_leave where they change something: k belongs to the
\* system, and is not in the group yet, or in it.
MemberJoin(k) ==
  /\ k \in members \ (available \cup active)
  /\ activeModuli * k <= MaxActive
  /\ active' = active \cup {k}
  /\ activeProduct' = activeProduct * Residue(k)
  /\ activeModuli' = IF PH THEN activeModuli * k ELSE 1
  /\ UNCHANGED <<method, memberVars, productVars>>
  /\ keyInfo' = IF PH THEN (keyInfo + Share(k, x, y)) % product ELSE 0
  /\ mKey' = IF PH THEN keyInfo' % activeProduct' ELSE 0

\* m_key_info after member_leave.
KeepsShare(k)    == keyInfo
NotNormalised(k) == TruncMod(keyInfo - Share(k, x, y), product)
Without(k)       == (TruncMod(keyInfo - Share(k, x, y), product) + product) % product

MemberLeave(k) ==
  /\ k \in active
  /\ active' = active \ {k}
  /\ activeProduct' = activeProduct \div Residue(k)
  /\ activeModuli' = IF PH THEN activeModuli \div k ELSE 1
  /\ UNCHANGED <<method, memberVars, productVars>>
  /\ keyInfo' = IF PH THEN Without(k) ELSE 0
  /\ mKey' = IF PH THEN keyInfo' % activeProduct' ELSE 0

CipherNext ==
  \/ \E k \in members : Allocation(k) \/ MemberJoin(k) \/ MemberLeave(k)
  \/ \E k \in NewModuli(lowerBound, m) : ExtendAndAllocate(k)
  \/ \E n \in 0..(m - 1) : ExtendFails(n)

CipherSpec == CipherInit /\ [][CipherNext]_vars

-----------------------------------------------------------------------------
(* encrypt and decrypt, of the group key gk.                               *)

GroupKeys == 0..(2^HashBits - 1)

\* The hash of a modulus and the random number of the session is any number of
\* HashBits bits: hash is a function from moduli to those.
Hashes == [members -> GroupKeys]

XHEncrypt(gk, hash) ==
  MapThenSumSet(LAMBDA k : (hash[k] ^^ gk) * x[k] * y[k], active) % activeProduct
XHDecrypt(c, k, hash) == (c % k) ^^ hash[k]

PHEncrypt(gk)   == Powm(gk, mKey, activeModuli)
PHDecrypt(c, k) == Powm(c, Invert(enc[k], k - 1), k)

\* k reads every group key.
Reads(k) ==
  IF XH THEN \A gk \in GroupKeys, hash \in Hashes : XHDecrypt(XHEncrypt(gk, hash), k, hash) = gk
  ELSE \A gk \in GroupKeys : PHDecrypt(PHEncrypt(gk), k) = gk

\* get_enckey can choose (p - 1) / 2, which has no inverse modulo p - 1.
HasKeyPair(k) == PH => Invert(enc[k], k - 1) # 0

HasCoefficients(k) == Divides(Residue(k), product)

-----------------------------------------------------------------------------
(* Properties.                                                             *)

(***************************************************************************)
(* A member of the group for which init_xy has run since it was made reads *)
(* every group key, after any joins, leaves and extensions, if and only if *)
(* its encryption key has an inverse.                                      *)
(***************************************************************************)
MembersDecrypt ==
  \A k \in active : HasCoefficients(k) => (Reads(k) <=> HasKeyPair(k))

(***************************************************************************)
(* What KeyStore takes for granted: a modulus reads all group keys exactly *)
(* if it is a factor of the group, of the product x and y were made from   *)
(* and of the product the ciphertext is reduced by.                        *)
(***************************************************************************)
KeyStoreView ==
  XH => \A k \in members :
          Reads(k) <=> k \in active /\ Divides(k, product) /\ Divides(k, activeProduct)

(***************************************************************************)
(* An extension, complete or not, makes no new master key: a message of    *)
(* before it and one of after it are read by the same keys.                *)
(***************************************************************************)
MasterKeyStable ==
  [][active' = active /\ (\A k \in active : HasCoefficients(k)) => mKey' = mKey]_vars
=============================================================================
