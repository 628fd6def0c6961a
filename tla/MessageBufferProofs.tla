---------------------- MODULE MessageBufferProofs ----------------------
(*****************************************************************************)
(* What the operators of MessageBuffer do to the readable bytes of a buffer, *)
(* for arrays, texts and messages of any size: addMessage, Append and ReadFd *)
(* put bytes behind them whether the array is filled, compacted or grown,    *)
(* Retrieve takes some from the front, and getMessage takes the first frame  *)
(* when it is there whole and leaves the buffer when it is not.              *)
(*                                                                           *)
(* The bytes under way are FlattenSeq of the frames, a recursive function.   *)
(* What is said of it is proved by induction over a set of numbers, which is *)
(* the least element of what it lacks (WFMin, and that < is well-founded on  *)
(* Nat): the induction rules themselves take an operator as a parameter.     *)
(*****************************************************************************)
EXTENDS MessageStream, SequenceTheorems, WellFoundedInduction, TLAPS

(* Induction, and the totals that FlattenSeq adds up.                      *)

\* Every set of numbers that has a member has a least one.
LEMMA LeastNumber ==
  ASSUME NEW T \in SUBSET Nat, T # {}
  PROVE  \E n \in T : \A m \in T : n <= m
<1>1. PICK n \in T : \A m \in T : <<m, n>> \notin OpToRel(<, Nat)
  BY NatLessThanWellFounded, WFMin
<1>2. \A m \in T : ~(m < n)
  BY <1>1 DEF OpToRel
<1> QED
  BY <1>2

\* A set of numbers with 0 that has the successor of each member has them all:
\* otherwise the least number that it lacks would have a predecessor in it.
LEMMA SetOfAllNumbers ==
  ASSUME NEW T \in SUBSET Nat, 0 \in T, \A n \in T : n + 1 \in T
  PROVE  \A n \in Nat : n \in T
<1> SUFFICES ASSUME Nat \ T # {} PROVE FALSE
  OBVIOUS
<1>1. PICK n \in Nat \ T : \A m \in Nat \ T : n <= m
  BY LeastNumber
<1>2. n # 0 /\ n - 1 \in Nat
  BY <1>1
<1>3. n - 1 \in T
  BY <1>1, <1>2
<1> QED
  BY <1>1, <1>2, <1>3

Continues(s, f, i) == f[i] = IF i = 1 THEN s[i] ELSE f[i - 1] \o s[i]
Totals(s, n, f) == \A i \in 1..n : Continues(s, f, i)
IsTotals(s, n, f) == f = [i \in 1..n |-> IF i = 1 THEN s[i] ELSE f[i - 1] \o s[i]]

\* There is such a function for every sequence.
LEMMA TotalsExist ==
  ASSUME NEW s, NEW n \in Nat
  PROVE  \E f : IsTotals(s, n, f)
<1> DEFINE T == {k \in Nat : \E f : IsTotals(s, k, f)}
<1>1. 0 \in T
  <2>1. [i \in 1..0 |-> 0] = [i \in 1..0 |-> IF i = 1 THEN s[i] ELSE [j \in 1..0 |-> 0][i - 1] \o s[i]]
    OBVIOUS
  <2> QED
    BY <2>1 DEF IsTotals
<1>2. ASSUME NEW k \in T PROVE k + 1 \in T
  <2>1. PICK f : IsTotals(s, k, f)
    OBVIOUS
  <2> DEFINE g == [i \in 1..(k + 1) |-> IF i = k + 1 THEN IF i = 1 THEN s[i] ELSE f[k] \o s[i] ELSE f[i]]
  <2>2. ASSUME NEW i \in 1..(k + 1) PROVE g[i] = IF i = 1 THEN s[i] ELSE g[i - 1] \o s[i]
    <3>1. k \in Nat
      OBVIOUS
    <3>2. CASE i = k + 1
      <4>1. i # 1 => g[i - 1] = f[k]
        BY <3>1, <3>2
      <4> QED
        BY <3>1, <3>2, <4>1
    <3>3. CASE i # k + 1
      <4>1. i \in 1..k /\ g[i] = f[i]
        BY <3>1, <3>3
      <4>2. f[i] = IF i = 1 THEN s[i] ELSE f[i - 1] \o s[i]
        BY <2>1, <4>1 DEF IsTotals
      <4>3. i # 1 => g[i - 1] = f[i - 1]
        BY <3>1, <3>3
      <4> QED
        BY <4>1, <4>2, <4>3
    <3> QED
      BY <3>2, <3>3
  <2>3. IsTotals(s, k + 1, g)
    BY <2>2 DEF IsTotals
  <2> QED
    BY <2>3
<1> HIDE DEF T
<1>3. n \in T
  <2>1. T \in SUBSET Nat
    BY DEF T
  <2> QED
    BY <1>1, <1>2, <2>1, SetOfAllNumbers
<1> QED
  BY <1>3 DEF T

\* FlattenSeq returns the last of the totals.
LEMMA FlattenIsTotal ==
  ASSUME NEW s, Len(s) \in Nat, Len(s) # 0
  PROVE  \E f : Totals(s, Len(s), f) /\ FlattenSeq(s) = f[Len(s)]
<1> DEFINE f == CHOOSE f : f = [i \in 1..Len(s) |-> IF i = 1 THEN s[i] ELSE f[i - 1] \o s[i]]
<1>1. \E g : g = [i \in 1..Len(s) |-> IF i = 1 THEN s[i] ELSE g[i - 1] \o s[i]]
  BY TotalsExist DEF IsTotals
<1>2. f = [i \in 1..Len(s) |-> IF i = 1 THEN s[i] ELSE f[i - 1] \o s[i]]
  BY <1>1
<1>3. FlattenSeq(s) = f[Len(s)]
  BY DEF FlattenSeq
<1> HIDE DEF f
<1>4. ASSUME NEW i \in 1..Len(s) PROVE f[i] = IF i = 1 THEN s[i] ELSE f[i - 1] \o s[i]
  BY <1>2
<1> QED
  BY <1>3, <1>4 DEF Totals, Continues

\* It does not matter which of three sequences are joined first.
LEMMA Associative == \A S : \A a, b, c \in Seq(S) : (a \o b) \o c = a \o (b \o c)
BY ConcatAssociative

\* The same argument from 1 to n.
LEMMA FromOneOn ==
  ASSUME NEW n \in Nat, NEW T, n # 0 => 1 \in T,
         \A i \in 1..n : i \in T /\ i + 1 \in 1..n => i + 1 \in T
  PROVE  \A i \in 1..n : i \in T
<1> DEFINE Bad == {i \in 1..n : i \notin T}
<1> SUFFICES ASSUME Bad # {} PROVE FALSE
  OBVIOUS
<1>1. Bad \in SUBSET Nat
  OBVIOUS
<1>2. PICK i \in Bad : \A j \in Bad : i <= j
  <2> HIDE DEF Bad
  <2> QED
    BY <1>1, LeastNumber
<1>3. i # 1 /\ i - 1 \in 1..n /\ (i - 1) + 1 = i
  BY <1>2
<1>4. i - 1 \in T
  BY <1>2, <1>3
<1> QED
  BY <1>2, <1>3, <1>4

\* A total and the one before it.
LEMMA TotalsGoOn ==
  ASSUME NEW s, NEW n \in Nat, NEW f, Totals(s, n, f), NEW i \in 1..n, i + 1 \in 1..n
  PROVE  f[i + 1] = f[i] \o s[i + 1]
<1>1. Continues(s, f, i + 1)
  BY DEF Totals
<1>2. i + 1 # 1 /\ (i + 1) - 1 = i
  OBVIOUS
<1> QED
  BY <1>1, <1>2 DEF Continues

\* The first total.
LEMMA TotalsBegin ==
  ASSUME NEW s, NEW n \in Nat, NEW f, Totals(s, n, f), n # 0
  PROVE  f[1] = s[1]
<1>1. Continues(s, f, 1)
  BY DEF Totals
<1> QED
  BY <1>1 DEF Continues

\* When no member is longer than L, the i-th total is no longer than i times L.
LEMMA TotalsTypes ==
  ASSUME NEW S, NEW s \in Seq(Seq(S)), NEW f, Totals(s, Len(s), f),
         NEW L \in Nat, \A i \in 1..Len(s) : Len(s[i]) <= L
  PROVE  \A i \in 1..Len(s) : f[i] \in Seq(S) /\ Len(f[i]) <= i * L
<1> DEFINE T == {i \in 1..Len(s) : f[i] \in Seq(S) /\ Len(f[i]) <= i * L}
<1>1. Len(s) \in Nat /\ \A i \in 1..Len(s) : s[i] \in Seq(S) /\ Len(s[i]) \in Nat
  BY LenProperties, ElementOfSeq
<1>2. ASSUME Len(s) # 0 PROVE 1 \in T
  <2>1. f[1] = s[1]
    BY <1>1, <1>2, TotalsBegin
  <2>2. 1 \in 1..Len(s) /\ 1 * L = L
    BY <1>1, <1>2
  <2> QED
    BY <1>1, <2>1, <2>2
<1>3. ASSUME NEW i \in 1..Len(s), i \in T, i + 1 \in 1..Len(s) PROVE i + 1 \in T
  <2>1. f[i + 1] = f[i] \o s[i + 1]
    BY <1>1, <1>3, TotalsGoOn, Zenon
  <2>2. /\ f[i] \in Seq(S) /\ Len(f[i]) <= i * L /\ Len(f[i]) \in Nat
        /\ s[i + 1] \in Seq(S) /\ Len(s[i + 1]) \in Nat /\ Len(s[i + 1]) <= L
    BY <1>1, <1>3, LenProperties
  <2>3. f[i + 1] \in Seq(S) /\ Len(f[i + 1]) = Len(f[i]) + Len(s[i + 1])
    BY <2>1, <2>2, ConcatProperties
  <2>4. i * L \in Nat /\ i * L + L = (i + 1) * L
    BY <1>1
  <2>5. Len(f[i + 1]) <= (i + 1) * L
    <3>1. \A p, x, y \in Nat : x <= p /\ y <= L => x + y <= p + L
      OBVIOUS
    <3>2. Len(f[i]) + Len(s[i + 1]) <= i * L + L
      BY <2>2, <2>4, <3>1, Zenon
    <3> QED
      BY <2>3, <2>4, <3>2, Zenon
  <2> QED
    BY <1>3, <2>3, <2>5
<1> HIDE DEF T
<1>4. \A i \in 1..Len(s) : i \in T
  BY <1>1, <1>2, <1>3, FromOneOn
<1> QED
  BY <1>4 DEF T

BeginsAs(t, s, m) == \A i \in 1..m : t[i] = s[i]

\* Sequences that begin alike have the same first totals.
LEMMA TotalsAgree ==
  ASSUME NEW s, NEW t, NEW m \in Nat, NEW n \in Nat, NEW f, NEW g,
         Totals(s, m, f), Totals(t, n, g), m <= n, BeginsAs(t, s, m)
  PROVE  \A i \in 1..m : g[i] = f[i]
<1> DEFINE T == {i \in 1..m : g[i] = f[i]}
<1>1. ASSUME m # 0 PROVE 1 \in T
  <2>1. f[1] = s[1]
    BY <1>1, TotalsBegin
  <2>2. n # 0 /\ 1 \in 1..m
    BY <1>1
  <2>3. g[1] = t[1]
    BY <2>2, TotalsBegin
  <2> QED
    BY <2>1, <2>2, <2>3 DEF BeginsAs
<1>2. ASSUME NEW i \in 1..m, i \in T, i + 1 \in 1..m PROVE i + 1 \in T
  <2>1. f[i + 1] = f[i] \o s[i + 1]
    BY <1>2, TotalsGoOn, Zenon
  <2>2. i \in 1..n /\ i + 1 \in 1..n
    BY <1>2
  <2>3. g[i + 1] = g[i] \o t[i + 1]
    BY <2>2, TotalsGoOn, Zenon
  <2>4. g[i] = f[i] /\ t[i + 1] = s[i + 1]
    BY <1>2 DEF BeginsAs
  <2> QED
    BY <1>2, <2>1, <2>3, <2>4, Zenon
<1> HIDE DEF T
<1>3. \A i \in 1..m : i \in T
  BY <1>1, <1>2, FromOneOn
<1> QED
  BY <1>3 DEF T

Behind(a, f, g, n) == \A i \in 1..n : f[i + 1] = a \o g[i]
IsRest(s, t) == Len(s) = Len(t) + 1 /\ \A i \in 1..Len(t) : t[i] = s[i + 1]

\* Without its first member every total lacks just that.
LEMMA TotalsOfTail ==
  ASSUME NEW S, NEW s \in Seq(Seq(S)), NEW t, Len(t) \in Nat, NEW f, NEW g,
         IsRest(s, t),
         Totals(s, Len(s), f), Totals(t, Len(t), g)
  PROVE  Behind(s[1], f, g, Len(t))
<1> DEFINE n == Len(t)
           T == {i \in 1..n : f[i + 1] = s[1] \o g[i] /\ g[i] \in Seq(S)}
<1>1. /\ n \in Nat /\ Len(s) = n + 1 /\ s[1] \in Seq(S)
      /\ \A i \in 1..n : t[i] = s[i + 1]
      /\ \A i \in 1..Len(s) : s[i] \in Seq(S)
  BY LenProperties, ElementOfSeq DEF IsRest
<1>2. Totals(s, n + 1, f) /\ Totals(t, n, g) /\ n + 1 \in Nat
  BY <1>1
<1> HIDE DEF n
<1>3. \A i \in 1..(n + 1) : i + 1 \in 1..(n + 1) => f[i + 1] = f[i] \o s[i + 1]
  BY <1>2, TotalsGoOn, Zenon
<1>4. ASSUME n # 0 PROVE 1 \in T
  <2>1. f[1] = s[1] /\ g[1] = t[1]
    <3>1. n + 1 # 0 /\ n \in Nat
      BY <1>1
    <3>2. f[1] = s[1]
      BY <1>2, <3>1, TotalsBegin
    <3>3. g[1] = t[1]
      BY <1>2, <1>4, <3>1, TotalsBegin
    <3> QED
      BY <3>2, <3>3
  <2>2. 1 \in 1..(n + 1) /\ 1 + 1 \in 1..(n + 1) /\ 1 \in 1..n
    BY <1>1, <1>4
  <2>3. f[1 + 1] = f[1] \o s[1 + 1]
    BY <1>3, <2>2, Zenon
  <2>4. t[1] = s[1 + 1] /\ s[1 + 1] \in Seq(S)
    BY <1>1, <2>2
  <2>5. f[1 + 1] = s[1] \o g[1] /\ g[1] \in Seq(S)
    BY <1>1, <2>1, <2>3, <2>4, Zenon
  <2> QED
    BY <2>2, <2>5
<1>5. ASSUME NEW i \in 1..n, i \in T, i + 1 \in 1..n PROVE i + 1 \in T
  <2>1. i + 1 \in 1..(n + 1) /\ (i + 1) + 1 \in 1..(n + 1)
    <3>1. n \in Nat
      BY <1>1
    <3> HIDE DEF T
    <3> QED
      BY <1>5, <3>1
  <2>2. f[(i + 1) + 1] = f[i + 1] \o s[(i + 1) + 1]
    BY <1>3, <2>1, Zenon
  <2>3. g[i + 1] = g[i] \o t[i + 1]
    BY <1>1, <1>2, <1>5, TotalsGoOn, Zenon
  <2>4. t[i + 1] = s[(i + 1) + 1] /\ s[(i + 1) + 1] \in Seq(S)
    BY <1>1, <1>5, <2>1, Zenon
  <2>5. f[i + 1] = s[1] \o g[i] /\ g[i] \in Seq(S)
    BY <1>5
  <2>8. \A b, c \in Seq(S) : b \o c \in Seq(S)
    BY ConcatProperties
  <2>7. f[(i + 1) + 1] = s[1] \o g[i + 1] /\ g[i + 1] \in Seq(S)
    <3>1. s[1] \in Seq(S) /\ g[i] \in Seq(S) /\ s[(i + 1) + 1] \in Seq(S)
      BY <1>1, <2>4, <2>5, Zenon
    <3> DEFINE x == s[1]  y == g[i]  z == s[(i + 1) + 1]
    <3> HIDE DEF x, y, z
    <3>2. x \in Seq(S) /\ y \in Seq(S) /\ z \in Seq(S)
      BY <3>1 DEF x, y, z
    <3>3. (x \o y) \o z = x \o (y \o z)
      BY <3>2, Associative
    <3>4. y \o z \in Seq(S)
      BY <3>2, <2>8, Zenon
    <3> QED
      BY <2>2, <2>3, <2>4, <2>5, <3>3, <3>4, Zenon DEF x, y, z
  <2> QED
    BY <1>5, <2>7
<1>6. \A i \in 1..n : i \in T
  <2> HIDE DEF T
  <2> QED
    BY <1>1, <1>4, <1>5, FromOneOn
<1> QED
  BY <1>6, Zenon DEF n, T, Behind

\* FlattenSeq of no sequence.
LEMMA FlattenEmpty == FlattenSeq(<< >>) = << >>
BY DEF FlattenSeq

\* What FlattenSeq returns is no longer than all members are together.
LEMMA FlattenTypes ==
  ASSUME NEW S, NEW s \in Seq(Seq(S)), NEW L \in Nat, \A i \in 1..Len(s) : Len(s[i]) <= L
  PROVE  FlattenSeq(s) \in Seq(S) /\ Len(FlattenSeq(s)) <= Len(s) * L
<1>1. Len(s) \in Nat
  OBVIOUS
<1>2. CASE Len(s) = 0
  <2>1. s = << >>
    BY <1>2
  <2>2. FlattenSeq(s) = << >>
    BY <2>1, FlattenEmpty
  <2> QED
    BY <1>2, <2>2
<1>3. CASE Len(s) # 0
  <2>1. PICK f : Totals(s, Len(s), f) /\ FlattenSeq(s) = f[Len(s)]
    BY <1>1, <1>3, FlattenIsTotal
  <2>2. \A i \in 1..Len(s) : f[i] \in Seq(S) /\ Len(f[i]) <= i * L
    BY <2>1, TotalsTypes
  <2>3. Len(s) \in 1..Len(s)
    BY <1>1, <1>3
  <2> QED
    BY <2>1, <2>2, <2>3, Zenon
<1> QED
  BY <1>2, <1>3

\* FlattenSeq of one sequence.
LEMMA FlattenOne ==
  ASSUME NEW s, Len(s) = 1
  PROVE  FlattenSeq(s) = s[1]
<1>0. Len(s) \in Nat /\ Len(s) # 0
  OBVIOUS
<1>1. PICK f : Totals(s, Len(s), f) /\ FlattenSeq(s) = f[Len(s)]
  BY <1>0, FlattenIsTotal, Zenon
<1>2. f[1] = s[1]
  BY <1>1, TotalsBegin
<1> QED
  BY <1>1, <1>2

\* A sequence that is appended comes last.
LEMMA FlattenAppend ==
  ASSUME NEW S, NEW s \in Seq(Seq(S)), NEW e \in Seq(S)
  PROVE  FlattenSeq(Append(s, e)) = FlattenSeq(s) \o e
<1>1. PICK t : t = Append(s, e)
  OBVIOUS
<1>2. PICK n \in Nat : n = Len(s)
  OBVIOUS
<1>3. Len(t) = n + 1 /\ t[n + 1] = e /\ \A i \in 1..n : t[i] = s[i]
  BY <1>1, <1>2, AppendProperties
<1>4. CASE n = 0
  <2>1. FlattenSeq(t) = e
    BY <1>3, <1>4, FlattenOne
  <2>2. s = << >>
    BY <1>2, <1>4, EmptySeq
  <2>3. FlattenSeq(s) \o e = e
    BY <2>2, FlattenEmpty
  <2> QED
    BY <1>1, <2>1, <2>3
<1>5. CASE n # 0
  <2>1. PICK f : Totals(s, n, f) /\ FlattenSeq(s) = f[n]
    BY <1>2, <1>5, FlattenIsTotal
  <2>2. PICK g : Totals(t, n + 1, g) /\ FlattenSeq(t) = g[n + 1]
    BY <1>3, FlattenIsTotal
  <2>3. n \in 1..(n + 1) /\ n + 1 \in 1..(n + 1) /\ n + 1 \in Nat /\ n <= n + 1 /\ n \in 1..n
    BY <1>5
  <2>4. g[n + 1] = g[n] \o t[n + 1]
    BY <2>2, <2>3, TotalsGoOn, Zenon
  <2>5. \A i \in 1..n : g[i] = f[i]
    <3>1. BeginsAs(t, s, n)
      BY <1>3 DEF BeginsAs
    <3> QED
      BY <2>1, <2>2, <2>3, <3>1, TotalsAgree
  <2>6. g[n] = f[n]
    BY <2>3, <2>5, Zenon
  <2> QED
    BY <1>1, <1>3, <2>1, <2>2, <2>4, <2>6, Zenon
<1> QED
  BY <1>4, <1>5

\* The first sequence comes first.
LEMMA FlattenHead ==
  ASSUME NEW S, NEW s \in Seq(Seq(S)), s # << >>
  PROVE  FlattenSeq(s) = Head(s) \o FlattenSeq(Tail(s))
<1>1. PICK t : t = Tail(s)
  OBVIOUS
<1>2. PICK n \in Nat : n = Len(t)
  BY <1>1, HeadTailProperties, LenProperties
<1>3. IsRest(s, t) /\ s[1] = Head(s) /\ Len(s) = n + 1 /\ t \in Seq(Seq(S)) /\ Head(s) \in Seq(S)
  BY <1>1, <1>2, HeadTailProperties DEF IsRest
<1>4. CASE n = 0
  <2>1. FlattenSeq(s) = s[1]
    BY <1>3, <1>4, FlattenOne
  <2>2. t = << >>
    BY <1>2, <1>3, <1>4, EmptySeq
  <2>3. Head(s) \o FlattenSeq(t) = Head(s)
    BY <1>3, <2>2, FlattenEmpty
  <2> QED
    BY <1>1, <1>3, <2>1, <2>3
<1>5. CASE n # 0
  <2>0. Len(s) \in Nat /\ Len(s) # 0
    BY <1>3
  <2>1. PICK f : Totals(s, Len(s), f) /\ FlattenSeq(s) = f[Len(s)]
    BY <2>0, FlattenIsTotal, Zenon
  <2>2. PICK g : Totals(t, n, g) /\ FlattenSeq(t) = g[n]
    BY <1>2, <1>5, FlattenIsTotal
  <2>3. n \in 1..n
    BY <1>5
  <2>4. Behind(s[1], f, g, Len(t))
    <3>1. Totals(t, Len(t), g) /\ Len(t) \in Nat
      BY <1>2, <2>2
    <3>2. IsRest(s, t) /\ Totals(s, Len(s), f)
      BY <1>3, <2>1
    <3> QED
      BY <3>1, <3>2, TotalsOfTail
  <2>5. f[n + 1] = s[1] \o g[n]
    BY <1>2, <2>3, <2>4, Zenon DEF Behind
  <2> QED
    BY <1>1, <1>3, <2>1, <2>2, <2>5, Zenon
<1> QED
  BY <1>4, <1>5

\* Totals of sequences of members of S are sequences of members of S.
LEMMA TotalsAreSequences ==
  ASSUME NEW S, NEW s \in Seq(Seq(S)), NEW f, Totals(s, Len(s), f)
  PROVE  \A i \in 1..Len(s) : f[i] \in Seq(S)
<1> DEFINE T == {i \in 1..Len(s) : f[i] \in Seq(S)}
<1>1. Len(s) \in Nat /\ \A i \in 1..Len(s) : s[i] \in Seq(S)
  BY LenProperties, ElementOfSeq
<1>2. ASSUME Len(s) # 0 PROVE 1 \in T
  <2>1. f[1] = s[1]
    BY <1>1, <1>2, TotalsBegin
  <2>2. 1 \in 1..Len(s)
    BY <1>1, <1>2
  <2> QED
    BY <1>1, <2>1, <2>2
<1>3. ASSUME NEW i \in 1..Len(s), i \in T, i + 1 \in 1..Len(s) PROVE i + 1 \in T
  <2>1. f[i + 1] = f[i] \o s[i + 1]
    BY <1>1, <1>3, TotalsGoOn, Zenon
  <2>2. f[i] \in Seq(S) /\ s[i + 1] \in Seq(S)
    BY <1>1, <1>3
  <2>3. f[i + 1] \in Seq(S)
    BY <2>1, <2>2, ConcatProperties
  <2> QED
    BY <1>3, <2>3
<1> HIDE DEF T
<1>4. \A i \in 1..Len(s) : i \in T
  BY <1>1, <1>2, <1>3, FromOneOn
<1> QED
  BY <1>4 DEF T

\* So FlattenSeq returns one.
LEMMA FlattenIsSequence ==
  ASSUME NEW S, NEW s \in Seq(Seq(S))
  PROVE  FlattenSeq(s) \in Seq(S)
<1>1. Len(s) \in Nat
  BY LenProperties
<1>2. CASE Len(s) = 0
  <2>1. s = << >>
    BY <1>2
  <2>2. FlattenSeq(s) = << >>
    BY <2>1, FlattenEmpty
  <2> QED
    BY <2>2
<1>3. CASE Len(s) # 0
  <2>1. PICK f : Totals(s, Len(s), f) /\ FlattenSeq(s) = f[Len(s)]
    BY <1>1, <1>3, FlattenIsTotal
  <2>2. \A i \in 1..Len(s) : f[i] \in Seq(S)
    BY <2>1, TotalsAreSequences
  <2>3. Len(s) \in 1..Len(s)
    BY <1>1, <1>3
  <2> QED
    BY <2>1, <2>2, <2>3, Zenon
<1> QED
  BY <1>2, <1>3

-----------------------------------------------------------------------------
(* Buffers and the text between their positions.                           *)

Text == Seq(Bytes)

\* What IsBuffer says of the three fields.
LEMMA BufferFields ==
  ASSUME NEW b, IsBuffer(b)
  PROVE  /\ b.bytes \in Text /\ b.readPos \in Nat /\ b.writePos \in Nat /\ Len(b.bytes) \in Nat
         /\ b.readPos <= b.writePos /\ b.writePos <= Len(b.bytes)
         /\ b = [bytes |-> b.bytes, readPos |-> b.readPos, writePos |-> b.writePos]
<1>1. b.bytes \in Seq(Bytes)
  BY DEF IsBuffer
<1>2. Len(b.bytes) \in Nat
  BY <1>1, LenProperties
<1> QED
  BY <1>1, <1>2 DEF IsBuffer, Text

\* The readable bytes are those of the array between the positions.
LEMMA ReadableProperties ==
  ASSUME NEW b, IsBuffer(b)
  PROVE  /\ Readable(b) \in Text /\ ReadableBytes(b) \in Nat
         /\ Len(Readable(b)) = ReadableBytes(b) /\ ReadableBytes(b) = b.writePos - b.readPos
         /\ \A i \in 1..ReadableBytes(b) : Readable(b)[i] = b.bytes[b.readPos + i]
<1>1. /\ b.bytes \in Text /\ b.readPos \in Nat /\ b.writePos \in Nat /\ Len(b.bytes) \in Nat
      /\ b.readPos <= b.writePos /\ b.writePos <= Len(b.bytes)
  BY BufferFields
<1> DEFINE m == b.readPos + 1  n == b.writePos  bytes == b.bytes
<1>2. m \in Int /\ n \in Int
  BY <1>1
<1>3. \A i \in m..n : bytes[i] \in Bytes
  BY <1>1, ElementOfSeq DEF Text
<1> HIDE DEF m, n, bytes
<1>4. /\ SubSeq(bytes, m, n) \in Seq(Bytes)
      /\ Len(SubSeq(bytes, m, n)) = IF m <= n THEN n - m + 1 ELSE 0
      /\ \A i \in 1..(n - m + 1) : SubSeq(bytes, m, n)[i] = bytes[m + i - 1]
  <2>1. m \in Int /\ n \in Int
    BY <1>2
  <2> QED
    BY <2>1, <1>3, SubSeqProperties
<1>5. ASSUME NEW i \in 1..ReadableBytes(b) PROVE m + i - 1 = b.readPos + i /\ i \in 1..(n - m + 1)
  BY <1>1 DEF ReadableBytes, m, n
<1>6. Readable(b) = SubSeq(bytes, m, n)
  BY DEF Readable, m, n, bytes
<1>7. ReadableBytes(b) \in Nat /\ ReadableBytes(b) = n - b.readPos
  BY <1>1 DEF ReadableBytes, n
<1>8. ASSUME NEW i \in 1..ReadableBytes(b) PROVE Readable(b)[i] = b.bytes[b.readPos + i]
  BY <1>4, <1>5, <1>6, Zenon DEF bytes
<1>9. Len(Readable(b)) = ReadableBytes(b)
  <2>1. Len(Readable(b)) = IF m <= n THEN n - m + 1 ELSE 0
    BY <1>4, <1>6, Zenon
  <2> QED
    BY <1>1, <1>7, <2>1 DEF m, n
<1> QED
  BY <1>4, <1>6, <1>7, <1>8, <1>9 DEF Text, n

\* A record is a buffer that holds a text if its bytes stand between the positions.
Holding(bytes, from, text) == \A i \in 1..Len(text) : bytes[from + i] = text[i]

\* So a record is a buffer with that text.
LEMMA HoldsText ==
  ASSUME NEW b, NEW bytes \in Text, NEW from \in Nat, NEW to \in Nat, NEW text \in Text,
         b = [bytes |-> bytes, readPos |-> from, writePos |-> to],
         to <= Len(bytes), to = from + Len(text), Holding(bytes, from, text)
  PROVE  IsBuffer(b) /\ Readable(b) = text
<1>1. Len(text) \in Nat
  BY LenProperties DEF Text
<1>2. IsBuffer(b)
  BY <1>1 DEF IsBuffer, Text
<1>3. b.bytes = bytes /\ b.readPos = from /\ b.writePos = to
  OBVIOUS
<1>4. Readable(b) \in Text /\ Len(Readable(b)) = Len(text)
      /\ \A i \in 1..Len(text) : Readable(b)[i] = bytes[from + i]
  BY <1>1, <1>2, <1>3, ReadableProperties
<1>5. \A i \in 1..Len(text) : Readable(b)[i] = text[i]
  BY <1>4 DEF Holding
<1> QED
  BY <1>2, <1>4, <1>5, SeqEqual DEF Text

\* And a buffer holds its readable bytes.
LEMMA HeldText ==
  ASSUME NEW b, IsBuffer(b)
  PROVE  Holding(b.bytes, b.readPos, Readable(b)) /\ b.writePos = b.readPos + Len(Readable(b))
BY ReadableProperties, BufferFields DEF Holding

\* bs behind the first pos bytes, in an array that is only longer if it must be.
IsCopy(c, bytes, pos, bs) ==
  /\ c \in Text
  /\ Len(c) = IF pos + Len(bs) <= Len(bytes) THEN Len(bytes) ELSE pos + Len(bs)
  /\ \A i \in 1..pos : c[i] = bytes[i]
  /\ Holding(c, pos, bs)

\* Copying puts bs behind pos and leaves what is in front of it.
LEMMA CopiedProperties ==
  ASSUME NEW bytes \in Text, NEW pos \in Nat, pos <= Len(bytes), NEW bs \in Text
  PROVE  IsCopy(Copied(bytes, pos, bs), bytes, pos, bs)
<1> DEFINE n == Len(bytes)  k == pos + Len(bs) + 1
           front == SubSeq(bytes, 1, pos)  back == SubSeq(bytes, k, n)
<1>1. n \in Nat /\ Len(bs) \in Nat /\ k \in Nat /\ k >= 1 /\ pos <= n
  BY LenProperties DEF Text
<1>2. \A i \in 1..n : bytes[i] \in Bytes
  BY ElementOfSeq DEF Text
<1>3. front \in Text /\ Len(front) = pos /\ \A i \in 1..pos : front[i] = bytes[i]
  <2>1. \A i \in 1..pos : bytes[i] \in Bytes
    BY <1>1, <1>2
  <2>2. /\ front \in Seq(Bytes) /\ Len(front) = IF 1 <= pos THEN pos - 1 + 1 ELSE 0
        /\ \A i \in 1..(pos - 1 + 1) : front[i] = bytes[1 + i - 1]
    BY <2>1, SubSeqProperties
  <2> QED
    BY <2>2 DEF Text
<1>4. back \in Text /\ Len(back) = IF k <= n THEN n - k + 1 ELSE 0
  <2>1. \A i \in k..n : bytes[i] \in Bytes
    BY <1>1, <1>2
  <2> QED
    BY <1>1, <2>1, SubSeqProperties DEF Text
<1> HIDE DEF front, back
<1>5. front \o bs \in Text /\ Len(front \o bs) = pos + Len(bs)
      /\ \A i \in 1..(pos + Len(bs)) : (front \o bs)[i] = IF i <= pos THEN front[i] ELSE bs[i - pos]
  BY <1>3, ConcatProperties DEF Text
<1> DEFINE fb == front \o bs
<1> HIDE DEF fb
<1>6. fb \o back \in Text /\ Len(fb \o back) = pos + Len(bs) + Len(back)
      /\ \A i \in 1..(pos + Len(bs)) : (fb \o back)[i] = fb[i]
  <2>1. fb \in Text /\ Len(fb) = pos + Len(bs) /\ Len(back) \in Nat
    BY <1>4, <1>5, LenProperties DEF fb, Text
  <2>2. fb \o back \in Text /\ Len(fb \o back) = Len(fb) + Len(back)
        /\ \A i \in 1..(Len(fb) + Len(back)) : (fb \o back)[i] = IF i <= Len(fb) THEN fb[i] ELSE back[i - Len(fb)]
    <3>1. fb \in Seq(Bytes) /\ back \in Seq(Bytes)
      BY <1>4, <2>1 DEF Text
    <3> QED
      BY <3>1, ConcatProperties DEF Text
  <2> QED
    BY <1>1, <2>1, <2>2
<1>7. Copied(bytes, pos, bs) = fb \o back
  BY DEF Copied, fb, front, back
<1>8. \A i \in 1..pos : (fb \o back)[i] = bytes[i]
  BY <1>1, <1>3, <1>5, <1>6 DEF fb
<1>9. ASSUME NEW i \in 1..Len(bs) PROVE (fb \o back)[pos + i] = bs[i]
  <2>1. pos + i \in 1..(pos + Len(bs)) /\ ~(pos + i <= pos) /\ (pos + i) - pos = i
    BY <1>1
  <2> QED
    BY <1>5, <1>6, <2>1 DEF fb
<1>10. Len(fb \o back) = IF pos + Len(bs) <= n THEN n ELSE pos + Len(bs)
  <2> DEFINE all == Len(fb \o back)  rest == Len(back)  end == pos + Len(bs)
  <2>1. /\ rest = IF end + 1 <= n THEN n - (end + 1) + 1 ELSE 0
        /\ all = end + rest /\ n \in Nat /\ end \in Nat
    BY <1>1, <1>4, <1>6
  <2> HIDE DEF all, rest, end, n
  <2>2. all = IF end <= n THEN n ELSE end
    BY <2>1
  <2> QED
    BY <2>2 DEF all, end, n
<1> QED
  BY <1>6, <1>7, <1>8, <1>9, <1>10 DEF IsCopy, Holding

-----------------------------------------------------------------------------
(* Making space, and writing behind what is readable.                      *)

\* Zeros are bytes.
LEMMA ZerosProperties ==
  ASSUME NEW n \in Nat
  PROVE  Zeros(n) \in Text /\ Len(Zeros(n)) = n
<1>1. Zero \in Bytes
  BY DEF Bytes
<1> QED
  BY <1>1 DEF Zeros, Text

\* A new buffer is one, with nothing in it.
LEMMA EmptyBuffer ==
  ASSUME NEW n \in Nat
  PROVE  /\ IsBuffer(Buffer(n)) /\ Readable(Buffer(n)) = << >>
         /\ Len(Buffer(n).bytes) = n
<1>1. Zeros(n) \in Text /\ Len(Zeros(n)) = n /\ << >> \in Text /\ Len(<< >>) = 0
  BY ZerosProperties, EmptySeq DEF Text
<1>2. Holding(Zeros(n), 0, << >>)
  BY DEF Holding
<1>3. Buffer(n) = [bytes |-> Zeros(n), readPos |-> 0, writePos |-> 0]
  BY DEF Buffer
<1>4. IsBuffer(Buffer(n)) /\ Readable(Buffer(n)) = << >>
  BY <1>1, <1>2, <1>3, HoldsText
<1> QED
  BY <1>1, <1>3, <1>4

\* The fields of a buffer with another array.
LEMMA OtherBytes ==
  ASSUME NEW b, IsBuffer(b), NEW y, NEW to
  PROVE  /\ [b EXCEPT !.bytes = y] = [bytes |-> y, readPos |-> b.readPos, writePos |-> b.writePos]
         /\ [b EXCEPT !.bytes = y, !.writePos = to] = [bytes |-> y, readPos |-> b.readPos, writePos |-> to]
<1>1. b \in [bytes : Text, readPos : Nat, writePos : Nat]
  BY DEF IsBuffer, Text
<1>2. PICK p, from, upto : b = [bytes |-> p, readPos |-> from, writePos |-> upto]
  BY <1>1
<1>3. b.readPos = from /\ b.writePos = upto
  BY <1>2
<1>4. [b EXCEPT !.bytes = y] = [bytes |-> y, readPos |-> from, writePos |-> upto]
  BY <1>2
<1>5. [b EXCEPT !.bytes = y, !.writePos = to] = [bytes |-> y, readPos |-> from, writePos |-> to]
  <2>1. [b EXCEPT !.bytes = y, !.writePos = to] = [[b EXCEPT !.bytes = y] EXCEPT !.writePos = to]
    OBVIOUS
  <2>2. PICK d : d = [bytes |-> y, readPos |-> from, writePos |-> upto]
    OBVIOUS
  <2>3. [d EXCEPT !.writePos = to] = [bytes |-> y, readPos |-> from, writePos |-> to]
    BY <2>2
  <2> QED
    BY <1>4, <2>1, <2>2, <2>3
<1> QED
  BY <1>3, <1>4, <1>5

\* Growing the array (MakeSpace_) keeps what is readable.
LEMMA GrownProperties ==
  ASSUME NEW b, IsBuffer(b), NEW n \in Nat, WritableBytes(b) < n
  PROVE  LET w == Grown(b, n)
         IN  /\ IsBuffer(w) /\ Readable(w) = Readable(b) /\ w.writePos = b.writePos
             /\ Len(w.bytes) = b.writePos + n + 1
<1>1. /\ b.bytes \in Text /\ b.readPos \in Nat /\ b.writePos \in Nat /\ Len(b.bytes) \in Nat
      /\ b.readPos <= b.writePos /\ b.writePos <= Len(b.bytes)
      /\ b = [bytes |-> b.bytes, readPos |-> b.readPos, writePos |-> b.writePos]
  BY BufferFields
<1>2. PICK k \in Nat : k = b.writePos + n + 1 - Len(b.bytes)
  BY <1>1 DEF WritableBytes
<1>3. PICK more : more = b.bytes \o Zeros(k)
  OBVIOUS
<1>4. Zeros(k) \in Text /\ Len(Zeros(k)) = k
  BY ZerosProperties
<1>5. /\ more \in Text /\ Len(more) = Len(b.bytes) + k
      /\ \A i \in 1..(Len(b.bytes) + k) : more[i] = IF i <= Len(b.bytes) THEN b.bytes[i] ELSE Zeros(k)[i - Len(b.bytes)]
  <2>1. PICK y, z : y = b.bytes /\ z = Zeros(k)
    OBVIOUS
  <2>2. y \in Seq(Bytes) /\ z \in Seq(Bytes) /\ Len(z) = k
    BY <1>1, <1>4, <2>1 DEF Text
  <2>3. /\ y \o z \in Seq(Bytes) /\ Len(y \o z) = Len(y) + Len(z)
        /\ \A i \in 1..(Len(y) + Len(z)) : (y \o z)[i] = IF i <= Len(y) THEN y[i] ELSE z[i - Len(y)]
    BY <2>2, ConcatProperties
  <2> QED
    BY <1>3, <2>1, <2>2, <2>3 DEF Text
<1>6. Grown(b, n) = [bytes |-> more, readPos |-> b.readPos, writePos |-> b.writePos]
  <2>1. Grown(b, n) = [b EXCEPT !.bytes = more]
    BY <1>2, <1>3 DEF Grown
  <2> QED
    BY <2>1, OtherBytes
<1>7. Readable(b) \in Text /\ b.writePos = b.readPos + Len(Readable(b)) /\ Len(Readable(b)) \in Nat
      /\ Holding(b.bytes, b.readPos, Readable(b))
  BY HeldText, ReadableProperties
<1>8. Holding(more, b.readPos, Readable(b))
  <2> SUFFICES ASSUME NEW i \in 1..Len(Readable(b)) PROVE more[b.readPos + i] = Readable(b)[i]
    BY DEF Holding
  <2>1. b.readPos + i \in 1..(Len(b.bytes) + k) /\ b.readPos + i <= Len(b.bytes)
    BY <1>1, <1>7
  <2>2. more[b.readPos + i] = b.bytes[b.readPos + i]
    BY <1>5, <2>1
  <2> QED
    BY <1>7, <2>2 DEF Holding
<1>9. Len(more) = b.writePos + n + 1 /\ b.writePos <= Len(more)
  BY <1>1, <1>2, <1>5
<1>10. IsBuffer(Grown(b, n)) /\ Readable(Grown(b, n)) = Readable(b)
  BY <1>1, <1>5, <1>6, <1>7, <1>8, <1>9, HoldsText
<1> QED
  BY <1>6, <1>9, <1>10

\* So does moving the readable bytes to the front.
LEMMA ShiftedProperties ==
  ASSUME NEW b, IsBuffer(b)
  PROVE  LET w == Shifted(b)
         IN  /\ IsBuffer(w) /\ Readable(w) = Readable(b) /\ w.writePos = ReadableBytes(b)
             /\ Len(w.bytes) = Len(b.bytes)
<1>1. /\ b.bytes \in Text /\ b.readPos \in Nat /\ b.writePos \in Nat /\ Len(b.bytes) \in Nat
      /\ b.readPos <= b.writePos /\ b.writePos <= Len(b.bytes)
  BY BufferFields
<1>2. /\ Readable(b) \in Text /\ ReadableBytes(b) \in Nat
      /\ Len(Readable(b)) = ReadableBytes(b) /\ ReadableBytes(b) <= Len(b.bytes)
  BY <1>1, ReadableProperties
<1>3. PICK c : c = Copied(b.bytes, 0, Readable(b))
  OBVIOUS
<1>4. IsCopy(c, b.bytes, 0, Readable(b))
  <2>1. 0 \in Nat /\ 0 <= Len(b.bytes)
    BY <1>1
  <2> QED
    BY <1>1, <1>2, <1>3, <2>1, CopiedProperties, Zenon
<1>5. c \in Text /\ Len(c) = Len(b.bytes)
  <2>1. Len(c) = IF 0 + Len(Readable(b)) <= Len(b.bytes) THEN Len(b.bytes) ELSE 0 + Len(Readable(b))
    BY <1>4, Zenon DEF IsCopy
  <2>2. c \in Text
    BY <1>4, Zenon DEF IsCopy
  <2> QED
    BY <1>1, <1>2, <2>1, <2>2
<1>6. Holding(c, 0, Readable(b))
  BY <1>4 DEF IsCopy
<1>7. Shifted(b) = [bytes |-> c, readPos |-> 0, writePos |-> ReadableBytes(b)]
  BY <1>3 DEF Shifted
<1>8. IsBuffer(Shifted(b)) /\ Readable(Shifted(b)) = Readable(b)
  BY <1>2, <1>5, <1>6, <1>7, HoldsText
<1> QED
  BY <1>5, <1>7, <1>8

\* EnsureWriteable keeps what is readable and makes the space; only when even
\* the space in front of the readable bytes does not suffice the array grows, to
\* at most twice what it must hold then.
LEMMA SpaceIsMade ==
  ASSUME NEW b, IsBuffer(b), NEW n \in Nat
  PROVE  LET w == EnsureWriteable(b, n)
         IN  /\ IsBuffer(w) /\ Readable(w) = Readable(b)
             /\ w.writePos + n <= Len(w.bytes)
             /\ \/ Len(w.bytes) = Len(b.bytes)
                \/ Len(w.bytes) <= ReadableBytes(b) + n + n
<1>1. /\ b.readPos \in Nat /\ b.writePos \in Nat /\ Len(b.bytes) \in Nat
      /\ b.readPos <= b.writePos /\ b.writePos <= Len(b.bytes)
      /\ ReadableBytes(b) = b.writePos - b.readPos /\ WritableBytes(b) = Len(b.bytes) - b.writePos
  BY BufferFields DEF ReadableBytes, WritableBytes
<1>2. CASE ~(WritableBytes(b) < n)
  BY <1>1, <1>2 DEF EnsureWriteable
<1>3. CASE WritableBytes(b) < n /\ WritableBytes(b) + b.readPos < n
  <2>1. EnsureWriteable(b, n) = Grown(b, n)
    BY <1>3 DEF EnsureWriteable, MakeSpace
  <2>2. /\ IsBuffer(Grown(b, n)) /\ Readable(Grown(b, n)) = Readable(b) /\ Grown(b, n).writePos = b.writePos
        /\ Len(Grown(b, n).bytes) = b.writePos + n + 1
    BY <1>3, GrownProperties
  <2> QED
    BY <1>1, <1>3, <2>1, <2>2
<1>4. CASE WritableBytes(b) < n /\ ~(WritableBytes(b) + b.readPos < n)
  <2>1. EnsureWriteable(b, n) = Shifted(b)
    BY <1>4 DEF EnsureWriteable, MakeSpace
  <2> QED
    BY <1>1, <1>4, <2>1, ShiftedProperties
<1> QED
  BY <1>2, <1>3, <1>4

\* Bytes that follow the readable ones.
LEMMA WrittenBehind ==
  ASSUME NEW w, IsBuffer(w), NEW bs \in Text, w.writePos + Len(bs) <= Len(w.bytes)
  PROVE  LET c == [w EXCEPT !.bytes = Copied(@, w.writePos, bs), !.writePos = @ + Len(bs)]
         IN  IsBuffer(c) /\ Readable(c) = Readable(w) \o bs /\ Len(c.bytes) = Len(w.bytes)
<1>1. /\ w.bytes \in Text /\ w.readPos \in Nat /\ w.writePos \in Nat /\ Len(w.bytes) \in Nat
      /\ w.readPos <= w.writePos /\ w.writePos <= Len(w.bytes)
      /\ w = [bytes |-> w.bytes, readPos |-> w.readPos, writePos |-> w.writePos]
  BY BufferFields
<1>2. Len(bs) \in Nat
  BY LenProperties DEF Text
<1>3. PICK y : y = Copied(w.bytes, w.writePos, bs)
  OBVIOUS
<1>4. /\ y \in Text
      /\ Len(y) = IF w.writePos + Len(bs) <= Len(w.bytes) THEN Len(w.bytes) ELSE w.writePos + Len(bs)
      /\ \A i \in 1..w.writePos : y[i] = w.bytes[i]
      /\ \A i \in 1..Len(bs) : y[w.writePos + i] = bs[i]
  <2>1. IsCopy(y, w.bytes, w.writePos, bs)
    BY <1>1, <1>3, CopiedProperties, Zenon
  <2> QED
    BY <2>1, Zenon DEF IsCopy, Holding
<1>5. Len(y) = Len(w.bytes)
  BY <1>4
<1>6. Readable(w) \in Text /\ w.writePos = w.readPos + Len(Readable(w)) /\ Len(Readable(w)) \in Nat
      /\ Holding(w.bytes, w.readPos, Readable(w))
  BY HeldText, ReadableProperties
<1>7. PICK text : text = Readable(w) \o bs
  OBVIOUS
<1>8. /\ text \in Text /\ Len(text) = Len(Readable(w)) + Len(bs)
      /\ \A i \in 1..(Len(Readable(w)) + Len(bs)) :
           text[i] = IF i <= Len(Readable(w)) THEN Readable(w)[i] ELSE bs[i - Len(Readable(w))]
  BY <1>6, <1>7, ConcatProperties DEF Text
<1>9. Holding(y, w.readPos, text)
  <2> SUFFICES ASSUME NEW i \in 1..Len(text) PROVE y[w.readPos + i] = text[i]
    BY DEF Holding
  <2>1. i \in 1..(Len(Readable(w)) + Len(bs))
    BY <1>8
  <2>2. CASE i <= Len(Readable(w))
    <3>1. w.readPos + i \in 1..w.writePos /\ i \in 1..Len(Readable(w))
      BY <1>1, <1>6, <2>2
    <3>2. text[i] = Readable(w)[i]
      BY <1>8, <2>1, <2>2
    <3>3. y[w.readPos + i] = w.bytes[w.readPos + i]
      BY <1>4, <3>1
    <3> QED
      BY <1>6, <3>1, <3>2, <3>3 DEF Holding
  <2>3. CASE ~(i <= Len(Readable(w)))
    <3>1. PICK j \in 1..Len(bs) : j = i - Len(Readable(w)) /\ w.readPos + i = w.writePos + j
      BY <1>1, <1>2, <1>6, <2>1, <2>3
    <3>2. text[i] = bs[j]
      BY <1>8, <2>1, <2>3, <3>1
    <3> QED
      BY <1>4, <3>1, <3>2
  <2> QED
    BY <2>2, <2>3
<1> DEFINE c == [w EXCEPT !.bytes = Copied(@, w.writePos, bs), !.writePos = @ + Len(bs)]
<1>10. c = [bytes |-> y, readPos |-> w.readPos, writePos |-> w.writePos + Len(bs)]
  <2>1. c = [w EXCEPT !.bytes = y, !.writePos = w.writePos + Len(bs)]
    BY <1>3
  <2> QED
    BY <2>1, OtherBytes
<1> HIDE DEF c
<1>11. w.writePos + Len(bs) = w.readPos + Len(text) /\ w.writePos + Len(bs) \in Nat
  BY <1>1, <1>2, <1>6, <1>8
<1>12. IsBuffer(c) /\ Readable(c) = text
  BY <1>1, <1>4, <1>5, <1>8, <1>9, <1>10, <1>11, HoldsText
<1> QED
  BY <1>5, <1>7, <1>10, <1>12 DEF c

\* An array that became b's from a's is no longer than it was, or than n.
GrewTo(a, b, n) == Len(b.bytes) = Len(a.bytes) \/ Len(b.bytes) <= n

\* Append puts bs behind what is readable, whichever way the space is made.
LEMMA AppendedProperties ==
  ASSUME NEW b, IsBuffer(b), NEW bs \in Text
  PROVE  /\ IsBuffer(Appended(b, bs))
         /\ Readable(Appended(b, bs)) = Readable(b) \o bs
         /\ GrewTo(b, Appended(b, bs), Len(Readable(b)) + Len(bs) + Len(bs))
<1>1. PICK w : w = EnsureWriteable(b, Len(bs))
  OBVIOUS
<1>2. Len(bs) \in Nat
  BY LenProperties DEF Text
<1>3. /\ IsBuffer(w) /\ Readable(w) = Readable(b)
      /\ w.writePos + Len(bs) <= Len(w.bytes)
      /\ \/ Len(w.bytes) = Len(b.bytes)
         \/ Len(w.bytes) <= ReadableBytes(b) + Len(bs) + Len(bs)
  BY <1>1, <1>2, SpaceIsMade
<1>4. PICK c : c = [w EXCEPT !.bytes = Copied(@, w.writePos, bs), !.writePos = @ + Len(bs)]
  OBVIOUS
<1>5. IsBuffer(c) /\ Readable(c) = Readable(w) \o bs /\ Len(c.bytes) = Len(w.bytes)
  BY <1>3, <1>4, WrittenBehind
<1>6. Appended(b, bs) = c
  BY <1>1, <1>4 DEF Appended
<1>7. ReadableBytes(b) = Len(Readable(b))
  BY ReadableProperties
<1> QED
  BY <1>3, <1>5, <1>6, <1>7 DEF GrewTo

\* Two texts make a text.
LEMMA JoinedText ==
  ASSUME NEW x \in Text, NEW y \in Text
  PROVE  x \o y \in Text /\ Len(x \o y) = Len(x) + Len(y) /\ Len(x) \in Nat /\ Len(y) \in Nat
BY ConcatProperties, LenProperties DEF Text

InTurn(x, y, z) == (x \o y) \o z = x \o (y \o z)

\* Of three texts any two can be joined first.
LEMMA JoinedInTurn ==
  ASSUME NEW x \in Text, NEW y \in Text, NEW z \in Text
  PROVE  InTurn(x, y, z)
BY ConcatAssociative DEF Text, InTurn

\* The five parts of a frame.
FiveInTurn(r, a, t, d, c, e) ==
  ((((r \o a) \o t) \o d) \o c) \o e = r \o ((((a \o t) \o d) \o c) \o e)

\* What a text and the five parts of a frame make.
LEMMA FiveJoined ==
  ASSUME NEW r \in Text, NEW a \in Text, NEW t \in Text, NEW d \in Text, NEW c \in Text, NEW e \in Text
  PROVE  FiveInTurn(r, a, t, d, c, e)
<1>1. PICK p, q, s, u : p = a \o t /\ q = p \o d /\ s = q \o c /\ u = s \o e
  OBVIOUS
<1>2. p \in Text /\ q \in Text /\ s \in Text
  BY <1>1, JoinedText
<1>3. InTurn(r, a, t)
  BY JoinedInTurn
<1>4. InTurn(r, p, d)
  BY <1>2, JoinedInTurn
<1>5. InTurn(r, q, c)
  BY <1>2, JoinedInTurn
<1>6. InTurn(r, s, e)
  BY <1>2, JoinedInTurn
<1> QED
  BY <1>1, <1>3, <1>4, <1>5, <1>6, Zenon DEF InTurn, FiveInTurn

\* A message has two texts without border and delimiter, and a frame of them.
LEMMA FrameProperties ==
  ASSUME NEW msg \in Messages
  PROVE  /\ msg[1] \in Seq(Letters) /\ msg[2] \in Seq(Letters) /\ msg = <<msg[1], msg[2]>>
         /\ msg[1] \in Text /\ msg[2] \in Text /\ <<Border>> \in Text /\ <<Delimiter>> \in Text
         /\ Len(msg[1]) \in Nat /\ Len(msg[2]) \in Nat
         /\ Frame(msg) \in Text /\ Len(Frame(msg)) = Len(msg[1]) + Len(msg[2]) + 3
<1>1. msg \in Seq(Letters) \X Seq(Letters)
  BY StreamAssumption
<1>2. msg[1] \in Seq(Letters) /\ msg[2] \in Seq(Letters) /\ msg = <<msg[1], msg[2]>>
  BY <1>1
<1>3. PICK t, c : t = msg[1] /\ c = msg[2]
  OBVIOUS
<1>4. Letters \subseteq Bytes /\ Border \in Bytes /\ Delimiter \in Bytes
  BY DEF Bytes
<1>5. t \in Seq(Bytes) /\ c \in Seq(Bytes)
  BY <1>2, <1>3, <1>4, SeqMonotonic
<1>6. PICK a, d : a = <<Border>> /\ d = <<Delimiter>>
  OBVIOUS
<1>7. a \in Seq(Bytes) /\ d \in Seq(Bytes) /\ Len(a) = 1 /\ Len(d) = 1
  BY <1>4, <1>6
<1>8. Len(t) \in Nat /\ Len(c) \in Nat
  BY <1>5, LenProperties
<1>9. PICK p, q, u, v : p = a \o t /\ q = p \o d /\ u = q \o c /\ v = u \o a
  OBVIOUS
<1>10. p \in Text /\ q \in Text /\ u \in Text /\ v \in Text
  BY <1>5, <1>7, <1>9, JoinedText DEF Text
<1>11. /\ Len(p) = Len(a) + Len(t) /\ Len(q) = Len(p) + Len(d)
       /\ Len(u) = Len(q) + Len(c) /\ Len(v) = Len(u) + Len(a)
  BY <1>5, <1>7, <1>9, <1>10, JoinedText DEF Text
<1>12. v \in Text /\ Len(v) = Len(t) + Len(c) + 3
  BY <1>7, <1>8, <1>10, <1>11
<1>13. Frame(msg) = v
  BY <1>3, <1>6, <1>9 DEF Frame
<1> QED
  BY <1>2, <1>3, <1>5, <1>6, <1>7, <1>8, <1>12, <1>13 DEF Text

\* addMessage puts the frame behind what is readable.
LEMMA MessageIsAdded ==
  ASSUME NEW b, IsBuffer(b), NEW msg \in Messages
  PROVE  LET w == AddMessage(b, msg)
         IN  /\ IsBuffer(w) /\ Readable(w) = Readable(b) \o Frame(msg)
             /\ GrewTo(b, w, Len(Readable(b)) + Len(Frame(msg)) + Len(Frame(msg)))
<1>1. PICK r, a, t, d, c : r = Readable(b) /\ a = <<Border>> /\ t = msg[1] /\ d = <<Delimiter>> /\ c = msg[2]
  OBVIOUS
<1>2. /\ r \in Text /\ a \in Text /\ t \in Text /\ d \in Text /\ c \in Text
      /\ Len(a) = 1 /\ Len(d) = 1 /\ Len(t) \in Nat /\ Len(c) \in Nat /\ Len(r) \in Nat
      /\ Len(Frame(msg)) = Len(t) + Len(c) + 3
  BY <1>1, FrameProperties, ReadableProperties
<1>3. PICK p, q, u, v, f : p = r \o a /\ q = p \o t /\ u = q \o d /\ v = u \o c /\ f = v \o a
  OBVIOUS
<1>4. p \in Text /\ q \in Text /\ u \in Text /\ v \in Text
  BY <1>2, <1>3, JoinedText
<1>5. /\ Len(p) = Len(r) + Len(a) /\ Len(q) = Len(p) + Len(t)
       /\ Len(u) = Len(q) + Len(d) /\ Len(v) = Len(u) + Len(c)
  <2>1. Len(p) = Len(r) + Len(a)
    BY <1>2, <1>3, JoinedText, Zenon
  <2>2. Len(q) = Len(p) + Len(t)
    BY <1>2, <1>3, <1>4, JoinedText, Zenon
  <2>3. Len(u) = Len(q) + Len(d)
    BY <1>2, <1>3, <1>4, JoinedText, Zenon
  <2>4. Len(v) = Len(u) + Len(c)
    BY <1>2, <1>3, <1>4, JoinedText, Zenon
  <2> QED
    BY <2>1, <2>2, <2>3, <2>4
<1>6. PICK b1, b2, b3, b4, b5 : /\ b1 = Appended(b, a) /\ b2 = Appended(b1, t) /\ b3 = Appended(b2, d)
                                /\ b4 = Appended(b3, c) /\ b5 = Appended(b4, a)
  OBVIOUS
<1>7. AddMessage(b, msg) = b5
  BY <1>1, <1>6 DEF AddMessage
<1>8. IsBuffer(b1) /\ Readable(b1) = p /\ GrewTo(b, b1, Len(r) + Len(a) + Len(a))
  BY <1>1, <1>2, <1>3, <1>6, AppendedProperties
<1>9. IsBuffer(b2) /\ Readable(b2) = q /\ GrewTo(b1, b2, Len(p) + Len(t) + Len(t))
  BY <1>2, <1>3, <1>6, <1>8, AppendedProperties
<1>10. IsBuffer(b3) /\ Readable(b3) = u /\ GrewTo(b2, b3, Len(q) + Len(d) + Len(d))
  BY <1>2, <1>3, <1>6, <1>9, AppendedProperties
<1>11. IsBuffer(b4) /\ Readable(b4) = v /\ GrewTo(b3, b4, Len(u) + Len(c) + Len(c))
  BY <1>2, <1>3, <1>6, <1>10, AppendedProperties
<1>12. IsBuffer(b5) /\ Readable(b5) = f /\ GrewTo(b4, b5, Len(v) + Len(a) + Len(a))
  BY <1>2, <1>3, <1>6, <1>11, AppendedProperties
<1>13. Readable(b5) = r \o Frame(msg)
  <2>1. Frame(msg) = (((a \o t) \o d) \o c) \o a
    BY <1>1 DEF Frame
  <2>2. f = ((((r \o a) \o t) \o d) \o c) \o a
    BY <1>3
  <2>3. FiveInTurn(r, a, t, d, c, a)
    BY <1>2, FiveJoined
  <2> QED
    BY <1>12, <2>1, <2>2, <2>3, Zenon DEF FiveInTurn
<1>14. GrewTo(b, b5, Len(r) + Len(Frame(msg)) + Len(Frame(msg)))
  <2>1. PICK l \in Nat : l = Len(t)
    BY <1>2
  <2>2. PICK k \in Nat : k = Len(c)
    BY <1>2
  <2>3. PICK m \in Nat : m = Len(r)
    BY <1>2
  <2>4. PICK n0, n1, n2, n3, n4, n5 : /\ n0 = Len(b.bytes) /\ n1 = Len(b1.bytes) /\ n2 = Len(b2.bytes)
                                      /\ n3 = Len(b3.bytes) /\ n4 = Len(b4.bytes) /\ n5 = Len(b5.bytes)
    OBVIOUS
  <2>5. /\ n0 \in Nat /\ n1 \in Nat /\ n2 \in Nat /\ n3 \in Nat /\ n4 \in Nat /\ n5 \in Nat
    BY <1>8, <1>9, <1>10, <1>11, <1>12, <2>4, BufferFields
  <2>6. /\ n1 = n0 \/ n1 <= m + 1 + 1
        /\ n2 = n1 \/ n2 <= m + 1 + l + l
        /\ n3 = n2 \/ n3 <= m + 1 + l + 1 + 1
        /\ n4 = n3 \/ n4 <= m + 2 + l + k + k
        /\ n5 = n4 \/ n5 <= m + 2 + l + k + 1 + 1
    BY <1>2, <1>8, <1>9, <1>10, <1>11, <1>12, <1>5, <2>1, <2>2, <2>3, <2>4 DEF GrewTo
  <2>7. n5 = n0 \/ n5 <= m + (l + k + 3) + (l + k + 3)
    BY <2>5, <2>6
  <2> QED
    BY <1>2, <2>1, <2>2, <2>3, <2>4, <2>7 DEF GrewTo
<1> QED
  BY <1>1, <1>7, <1>12, <1>13, <1>14

\* The smaller of two numbers.
LEMMA MinOfTwo ==
  ASSUME NEW a \in Int, NEW b \in Int
  PROVE  Min({a, b}) = IF a <= b THEN a ELSE b
<1>1. \E x \in {a, b} : \A y \in {a, b} : x <= y
  OBVIOUS
<1>2. Min({a, b}) \in {a, b} /\ \A y \in {a, b} : Min({a, b}) <= y
  BY <1>1 DEF Min
<1> QED
  BY <1>2

\* The larger of two numbers.
LEMMA MaxOfTwo ==
  ASSUME NEW a \in Int, NEW b \in Int
  PROVE  Max({a, b}) = IF a >= b THEN a ELSE b
<1>1. \E x \in {a, b} : \A y \in {a, b} : x >= y
  OBVIOUS
<1>2. Max({a, b}) \in {a, b} /\ \A y \in {a, b} : Max({a, b}) >= y
  BY <1>1 DEF Max
<1> QED
  BY <1>2

\* A text that is cut in two.
LEMMA TextIsCut ==
  ASSUME NEW bs \in Text, NEW n \in 0..Len(bs)
  PROVE  /\ SubSeq(bs, 1, n) \in Text /\ SubSeq(bs, n + 1, Len(bs)) \in Text
         /\ Len(SubSeq(bs, 1, n)) = n /\ Len(SubSeq(bs, n + 1, Len(bs))) = Len(bs) - n
         /\ SubSeq(bs, 1, n) \o SubSeq(bs, n + 1, Len(bs)) = bs
<1>1. bs \in Seq(Bytes) /\ Len(bs) \in Nat /\ \A i \in 1..Len(bs) : bs[i] \in Bytes
  BY LenProperties, ElementOfSeq DEF Text
<1>2. PICK m \in Nat : m = Len(bs)
  BY <1>1
<1>3. SubSeq(bs, 1, n) \in Seq(Bytes) /\ Len(SubSeq(bs, 1, n)) = n
  <2>1. \A i \in 1..n : bs[i] \in Bytes
    BY <1>1
  <2>2. 1 \in Int /\ n \in Int
    BY <1>1
  <2>3. SubSeq(bs, 1, n) \in Seq(Bytes) /\ Len(SubSeq(bs, 1, n)) = IF 1 <= n THEN n - 1 + 1 ELSE 0
    BY <2>1, <2>2, SubSeqProperties
  <2> QED
    BY <1>1, <2>3
<1>4. SubSeq(bs, n + 1, m) \in Seq(Bytes) /\ Len(SubSeq(bs, n + 1, m)) = m - n
  <2>1. \A i \in (n + 1)..m : bs[i] \in Bytes
    BY <1>1, <1>2
  <2>2. n + 1 \in Int /\ m \in Int
    BY <1>1
  <2>3. /\ SubSeq(bs, n + 1, m) \in Seq(Bytes)
        /\ Len(SubSeq(bs, n + 1, m)) = IF n + 1 <= m THEN m - (n + 1) + 1 ELSE 0
    BY <2>1, <2>2, SubSeqProperties
  <2> QED
    BY <1>1, <1>2, <2>3
<1>5. SubSeq(bs, 1, n) \o SubSeq(bs, n + 1, m) = SubSeq(bs, 1, m)
  <2>1. 1 \in 1..(Len(bs) + 1) /\ n \in 1 - 1..Len(bs) /\ m \in n..Len(bs)
    BY <1>1, <1>2
  <2> QED
    BY <1>1, <2>1, ConcatAdjacentSubSeq
<1>6. SubSeq(bs, 1, m) = bs
  BY <1>1, <1>2, SubSeqFull
<1> QED
  BY <1>2, <1>3, <1>4, <1>5, <1>6 DEF Text

\* ReadFd puts what was read behind what is readable, in the array and on the
\* stack together.
LEMMA FilledProperties ==
  ASSUME NEW b, IsBuffer(b), NEW bs \in Text
  PROVE  /\ IsBuffer(Filled(b, bs)) /\ Readable(Filled(b, bs)) = Readable(b) \o bs
         /\ GrewTo(b, Filled(b, bs), Len(Readable(b)) + Len(bs) + Len(bs))
<1>1. /\ Len(b.bytes) \in Nat /\ b.writePos \in Nat /\ b.writePos <= Len(b.bytes) /\ Len(bs) \in Nat
      /\ Readable(b) \in Text /\ Len(Readable(b)) \in Nat
  BY BufferFields, ReadableProperties, LenProperties DEF Text
<1>2. PICK n : n = Min({Len(bs), WritableBytes(b)})
  OBVIOUS
<1>3. n \in 0..Len(bs) /\ b.writePos + n <= Len(b.bytes)
  <2>1. n = IF Len(bs) <= WritableBytes(b) THEN Len(bs) ELSE WritableBytes(b)
    BY <1>1, <1>2, MinOfTwo DEF WritableBytes
  <2> QED
    BY <1>1, <2>1 DEF WritableBytes
<1>4. PICK first, rest : first = SubSeq(bs, 1, n) /\ rest = SubSeq(bs, n + 1, Len(bs))
  OBVIOUS
<1>5. first \in Text /\ rest \in Text /\ Len(first) = n /\ Len(rest) = Len(bs) - n /\ first \o rest = bs
  BY <1>3, <1>4, TextIsCut
<1>6. PICK here : here = [b EXCEPT !.bytes = Copied(@, b.writePos, first), !.writePos = @ + n]
  OBVIOUS
<1>7. IsBuffer(here) /\ Readable(here) = Readable(b) \o first /\ Len(here.bytes) = Len(b.bytes)
  <2>1. b.writePos + Len(first) <= Len(b.bytes)
    BY <1>3, <1>5
  <2>2. here = [b EXCEPT !.bytes = Copied(@, b.writePos, first), !.writePos = @ + Len(first)]
    BY <1>5, <1>6
  <2> QED
    BY <1>5, <2>1, <2>2, WrittenBehind
<1>8. Filled(b, bs) = IF n = Len(bs) THEN here ELSE Appended(here, rest)
  BY <1>2, <1>4, <1>6 DEF Filled
<1>9. CASE n = Len(bs)
  <2>1. first = bs
    BY <1>1, <1>4, <1>9, SubSeqFull DEF Text
  <2> QED
    BY <1>7, <1>8, <1>9, <2>1 DEF GrewTo
<1>10. CASE n # Len(bs)
  <2>1. Filled(b, bs) = Appended(here, rest)
    BY <1>8, <1>10
  <2>2. /\ IsBuffer(Appended(here, rest)) /\ Readable(Appended(here, rest)) = Readable(here) \o rest
        /\ GrewTo(here, Appended(here, rest), Len(Readable(here)) + Len(rest) + Len(rest))
    BY <1>5, <1>7, AppendedProperties
  <2>3. InTurn(Readable(b), first, rest)
    BY <1>1, <1>5, JoinedInTurn
  <2>4. Readable(Filled(b, bs)) = Readable(b) \o bs
    BY <1>5, <1>7, <2>1, <2>2, <2>3, Zenon DEF InTurn
  <2>5. Len(Readable(here)) = Len(Readable(b)) + n
    <3>1. Len(Readable(b) \o first) = Len(Readable(b)) + Len(first)
      BY <1>1, <1>5, JoinedText
    <3> QED
      BY <1>5, <1>7, <3>1, Zenon
  <2>6. /\ Len(Appended(here, rest).bytes) = Len(b.bytes)
           \/ Len(Appended(here, rest).bytes) <= Len(Readable(b)) + n + (Len(bs) - n) + (Len(bs) - n)
        /\ Len(Appended(here, rest).bytes) \in Nat
    BY <1>5, <1>7, <2>2, <2>5, BufferFields DEF GrewTo
  <2>7. GrewTo(b, Filled(b, bs), Len(Readable(b)) + Len(bs) + Len(bs))
    BY <1>1, <1>3, <2>1, <2>6 DEF GrewTo
  <2> QED
    BY <2>1, <2>2, <2>4, <2>7
<1> QED
  BY <1>9, <1>10

\* Retrieve takes the first n of the readable bytes.
LEMMA RetrieveProperties ==
  ASSUME NEW b, IsBuffer(b), NEW n \in 0..ReadableBytes(b)
  PROVE  LET w == Retrieve(b, n)
         IN  /\ IsBuffer(w) /\ w.bytes = b.bytes
             /\ Peek(b, n) \in Text /\ Len(Peek(b, n)) = n
             /\ Peek(b, n) \o Readable(w) = Readable(b)
             /\ Peek(b, n) = SubSeq(Readable(b), 1, n)
<1>1. /\ b.bytes \in Text /\ b.readPos \in Nat /\ b.writePos \in Nat /\ Len(b.bytes) \in Nat
      /\ b.readPos <= b.writePos /\ b.writePos <= Len(b.bytes)
  BY BufferFields
<1>2. /\ Readable(b) \in Text /\ ReadableBytes(b) \in Nat
      /\ Len(Readable(b)) = ReadableBytes(b) /\ ReadableBytes(b) = b.writePos - b.readPos
      /\ \A i \in 1..ReadableBytes(b) : Readable(b)[i] = b.bytes[b.readPos + i]
  BY ReadableProperties
<1>3. PICK first, rest : first = SubSeq(Readable(b), 1, n) /\ rest = SubSeq(Readable(b), n + 1, Len(Readable(b)))
  OBVIOUS
<1>4. first \in Text /\ rest \in Text /\ Len(first) = n /\ Len(rest) = ReadableBytes(b) - n /\ first \o rest = Readable(b)
  BY <1>2, <1>3, TextIsCut
<1>5. b \in [bytes : Text, readPos : Nat, writePos : Nat]
  BY DEF IsBuffer, Text
<1>6. Retrieve(b, n) = [bytes |-> b.bytes, readPos |-> b.readPos + n, writePos |-> b.writePos]
  <2>1. PICK p, from, upto : b = [bytes |-> p, readPos |-> from, writePos |-> upto]
    BY <1>5
  <2> QED
    BY <2>1 DEF Retrieve
<1>7. \A i \in 1..(Len(first) + Len(rest)) : (first \o rest)[i] = IF i <= Len(first) THEN first[i] ELSE rest[i - Len(first)]
  BY <1>4, ConcatProperties DEF Text
<1>8. Holding(b.bytes, b.readPos + n, rest)
  <2> SUFFICES ASSUME NEW i \in 1..Len(rest) PROVE b.bytes[b.readPos + n + i] = rest[i]
    BY DEF Holding
  <2>1. PICK j \in 1..ReadableBytes(b) : j = n + i /\ ~(j <= n) /\ j - n = i /\ b.readPos + j = b.readPos + n + i
    BY <1>1, <1>2, <1>4
  <2>2. Readable(b)[j] = rest[i]
    BY <1>2, <1>4, <1>7, <2>1
  <2> QED
    BY <1>2, <2>1, <2>2
<1>9. IsBuffer(Retrieve(b, n)) /\ Readable(Retrieve(b, n)) = rest
  <2>1. b.readPos + n \in Nat /\ b.writePos = (b.readPos + n) + Len(rest)
    BY <1>1, <1>2, <1>4
  <2> QED
    BY <1>1, <1>4, <1>6, <1>8, <2>1, HoldsText
<1>10. Peek(b, n) = first
  <2>1. Peek(b, n) = SubSeq(b.bytes, b.readPos + 1, b.readPos + n)
    BY DEF Peek
  <2>2. PICK y, lo, hi : y = b.bytes /\ lo = b.readPos + 1 /\ hi = b.readPos + n
    OBVIOUS
  <2>3. \A i \in lo..hi : y[i] \in Bytes
    BY <1>1, <1>2, <2>2, ElementOfSeq DEF Text
  <2>4. lo \in Int /\ hi \in Int
    BY <1>1, <1>2, <2>2
  <2>5. /\ SubSeq(y, lo, hi) \in Seq(Bytes) /\ Len(SubSeq(y, lo, hi)) = IF lo <= hi THEN hi - lo + 1 ELSE 0
        /\ \A i \in 1..(hi - lo + 1) : SubSeq(y, lo, hi)[i] = y[lo + i - 1]
    BY <2>3, <2>4, SubSeqProperties
  <2>6. Len(SubSeq(y, lo, hi)) = n
    BY <1>1, <1>2, <2>2, <2>5
  <2>7. ASSUME NEW i \in 1..n PROVE SubSeq(y, lo, hi)[i] = first[i]
    <3>1. i \in 1..(hi - lo + 1) /\ lo + i - 1 = b.readPos + i /\ i \in 1..ReadableBytes(b)
          /\ i \in 1..(Len(first) + Len(rest)) /\ i <= Len(first)
      <4>1. /\ b.readPos \in Nat /\ n \in Nat /\ ReadableBytes(b) \in Nat /\ n <= ReadableBytes(b)
            /\ Len(first) = n /\ Len(rest) = ReadableBytes(b) - n
            /\ lo = b.readPos + 1 /\ hi = b.readPos + n
        BY <1>1, <1>2, <1>4, <2>2
      <4>2. i \in Nat /\ 1 <= i /\ i <= n
        BY <4>1
      <4>3. i \in 1..(hi - lo + 1)
        BY <4>1, <4>2
      <4>4. lo + i - 1 = b.readPos + i
        BY <4>1, <4>2
      <4>5. i \in 1..ReadableBytes(b)
        BY <4>1, <4>2
      <4>6. i \in 1..(Len(first) + Len(rest))
        BY <4>1, <4>2
      <4> QED
        BY <4>1, <4>2, <4>3, <4>4, <4>5, <4>6
    <3>2. SubSeq(y, lo, hi)[i] = b.bytes[b.readPos + i]
      BY <2>2, <2>5, <3>1
    <3>3. first[i] = Readable(b)[i]
      BY <1>4, <1>7, <3>1
    <3> QED
      BY <1>2, <3>1, <3>2, <3>3
  <2>8. SubSeq(y, lo, hi) = first
    BY <1>4, <2>5, <2>6, <2>7, SeqEqual DEF Text
  <2> QED
    BY <2>1, <2>2, <2>8
<1>11. Retrieve(b, n).bytes = b.bytes
  BY <1>6
<1>12. Peek(b, n) \o Readable(Retrieve(b, n)) = Readable(b)
  BY <1>4, <1>9, <1>10, Zenon
<1> QED
  BY <1>3, <1>4, <1>9, <1>10, <1>11, <1>12, Zenon

-----------------------------------------------------------------------------
(* Frames, and what getMessage finds.                                      *)

\* What stands where in a frame.
Spelled(f, t, c) ==
  /\ f[1] = Border /\ f[Len(t) + 2] = Delimiter /\ f[Len(t) + Len(c) + 3] = Border
  /\ \A i \in 1..Len(t) : f[i + 1] = t[i]
  /\ \A i \in 1..Len(c) : f[Len(t) + 2 + i] = c[i]

\* The border, the title, the delimiter, the content and the border again.
LEMMA FrameIsSpelled ==
  ASSUME NEW msg \in Messages
  PROVE  Spelled(Frame(msg), msg[1], msg[2])
<1>1. PICK t, c : t = msg[1] /\ c = msg[2]
  OBVIOUS
<1>2. PICK a, d : a = <<Border>> /\ d = <<Delimiter>>
  OBVIOUS
<1>3. t \in Seq(Bytes) /\ c \in Seq(Bytes) /\ a \in Seq(Bytes) /\ d \in Seq(Bytes) /\ Len(t) \in Nat /\ Len(c) \in Nat
  BY <1>1, <1>2, FrameProperties DEF Text
<1>4. Len(a) = 1 /\ Len(d) = 1 /\ a[1] = Border /\ d[1] = Delimiter
  BY <1>2
<1>5. PICK p, q, u, v : p = a \o t /\ q = p \o d /\ u = q \o c /\ v = u \o a
  OBVIOUS
<1>6. Frame(msg) = v
  BY <1>1, <1>2, <1>5 DEF Frame
<1>7. PICK k \in Nat, l \in Nat : k = Len(t) /\ l = Len(c)
  BY <1>3
<1>8. /\ p \in Seq(Bytes) /\ Len(p) = k + 1
      /\ \A i \in 1..(k + 1) : p[i] = IF i <= 1 THEN a[i] ELSE t[i - 1]
  <2>1. /\ p \in Seq(Bytes) /\ Len(p) = Len(a) + Len(t)
        /\ \A i \in 1..(Len(a) + Len(t)) : p[i] = IF i <= Len(a) THEN a[i] ELSE t[i - Len(a)]
    BY <1>3, <1>5, ConcatProperties
  <2>2. Len(a) + Len(t) = k + 1 /\ Len(a) = 1
    BY <1>4, <1>7
  <2> QED
    BY <2>1, <2>2, Zenon
<1>9. /\ q \in Seq(Bytes) /\ Len(q) = k + 2
      /\ \A i \in 1..(k + 2) : q[i] = IF i <= k + 1 THEN p[i] ELSE d[i - (k + 1)]
  <2>1. /\ q \in Seq(Bytes) /\ Len(q) = Len(p) + Len(d)
        /\ \A i \in 1..(Len(p) + Len(d)) : q[i] = IF i <= Len(p) THEN p[i] ELSE d[i - Len(p)]
    <3>1. p \in Seq(Bytes) /\ d \in Seq(Bytes)
      BY <1>3, <1>8
    <3>2. q = p \o d
      BY <1>5
    <3> QED
      BY <3>1, <3>2, ConcatProperties
  <2>2. Len(p) + Len(d) = k + 2 /\ Len(p) = k + 1
    BY <1>4, <1>8
  <2> QED
    BY <2>1, <2>2, Zenon
<1>10. /\ u \in Seq(Bytes) /\ Len(u) = k + 2 + l
       /\ \A i \in 1..(k + 2 + l) : u[i] = IF i <= k + 2 THEN q[i] ELSE c[i - (k + 2)]
  <2>1. /\ u \in Seq(Bytes) /\ Len(u) = Len(q) + Len(c)
        /\ \A i \in 1..(Len(q) + Len(c)) : u[i] = IF i <= Len(q) THEN q[i] ELSE c[i - Len(q)]
    <3>1. q \in Seq(Bytes) /\ c \in Seq(Bytes)
      BY <1>3, <1>9
    <3>2. u = q \o c
      BY <1>5
    <3> QED
      BY <3>1, <3>2, ConcatProperties
  <2>2. Len(q) + Len(c) = k + 2 + l /\ Len(q) = k + 2
    BY <1>7, <1>9
  <2> QED
    BY <2>1, <2>2, Zenon
<1>11. /\ Len(v) = k + 2 + l + 1
       /\ \A i \in 1..(k + 2 + l + 1) : v[i] = IF i <= k + 2 + l THEN u[i] ELSE a[i - (k + 2 + l)]
  <2>1. /\ Len(v) = Len(u) + Len(a)
        /\ \A i \in 1..(Len(u) + Len(a)) : v[i] = IF i <= Len(u) THEN u[i] ELSE a[i - Len(u)]
    <3>1. u \in Seq(Bytes) /\ a \in Seq(Bytes)
      BY <1>3, <1>10
    <3>2. v = u \o a
      BY <1>5
    <3> QED
      BY <3>1, <3>2, ConcatProperties
  <2>2. Len(u) + Len(a) = k + 2 + l + 1 /\ Len(u) = k + 2 + l
    BY <1>4, <1>10
  <2> QED
    BY <2>1, <2>2, Zenon
<1>12. v[1] = Border
  <2>1. v[1] = u[1]
    BY <1>11
  <2>2. u[1] = q[1]
    BY <1>10
  <2>3. q[1] = p[1]
    BY <1>9
  <2>4. p[1] = a[1]
    BY <1>8
  <2> QED
    BY <1>4, <2>1, <2>2, <2>3, <2>4
<1>13. v[k + 2] = Delimiter
  <2>1. v[k + 2] = u[k + 2]
    BY <1>11
  <2>2. u[k + 2] = q[k + 2]
    BY <1>10
  <2>3. q[k + 2] = d[1]
    BY <1>9
  <2> QED
    BY <1>4, <2>1, <2>2, <2>3
<1>14. v[k + l + 3] = Border
  <2>1. k + l + 3 \in 1..(k + 2 + l + 1) /\ ~(k + l + 3 <= k + 2 + l) /\ (k + l + 3) - (k + 2 + l) = 1
    OBVIOUS
  <2>2. v[k + l + 3] = a[(k + l + 3) - (k + 2 + l)]
    BY <1>11, <2>1, Zenon
  <2> QED
    BY <1>4, <2>1, <2>2
<1>15. ASSUME NEW i \in 1..k PROVE v[i + 1] = t[i]
  <2>0. /\ i + 1 \in 1..(k + 2 + l + 1) /\ i + 1 <= k + 2 + l /\ i + 1 \in 1..(k + 2 + l) /\ i + 1 <= k + 2
        /\ i + 1 \in 1..(k + 2) /\ i + 1 <= k + 1 /\ i + 1 \in 1..(k + 1) /\ ~(i + 1 <= 1) /\ (i + 1) - 1 = i
    OBVIOUS
  <2>1. v[i + 1] = u[i + 1]
    BY <1>11, <2>0, Zenon
  <2>2. u[i + 1] = q[i + 1]
    BY <1>10, <2>0, Zenon
  <2>3. q[i + 1] = p[i + 1]
    BY <1>9, <2>0, Zenon
  <2>4. p[i + 1] = t[(i + 1) - 1]
    BY <1>8, <2>0, Zenon
  <2> QED
    BY <2>0, <2>1, <2>2, <2>3, <2>4
<1>16. ASSUME NEW i \in 1..l PROVE v[k + 2 + i] = c[i]
  <2>0. /\ k + 2 + i \in 1..(k + 2 + l + 1) /\ k + 2 + i <= k + 2 + l /\ k + 2 + i \in 1..(k + 2 + l)
        /\ ~(k + 2 + i <= k + 2) /\ (k + 2 + i) - (k + 2) = i
    OBVIOUS
  <2>1. v[k + 2 + i] = u[k + 2 + i]
    BY <1>11, <2>0, Zenon
  <2>2. u[k + 2 + i] = c[(k + 2 + i) - (k + 2)]
    BY <1>10, <2>0, Zenon
  <2> QED
    BY <2>0, <2>1, <2>2
<1> QED
  BY <1>1, <1>6, <1>7, <1>12, <1>13, <1>14, <1>15, <1>16, Zenon DEF Spelled

\* Between the first and the last byte of a frame there is no border, and no
\* delimiter in front of the one that follows the title.
LEMMA NoBorderWithin ==
  ASSUME NEW msg \in Messages
  PROVE  /\ \A i \in 2..(Len(Frame(msg)) - 1) : Frame(msg)[i] # Border
         /\ \A i \in 1..Len(msg[1]) : Frame(msg)[i + 1] # Delimiter
<1>1. PICK f, t, c : f = Frame(msg) /\ t = msg[1] /\ c = msg[2]
  OBVIOUS
<1>2. Len(t) \in Nat /\ Len(c) \in Nat /\ Len(f) = Len(t) + Len(c) + 3
  BY <1>1, FrameProperties
<1>3. Spelled(f, t, c)
  BY <1>1, FrameIsSpelled
<1>4. \A i \in 1..Len(t) : t[i] # Border /\ t[i] # Delimiter
  BY <1>1, FrameProperties, ElementOfSeq, BufferAssumption
<1>5. \A i \in 1..Len(c) : c[i] # Border
  BY <1>1, FrameProperties, ElementOfSeq, BufferAssumption
<1>6. ASSUME NEW i \in 2..(Len(f) - 1) PROVE f[i] # Border
  <2>1. CASE i = Len(t) + 2
    BY <1>3, <2>1 DEF Spelled, Border, Delimiter
  <2>2. CASE i < Len(t) + 2
    <3>1. PICK j \in 1..Len(t) : i = j + 1
      BY <1>2, <2>2
    <3> QED
      BY <1>3, <1>4, <3>1 DEF Spelled
  <2>3. CASE i > Len(t) + 2
    <3>1. i - (Len(t) + 2) \in 1..Len(c) /\ i = Len(t) + 2 + (i - (Len(t) + 2))
      BY <1>2, <2>3
    <3>2. PICK j \in 1..Len(c) : i = Len(t) + 2 + j
      BY <3>1
    <3> QED
      BY <1>3, <1>5, <3>2 DEF Spelled
  <2> QED
    BY <1>2, <2>1, <2>2, <2>3
<1>7. \A i \in 1..Len(t) : f[i + 1] # Delimiter
  BY <1>3, <1>4 DEF Spelled
<1> QED
  BY <1>1, <1>6, <1>7

\* The members of two texts in the text they make together.
Split(v, x, y) ==
  /\ \A i \in 1..Len(x) : v[i] = x[i]
  /\ \A i \in 1..Len(y) : v[Len(x) + i] = y[i]

\* Two texts are found again in what they make together.
LEMMA JoinedParts ==
  ASSUME NEW x \in Text, NEW y \in Text
  PROVE  Split(x \o y, x, y)
<1>1. x \in Seq(Bytes) /\ y \in Seq(Bytes)
  BY DEF Text
<1>2. PICK v : v = x \o y
  OBVIOUS
<1>3. \A i \in 1..(Len(x) + Len(y)) : v[i] = IF i <= Len(x) THEN x[i] ELSE y[i - Len(x)]
  BY <1>1, <1>2, ConcatProperties
<1>4. PICK k \in Nat, l \in Nat : k = Len(x) /\ l = Len(y)
  BY <1>1, LenProperties
<1>5. ASSUME NEW i \in 1..k PROVE v[i] = x[i]
  <2>1. i \in 1..(k + l) /\ i <= k
    OBVIOUS
  <2> QED
    BY <1>3, <1>4, <2>1, Zenon
<1>6. ASSUME NEW i \in 1..l PROVE v[k + i] = y[i]
  <2>1. k + i \in 1..(k + l) /\ ~(k + i <= k) /\ (k + i) - k = i
    OBVIOUS
  <2>2. v[k + i] = y[(k + i) - k]
    BY <1>3, <1>4, <2>1, Zenon
  <2> QED
    BY <2>1, <2>2, Zenon
<1> QED
  BY <1>2, <1>4, <1>5, <1>6, Zenon DEF Split

\* Bytes of a frame from where a buffer is read on.
Starts(b, f, n) == \A i \in 1..n : b.bytes[b.readPos + i] = f[i]

\* The test for the left border sees the first readable byte.
LEMMA FirstByteSeen ==
  ASSUME NEW b, IsBuffer(b), ReadableBytes(b) # 0, b.bytes[b.readPos + 1] = Border
  PROVE  Peek(b, 1) = <<Border>>
<1>1. ReadableBytes(b) \in Nat /\ Readable(b) \in Text /\ Len(Readable(b)) = ReadableBytes(b)
  BY ReadableProperties
<1>2. 1 \in 0..ReadableBytes(b)
  BY <1>1
<1>3. Peek(b, 1) \in Text /\ Len(Peek(b, 1)) = 1
  BY <1>2, RetrieveProperties
<1>4. b.bytes \in Text /\ b.readPos \in Nat /\ b.writePos \in Nat /\ Len(b.bytes) \in Nat
      /\ b.readPos <= b.writePos /\ b.writePos <= Len(b.bytes) /\ b.writePos # b.readPos
  BY BufferFields DEF ReadableBytes
<1>5. Peek(b, 1)[1] = b.bytes[b.readPos + 1]
  <2>1. PICK y, lo : y = b.bytes /\ lo = b.readPos + 1
    OBVIOUS
  <2>2. \A i \in lo..lo : y[i] \in Bytes
    BY <1>4, <2>1, ElementOfSeq DEF Text
  <2>3. lo \in Int /\ lo - lo + 1 = 1 /\ lo + 1 - 1 = lo
    BY <1>4, <2>1
  <2>4. \A i \in 1..(lo - lo + 1) : SubSeq(y, lo, lo)[i] = y[lo + i - 1]
    BY <2>2, <2>3, SubSeqProperties
  <2>5. SubSeq(y, lo, lo)[1] = y[lo]
    BY <2>3, <2>4
  <2> QED
    BY <2>1, <2>5 DEF Peek
<1>6. Border \in Bytes
  BY DEF Bytes
<1>7. PICK p : p = Peek(b, 1)
  OBVIOUS
<1>8. p \in Seq(Bytes) /\ Len(p) = 1 /\ p[1] = Border
  BY <1>3, <1>5, <1>7 DEF Text
<1>9. p = <<Border>>
  <2>1. <<Border>> \in Seq(Bytes) /\ Len(<<Border>>) = 1
    BY <1>6
  <2>2. \A i \in 1..Len(p) : p[i] = <<Border>>[i]
    BY <1>8
  <2> QED
    BY <1>8, <2>1, <2>2, SeqEqual
<1> QED
  BY <1>7, <1>9

\* The loop that looks for the right border of a frame that is there stops at it.
LEMMA StopsAtBorder ==
  ASSUME NEW b, IsBuffer(b), NEW msg \in Messages,
         Len(Frame(msg)) <= ReadableBytes(b), Starts(b, Frame(msg), Len(Frame(msg)))
  PROVE  StopPos(b) = b.readPos + Len(Frame(msg)) - 1
<1>1. PICK f, n, r, w, y : f = Frame(msg) /\ n = Len(f) /\ r = b.readPos /\ w = b.writePos /\ y = b.bytes
  OBVIOUS
<1>2. n \in Nat /\ n >= 3
  <2>1. /\ Len(msg[1]) \in Nat /\ Len(msg[2]) \in Nat
        /\ Len(Frame(msg)) = Len(msg[1]) + Len(msg[2]) + 3
    BY FrameProperties
  <2>2. n = Len(Frame(msg))
    BY <1>1, Zenon
  <2>3. PICK k \in Nat, l \in Nat : k = Len(msg[1]) /\ l = Len(msg[2])
    BY <2>1, Zenon
  <2>4. n = k + l + 3
    BY <2>1, <2>2, <2>3, Zenon
  <2> QED
    BY <2>4
<1>3. r \in Nat /\ w \in Nat /\ r + n <= w
  <2>1. b.readPos \in Nat /\ b.writePos \in Nat /\ Len(Frame(msg)) <= b.writePos - b.readPos
    BY BufferFields DEF ReadableBytes
  <2>2. r \in Nat /\ w \in Nat /\ n <= w - r
    BY <1>1, <2>1, Zenon
  <2> QED
    BY <1>2, <2>2
<1>4. f[n] = Border
  BY <1>1, <1>2, FrameIsSpelled, FrameProperties DEF Spelled
<1>5. \A i \in 2..(n - 1) : f[i] # Border
  BY <1>1, NoBorderWithin
<1>6. \A i \in 1..n : y[r + i] = f[i]
  BY <1>1 DEF Starts
<1>7. PICK borders : borders = {p \in (r + 1)..(w - 1) : y[p + 1] = Border}
  OBVIOUS
<1>8. PICK s : s = r + n - 1
  OBVIOUS
<1>9. s \in borders
  <2>1. s + 1 = r + n /\ s \in (r + 1)..(w - 1) /\ n \in 1..n
    <3>1. n \in Nat /\ n >= 3 /\ r \in Nat /\ w \in Nat /\ r + n <= w /\ s = r + n - 1
      BY <1>2, <1>3, <1>8
    <3> QED
      BY <3>1
  <2>2. y[s + 1] = Border
    BY <1>4, <1>6, <2>1
  <2> QED
    BY <1>7, <2>1, <2>2
<1>10. ASSUME NEW p \in borders PROVE p \in Int /\ s <= p
  <2>1. p \in (r + 1)..(w - 1) /\ y[p + 1] = Border
    BY <1>7
  <2>2. p \in Int
    BY <1>3, <2>1
  <2>3. CASE p < s
    <3>1. PICK i \in 1..n : i \in 2..(n - 1) /\ r + i = p + 1
      <4>1. p + 1 - r \in 1..n /\ p + 1 - r \in 2..(n - 1) /\ r + (p + 1 - r) = p + 1
        <5>1. /\ n \in Nat /\ r \in Nat /\ w \in Nat /\ r + n <= w /\ s = r + n - 1
              /\ p \in Int /\ p < s /\ r + 1 <= p
          <6>1. n \in Nat /\ r \in Nat /\ w \in Nat /\ r + n <= w
            BY <1>2, <1>3
          <6>2. p \in Int /\ r + 1 <= p
            BY <2>1, <2>2, <6>1
          <6> QED
            BY <1>8, <2>3, <6>1, <6>2, Zenon
        <5> QED
          BY <5>1
      <4> QED
        BY <4>1
    <3>2. f[i] = Border
      BY <1>6, <2>1, <3>1
    <3> QED
      BY <1>5, <3>1, <3>2
  <2>4. s \in Int
    BY <1>2, <1>3, <1>8
  <2> QED
    BY <2>2, <2>3, <2>4
<1>11. PICK x : x = CHOOSE p \in borders : \A q \in borders : p <= q
  OBVIOUS
<1>12. x \in borders /\ \A q \in borders : x <= q
  BY <1>9, <1>10, <1>11
<1>13. x = s
  <2>1. x <= s /\ s <= x /\ x \in Int /\ s \in Int
    BY <1>9, <1>10, <1>12
  <2> QED
    BY <2>1
<1>14. borders # {}
  BY <1>9
<1>15. borders = {p \in (b.readPos + 1)..(b.writePos - 1) : b.bytes[p + 1] = Border}
  BY <1>1, <1>7, Zenon
<1>16. StopPos(b) = x
  <2>1. StopPos(b) = IF borders = {} THEN b.writePos ELSE CHOOSE p \in borders : \A q \in borders : p <= q
    BY <1>15 DEF StopPos
  <2> QED
    BY <1>11, <1>14, <2>1, Zenon
<1> QED
  BY <1>1, <1>8, <1>13, <1>16, Zenon

\* When less than a frame is there, it stops behind the readable bytes.
LEMMA StopsBehind ==
  ASSUME NEW b, IsBuffer(b), NEW msg \in Messages,
         ReadableBytes(b) < Len(Frame(msg)), Starts(b, Frame(msg), ReadableBytes(b))
  PROVE  StopPos(b) = b.writePos
<1>1. PICK f, n, r, w, y : f = Frame(msg) /\ n = Len(f) /\ r = b.readPos /\ w = b.writePos /\ y = b.bytes
  OBVIOUS
<1>2. n \in Nat
  BY <1>1, FrameProperties
<1>3. r \in Nat /\ w \in Nat /\ r <= w /\ w - r < n /\ ReadableBytes(b) = w - r
  BY <1>1, BufferFields DEF ReadableBytes
<1>4. \A i \in 2..(n - 1) : f[i] # Border
  BY <1>1, NoBorderWithin
<1>5. \A i \in 1..(w - r) : y[r + i] = f[i]
  BY <1>1, <1>3 DEF Starts
<1>6. ASSUME NEW p \in (r + 1)..(w - 1) PROVE y[p + 1] # Border
  <2>1. PICK i \in 1..(w - r) : i \in 2..(n - 1) /\ r + i = p + 1
    <3>1. p + 1 - r \in 1..(w - r) /\ p + 1 - r \in 2..(n - 1) /\ r + (p + 1 - r) = p + 1
      BY <1>2, <1>3
    <3> QED
      BY <3>1
  <2> QED
    BY <1>4, <1>5, <2>1
<1>7. {p \in (b.readPos + 1)..(b.writePos - 1) : b.bytes[p + 1] = Border} = {}
  BY <1>1, <1>6, Zenon
<1> QED
  BY <1>7, Zenon DEF StopPos

\* A piece of an array that holds a text is that text.
LEMMA PieceIsText ==
  ASSUME NEW y \in Text, NEW lo \in Nat, NEW t \in Text, lo + Len(t) <= Len(y), Holding(y, lo, t)
  PROVE  SubSeq(y, lo + 1, lo + Len(t)) = t
<1>1. Len(t) \in Nat /\ Len(y) \in Nat
  BY LenProperties DEF Text
<1>2. PICK n \in Nat : n = Len(t)
  BY <1>1
<1>3. PICK p, from, upto : p = SubSeq(y, from, upto) /\ from = lo + 1 /\ upto = lo + n
  OBVIOUS
<1>4. from \in Int /\ upto \in Int /\ \A i \in from..upto : y[i] \in Bytes
  <2>1. \A i \in 1..Len(y) : y[i] \in Bytes
    BY ElementOfSeq DEF Text
  <2> QED
    BY <1>1, <1>2, <1>3, <2>1
<1>5. /\ p \in Seq(Bytes) /\ Len(p) = IF from <= upto THEN upto - from + 1 ELSE 0
      /\ \A i \in 1..(upto - from + 1) : p[i] = y[from + i - 1]
  BY <1>3, <1>4, SubSeqProperties
<1>6. Len(p) = n
  BY <1>3, <1>5
<1>7. ASSUME NEW i \in 1..n PROVE p[i] = t[i]
  <2>1. i \in 1..(upto - from + 1) /\ from + i - 1 = lo + i
    BY <1>3
  <2>2. p[i] = y[from + i - 1]
    BY <1>5, <2>1, Zenon
  <2>3. y[lo + i] = t[i]
    BY <1>2, Zenon DEF Holding
  <2> QED
    BY <2>1, <2>2, <2>3, Zenon
<1>8. p = t
  BY <1>2, <1>5, <1>6, <1>7, SeqEqual DEF Text
<1> QED
  BY <1>2, <1>3, <1>8, Zenon

\* A text that is a title, a delimiter and a content.
Parted(text, t, c) ==
  /\ Len(text) = Len(t) + 1 + Len(c)
  /\ Holding(text, 0, t) /\ text[Len(t) + 1] = Delimiter /\ Holding(text, Len(t) + 1, c)

\* Such a text is cut at its first delimiter into the title and the content.
LEMMA TextIsParted ==
  ASSUME NEW text \in Text, NEW t \in Text, NEW c \in Text, Parted(text, t, c),
         \A i \in 1..Len(t) : t[i] # Delimiter
  PROVE  Contains(text, Delimiter) /\ TitleAndContent(text) = <<t, c>>
<1>1. PICK k \in Nat, l \in Nat : k = Len(t) /\ l = Len(c)
  BY LenProperties DEF Text
<1>2. Len(text) = k + 1 + l /\ text[k + 1] = Delimiter
  BY <1>1 DEF Parted
<1>3. \A i \in 1..k : text[i] # Delimiter
  <2>1. \A i \in 1..k : text[0 + i] = t[i]
    BY <1>1 DEF Parted, Holding
  <2> QED
    BY <1>1, <2>1
<1>4. k + 1 \in 1..Len(text)
  BY <1>2
<1>5. Contains(text, Delimiter)
  BY <1>2, <1>4 DEF Contains
<1>6. FirstDelimiter(text) = k + 1
  <2>1. PICK x : x = FirstDelimiter(text)
    OBVIOUS
  <2>2. \A i \in 1..((k + 1) - 1) : text[i] # Delimiter
    BY <1>3
  <2>3. \E j \in 1..Len(text) : text[j] = Delimiter /\ \A i \in 1..(j - 1) : text[i] # Delimiter
    BY <1>2, <1>4, <2>2
  <2>4. x \in 1..Len(text) /\ text[x] = Delimiter /\ \A i \in 1..(x - 1) : text[i] # Delimiter
    BY <2>1, <2>3 DEF FirstDelimiter
  <2>5. x \in Int /\ 1 <= x
    BY <1>2, <2>4
  <2>6. ~(x < k + 1)
    BY <1>3, <2>4, <2>5
  <2>7. ~(x > k + 1)
    <3> SUFFICES ASSUME x > k + 1 PROVE FALSE
      OBVIOUS
    <3>1. k + 1 \in 1..(x - 1)
      BY <2>5
    <3> QED
      BY <1>2, <2>4, <3>1
  <2> QED
    BY <2>1, <2>5, <2>6, <2>7
<1>7. SubSeq(text, 1, k) = t
  <2>1. 0 + Len(t) <= Len(text) /\ 0 + 1 = 1 /\ 0 + Len(t) = k
    BY <1>1, <1>2
  <2>2. Holding(text, 0, t)
    BY DEF Parted
  <2> QED
    BY <2>1, <2>2, PieceIsText
<1>8. SubSeq(text, k + 2, Len(text)) = c
  <2>1. (k + 1) + Len(c) <= Len(text) /\ (k + 1) + 1 = k + 2 /\ (k + 1) + Len(c) = Len(text) /\ k + 1 \in Nat
    BY <1>1, <1>2
  <2>2. Holding(text, k + 1, c)
    BY <1>1 DEF Parted
  <2> QED
    BY <2>1, <2>2, PieceIsText
<1>9. TitleAndContent(text) = <<t, c>>
  <2>1. TitleAndContent(text) = <<SubSeq(text, 1, (k + 1) - 1), SubSeq(text, (k + 1) + 1, Len(text))>>
    BY <1>6, Zenon DEF TitleAndContent
  <2>2. (k + 1) - 1 = k /\ (k + 1) + 1 = k + 2
    OBVIOUS
  <2> QED
    BY <1>7, <1>8, <2>1, <2>2, Zenon
<1> QED
  BY <1>5, <1>9

\* What stands between the borders of a frame is its message.
LEMMA MessageIsRead ==
  ASSUME NEW b, IsBuffer(b), NEW msg \in Messages,
         Len(Frame(msg)) <= ReadableBytes(b), Starts(b, Frame(msg), Len(Frame(msg)))
  PROVE  LET text == SubSeq(b.bytes, b.readPos + 2, b.readPos + Len(Frame(msg)) - 1)
         IN  Contains(text, Delimiter) /\ TitleAndContent(text) = msg
<1>1. PICK f, t, c, y, r : f = Frame(msg) /\ t = msg[1] /\ c = msg[2] /\ y = b.bytes /\ r = b.readPos
  OBVIOUS
<1>2. /\ f \in Text /\ t \in Text /\ c \in Text /\ Len(t) \in Nat /\ Len(c) \in Nat
      /\ Len(f) = Len(t) + Len(c) + 3 /\ msg = <<t, c>>
  <2>1. /\ Frame(msg) \in Text /\ msg[1] \in Text /\ msg[2] \in Text /\ Len(msg[1]) \in Nat /\ Len(msg[2]) \in Nat
        /\ Len(Frame(msg)) = Len(msg[1]) + Len(msg[2]) + 3 /\ msg = <<msg[1], msg[2]>>
    BY FrameProperties
  <2> QED
    BY <1>1, <2>1, Zenon
<1>3. PICK k \in Nat, l \in Nat : k = Len(t) /\ l = Len(c)
  BY <1>2
<1>4. Len(f) = k + l + 3
  BY <1>2, <1>3
<1>5. y \in Text /\ r \in Nat /\ Len(y) \in Nat /\ r + (k + l + 3) <= Len(y)
  <2>1. /\ b.bytes \in Text /\ b.readPos \in Nat /\ b.writePos \in Nat /\ Len(b.bytes) \in Nat
        /\ b.writePos <= Len(b.bytes) /\ Len(Frame(msg)) <= b.writePos - b.readPos
    BY BufferFields DEF ReadableBytes
  <2>2. y \in Text /\ r \in Nat /\ Len(y) \in Nat
    BY <1>1, <2>1, Zenon
  <2>3. k + l + 3 <= b.writePos - r /\ b.writePos <= Len(y) /\ b.writePos \in Nat
    BY <1>1, <1>4, <2>1, Zenon
  <2> QED
    BY <2>2, <2>3
<1>6. \A i \in 1..(k + l + 3) : y[r + i] = f[i]
  BY <1>1, <1>4, Zenon DEF Starts
<1>7. PICK m, text : m = k + 1 + l /\ text = SubSeq(y, r + 2, r + (k + l + 3) - 1)
  OBVIOUS
<1>8. text \in Text /\ Len(text) = m /\ \A i \in 1..m : text[i] = f[i + 1]
  <2>1. PICK from, upto : from = r + 2 /\ upto = r + (k + l + 3) - 1
    OBVIOUS
  <2>2. from \in Int /\ upto \in Int /\ \A i \in from..upto : y[i] \in Bytes
    <3>1. \A i \in 1..Len(y) : y[i] \in Bytes
      BY <1>5, ElementOfSeq DEF Text
    <3> QED
      BY <1>5, <2>1, <3>1
  <2>3. text = SubSeq(y, from, upto)
    BY <1>7, <2>1, Zenon
  <2>4. /\ text \in Seq(Bytes) /\ Len(text) = IF from <= upto THEN upto - from + 1 ELSE 0
        /\ \A i \in 1..(upto - from + 1) : text[i] = y[from + i - 1]
    BY <2>2, <2>3, SubSeqProperties
  <2>5. Len(text) = m
    BY <1>5, <1>7, <2>1, <2>4
  <2>6. ASSUME NEW i \in 1..m PROVE text[i] = f[i + 1]
    <3>1. i \in 1..(upto - from + 1) /\ from + i - 1 = r + (i + 1) /\ i + 1 \in 1..(k + l + 3)
      BY <1>5, <1>7, <2>1
    <3>2. text[i] = y[from + i - 1]
      BY <2>4, <3>1, Zenon
    <3>3. y[r + (i + 1)] = f[i + 1]
      BY <1>6, <3>1, Zenon
    <3> QED
      BY <3>1, <3>2, <3>3, Zenon
  <2> QED
    BY <2>4, <2>5, <2>6 DEF Text
<1>9. Spelled(f, t, c)
  BY <1>1, FrameIsSpelled
<1>10. Parted(text, t, c)
  <2>1. Len(text) = Len(t) + 1 + Len(c)
    BY <1>3, <1>7, <1>8
  <2>2. ASSUME NEW i \in 1..k PROVE text[0 + i] = t[i]
    <3>1. i \in 1..m /\ 0 + i = i
      BY <1>7
    <3>2. f[i + 1] = t[i]
      BY <1>3, <1>9, Zenon DEF Spelled
    <3> QED
      BY <1>8, <3>1, <3>2
  <2>3. text[k + 1] = Delimiter
    <3>1. k + 1 \in 1..m /\ (k + 1) + 1 = k + 2
      BY <1>7
    <3>2. f[k + 2] = Delimiter
      BY <1>3, <1>9 DEF Spelled
    <3> QED
      BY <1>8, <3>1, <3>2
  <2>4. ASSUME NEW i \in 1..l PROVE text[k + 1 + i] = c[i]
    <3>1. k + 1 + i \in 1..m /\ (k + 1 + i) + 1 = k + 2 + i
      BY <1>7
    <3>2. f[k + 2 + i] = c[i]
      BY <1>3, <1>9, Zenon DEF Spelled
    <3> QED
      BY <1>8, <3>1, <3>2
  <2> QED
    BY <1>3, <2>1, <2>2, <2>3, <2>4, Zenon DEF Parted, Holding
<1>11. \A i \in 1..Len(t) : t[i] # Delimiter
  BY <1>1, <1>2, FrameProperties, ElementOfSeq, BufferAssumption
<1>12. Contains(text, Delimiter) /\ TitleAndContent(text) = <<t, c>>
  BY <1>2, <1>8, <1>10, <1>11, TextIsParted
<1>13. SubSeq(b.bytes, b.readPos + 2, b.readPos + Len(Frame(msg)) - 1) = text
  BY <1>1, <1>4, <1>7, Zenon
<1> QED
  BY <1>2, <1>12, <1>13, Zenon

\* A whole frame in front of the readable bytes: its message is found, and
\* what follows it stays.
LEMMA MessageIsFound ==
  ASSUME NEW b, IsBuffer(b), NEW msg \in Messages, NEW more \in Text,
         Readable(b) = Frame(msg) \o more
  PROVE  \E w : /\ GetMessage(b) = {Outcome(0, w, msg)}
                /\ IsBuffer(w) /\ w.bytes = b.bytes /\ Readable(w) = more
<1>1. PICK f, n : f = Frame(msg) /\ n = Len(f)
  OBVIOUS
<1>2. f \in Text /\ n \in Nat /\ n >= 3
  <2>1. /\ Frame(msg) \in Text /\ Len(msg[1]) \in Nat /\ Len(msg[2]) \in Nat
        /\ Len(Frame(msg)) = Len(msg[1]) + Len(msg[2]) + 3
    BY FrameProperties
  <2>2. PICK k \in Nat, l \in Nat : k = Len(msg[1]) /\ l = Len(msg[2])
    BY <2>1, Zenon
  <2>3. f \in Text /\ n = k + l + 3
    BY <1>1, <2>1, <2>2, Zenon
  <2> QED
    BY <2>3
<1>3. Readable(b) = f \o more
  BY <1>1, Zenon
<1>4. /\ Readable(b) \in Text /\ ReadableBytes(b) \in Nat /\ Len(Readable(b)) = ReadableBytes(b)
      /\ \A i \in 1..ReadableBytes(b) : Readable(b)[i] = b.bytes[b.readPos + i]
  BY ReadableProperties
<1>5. ReadableBytes(b) = n + Len(more) /\ Len(more) \in Nat
  <2>1. Len(f \o more) = Len(f) + Len(more) /\ Len(more) \in Nat
    BY <1>2, JoinedText
  <2> QED
    BY <1>1, <1>3, <1>4, <2>1, Zenon
<1>6. n <= ReadableBytes(b) /\ n \in 0..ReadableBytes(b) /\ ReadableBytes(b) # 0
  BY <1>2, <1>5
<1>7. Starts(b, f, n)
  <2> SUFFICES ASSUME NEW i \in 1..n PROVE b.bytes[b.readPos + i] = f[i]
    BY DEF Starts
  <2>1. Split(f \o more, f, more)
    BY <1>2, JoinedParts
  <2>2. Readable(b)[i] = f[i]
    BY <1>1, <1>3, <2>1, Zenon DEF Split
  <2>3. i \in 1..ReadableBytes(b)
    BY <1>2, <1>4, <1>6
  <2> QED
    BY <1>4, <2>2, <2>3
<1>8. StopPos(b) = b.readPos + n - 1
  BY <1>1, <1>6, <1>7, StopsAtBorder
<1>9. Peek(b, 1) = <<Border>>
  <2>1. f[1] = Border
    BY <1>1, FrameIsSpelled DEF Spelled
  <2>2. b.bytes[b.readPos + 1] = Border
    <3>1. 1 \in 1..n
      BY <1>2
    <3> QED
      BY <1>7, <2>1, <3>1 DEF Starts
  <2> QED
    BY <1>6, <2>2, FirstByteSeen
<1>10. b.readPos \in Nat /\ b.writePos \in Nat /\ Len(b.bytes) \in Nat
       /\ b.readPos + n <= b.writePos /\ b.writePos <= Len(b.bytes)
  BY <1>6, BufferFields DEF ReadableBytes
<1>11. Seen(b, StopPos(b)) = {Border}
  <2>1. f[n] = Border
    <3>1. f[Len(msg[1]) + Len(msg[2]) + 3] = Border
      BY <1>1, FrameIsSpelled DEF Spelled
    <3>2. n = Len(msg[1]) + Len(msg[2]) + 3
      BY <1>1, FrameProperties
    <3> QED
      BY <3>1, <3>2, Zenon
  <2>2. b.bytes[b.readPos + n] = Border
    <3>1. n \in 1..n
      BY <1>2
    <3> QED
      BY <1>7, <2>1, <3>1 DEF Starts
  <2>3. StopPos(b) < Len(b.bytes) /\ StopPos(b) + 1 = b.readPos + n
    <3>1. PICK r \in Nat, w \in Nat, l \in Nat : r = b.readPos /\ w = b.writePos /\ l = Len(b.bytes)
      BY <1>10, Zenon
    <3>2. r + n <= w /\ w <= l /\ StopPos(b) = r + n - 1
      BY <1>8, <1>10, <3>1, Zenon
    <3>3. StopPos(b) < l /\ StopPos(b) + 1 = r + n
      BY <1>2, <3>2
    <3> QED
      BY <3>1, <3>3, Zenon
  <2>4. Seen(b, StopPos(b)) = {b.bytes[StopPos(b) + 1]}
    BY <2>3, Zenon DEF Seen
  <2> QED
    BY <2>2, <2>3, <2>4, Zenon
<1>12. GetMessage(b) = {AtBorder(b, StopPos(b))}
  <2>1. GetMessage(b) = {IF c = Border THEN AtBorder(b, StopPos(b)) ELSE Outcome(-2, b, << >>) : c \in Seen(b, StopPos(b))}
    BY <1>6, <1>9, Zenon DEF GetMessage
  <2> QED
    BY <1>11, <2>1, Zenon
<1>13. AtBorder(b, StopPos(b)) = Outcome(0, Retrieve(b, n), msg)
  <2>1. PICK s, text : s = StopPos(b) /\ text = SubSeq(b.bytes, b.readPos + 2, s)
    OBVIOUS
  <2>2. Contains(text, Delimiter) /\ TitleAndContent(text) = msg
    BY <1>1, <1>6, <1>7, <1>8, <2>1, MessageIsRead
  <2>3. s # b.writePos /\ s - b.readPos + 1 = n
    BY <1>2, <1>8, <1>10, <2>1
  <2>4. AtBorder(b, s) = IF s = b.writePos THEN Outcome(1, b, << >>)
                         ELSE IF Contains(text, Delimiter)
                              THEN Outcome(0, Retrieve(b, s - b.readPos + 1), TitleAndContent(text))
                              ELSE Outcome(-1, Retrieve(b, s - b.readPos + 1), << >>)
    BY <2>1, Zenon DEF AtBorder
  <2> QED
    BY <2>1, <2>2, <2>3, <2>4, Zenon
<1>14. PICK w : w = Retrieve(b, n)
  OBVIOUS
<1>15. IsBuffer(w) /\ w.bytes = b.bytes /\ Peek(b, n) \in Text /\ Peek(b, n) \o Readable(w) = Readable(b)
       /\ Peek(b, n) = SubSeq(Readable(b), 1, n)
  BY <1>6, <1>14, RetrieveProperties
<1>16. Peek(b, n) = f
  <2>1. PICK v : v = Readable(b)
    OBVIOUS
  <2>2. Split(v, f, more)
    BY <1>2, <1>3, <2>1, JoinedParts
  <2>3. Holding(v, 0, f)
    BY <1>2, <2>2 DEF Split, Holding, Text
  <2>4. v \in Text /\ 0 \in Nat /\ 0 + Len(f) <= Len(v) /\ 0 + 1 = 1 /\ 0 + Len(f) = n
    BY <1>1, <1>2, <1>4, <1>6, <2>1
  <2>5. SubSeq(v, 0 + 1, 0 + Len(f)) = f
    BY <1>2, <2>3, <2>4, PieceIsText
  <2> QED
    BY <1>15, <2>1, <2>4, <2>5, Zenon
<1>17. Readable(w) = more
  <2>1. Readable(w) \in Seq(Bytes) /\ f \in Seq(Bytes) /\ more \in Seq(Bytes)
    BY <1>2, <1>15, ReadableProperties DEF Text
  <2>2. f \o Readable(w) = f \o more
    BY <1>3, <1>15, <1>16, Zenon
  <2> QED
    BY <2>1, <2>2, ConcatSimplifications
<1> QED
  BY <1>12, <1>13, <1>14, <1>15, <1>17, Zenon

\* Less than a frame: nothing is found, or the byte behind it misleads the
\* program into the assertion; the buffer stays.
LEMMA NothingIsFound ==
  ASSUME NEW b, IsBuffer(b), NEW msg \in Messages,
         ReadableBytes(b) < Len(Frame(msg)), Starts(b, Frame(msg), ReadableBytes(b)),
         NEW o \in GetMessage(b)
  PROVE  o.buffer = b /\ o.ret \in {-2, 1}
<1>1. CASE ReadableBytes(b) = 0
  <2>1. o = Outcome(-2, b, << >>)
    BY <1>1, Zenon DEF GetMessage
  <2> QED
    BY <2>1 DEF Outcome
<1>2. CASE ReadableBytes(b) # 0
  <2>1. ReadableBytes(b) \in Nat
    BY ReadableProperties
  <2>2. Peek(b, 1) = <<Border>>
    <3>1. Frame(msg)[1] = Border
      BY FrameIsSpelled DEF Spelled
    <3>2. 1 \in 1..ReadableBytes(b)
      BY <1>2, <2>1
    <3>3. b.bytes[b.readPos + 1] = Border
      BY <3>1, <3>2 DEF Starts
    <3> QED
      BY <1>2, <3>3, FirstByteSeen
  <2>3. StopPos(b) = b.writePos
    BY StopsBehind
  <2>4. GetMessage(b) = {IF c = Border THEN AtBorder(b, b.writePos) ELSE Outcome(-2, b, << >>) : c \in Seen(b, b.writePos)}
    BY <1>2, <2>2, <2>3, Zenon DEF GetMessage
  <2>5. AtBorder(b, b.writePos) = Outcome(1, b, << >>)
    BY Zenon DEF AtBorder
  <2>6. o = Outcome(1, b, << >>) \/ o = Outcome(-2, b, << >>)
    BY <2>4, <2>5, Zenon
  <2> QED
    BY <2>6 DEF Outcome
<1> QED
  BY <1>1, <1>2
========================================================================
