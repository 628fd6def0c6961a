-------------------------- MODULE HeapTimerProofs --------------------------
(*****************************************************************************)
(* Theorems about HeapTimer, for any timers, periods and delays.             *)
(*                                                                           *)
(* Three layers.  The order of the heap is about a function from places to   *)
(* times: a swap moves the one place where a parent may be later than its    *)
(* child up or down.  SwapNode_ keeps the index and everybody's time; so the *)
(* two loops, whose rounds are recursive functions, repair the order and     *)
(* change nothing else.  With that each operation does to the set of timers  *)
(* what Timers says, and the rest of the invariant is about the loop that asks *)
(* the first timer how long it may sleep.                                    *)
(*****************************************************************************)
EXTENDS HeapTimer, SequenceTheorems, WellFoundedInduction, TLAPS

\* Each set of numbers that is not empty has a least one.
LEMMA LeastNumber ==
  ASSUME NEW T \in SUBSET Nat, T # {}
  PROVE  \E n \in T : \A m \in T : n <= m
<1>1. PICK n \in T : \A m \in T : <<m, n>> \notin OpToRel(<, Nat)
  BY NatLessThanWellFounded, WFMin
<1>2. \A m \in T : ~(m < n)
  BY <1>1 DEF OpToRel
<1> QED
  BY <1>2

\* What holds of 0 and with each number up to n of the next one, holds up to n.
LEMMA UpToNumber ==
  ASSUME NEW n \in Nat, NEW T, 0 \in T,
         \A k \in 0..n : k \in T /\ k + 1 \in 0..n => k + 1 \in T
  PROVE  \A k \in 0..n : k \in T
<1> DEFINE Bad == {k \in 0..n : k \notin T}
<1> SUFFICES ASSUME Bad # {} PROVE FALSE
  OBVIOUS
<1>1. Bad \in SUBSET Nat
  OBVIOUS
<1>2. PICK k \in Bad : \A j \in Bad : k <= j
  <2> HIDE DEF Bad
  <2> QED
    BY <1>1, LeastNumber
<1>3. k # 0 /\ k - 1 \in 0..n /\ (k - 1) + 1 = k
  BY <1>2
<1>4. k - 1 \in T
  BY <1>2, <1>3
<1> QED
  BY <1>2, <1>3, <1>4

-----------------------------------------------------------------------------
(* The order of the heap, on a function t from places to times.            *)

IsChild(p, c) == c = 2 * p + 1 \/ c = 2 * p + 2

Swapped(t, i, j) == [t EXCEPT ![i] = t[j], ![j] = t[i]]

\* No time above an earlier one, among the first n.
Ordered(t, n) == \A p, c \in 0..(n - 1) : IsChild(p, c) => t[p] <= t[c]

\* The same but for the time at i, which may belong further up, further down,
\* or either.
Spans(t, n, i)    == \A p, c \in 0..(n - 1) : IsChild(p, i) /\ IsChild(i, c) => t[p] <= t[c]
UpFrom(t, n, i)   == /\ \A p, c \in 0..(n - 1) : IsChild(p, c) /\ c # i => t[p] <= t[c]
                     /\ Spans(t, n, i)
DownFrom(t, n, i) == /\ \A p, c \in 0..(n - 1) : IsChild(p, c) /\ p # i => t[p] <= t[c]
                     /\ Spans(t, n, i)
Loose(t, n, i)    == /\ \A p, c \in 0..(n - 1) : IsChild(p, c) /\ c # i /\ p # i => t[p] <= t[c]
                     /\ Spans(t, n, i)

\* The place siftup_ computes is the parent's.
LEMMA ParentIs ==
  ASSUME NEW c \in Nat, c # 0
  PROVE  /\ (c - 1) \div 2 \in Nat
         /\ (c - 1) \div 2 < c
         /\ IsChild((c - 1) \div 2, c)
BY DEF IsChild

\* A place has one parent.
LEMMA OneParent ==
  ASSUME NEW p \in Nat, NEW c \in Nat, IsChild(p, c)
  PROVE  c # 0 /\ p = (c - 1) \div 2 /\ p < c
BY DEF IsChild

\* A round of siftup_ that swaps moves the exception to the parent.
LEMMA UpOne ==
  ASSUME NEW N \in Nat, NEW n \in 0..N, NEW t \in [0..(N - 1) -> Int],
         NEW i \in 0..(n - 1), NEW j \in 0..(n - 1), IsChild(j, i),
         UpFrom(t, n, i), t[i] <= t[j]
  PROVE  UpFrom(Swapped(t, i, j), n, j)
<1> DEFINE u == Swapped(t, i, j)
<1>1. /\ i \in 0..(N - 1) /\ j \in 0..(N - 1) /\ i # j
      /\ \A k \in 0..(N - 1) : t[k] \in Int /\ u[k] = IF k = j THEN t[i] ELSE IF k = i THEN t[j] ELSE t[k]
  BY DEF IsChild, Swapped
<1>2. \A k \in 0..(n - 1) : k \in 0..(N - 1)
  OBVIOUS
<1> HIDE DEF u
<1>3. ASSUME NEW p \in 0..(n - 1), NEW c \in 0..(n - 1), IsChild(p, c), c # j PROVE u[p] <= u[c]
  <2>1. c # p /\ (c # i => t[p] <= t[c])
    BY <1>3 DEF UpFrom, IsChild
  <2>2. CASE p = j
    <3>1. t[j] <= t[c] \/ c = i
      BY <2>1, <2>2
    <3> QED
      BY <1>1, <1>2, <2>1, <2>2, <3>1, <1>3
  <2>3. CASE p = i
    <3>1. t[j] <= t[c]
      BY <1>3, <2>3 DEF UpFrom, Spans
    <3> QED
      BY <1>1, <1>2, <2>1, <2>3, <3>1, <1>3
  <2>4. CASE p # i /\ p # j
    <3>1. c # i
      BY <1>3, <2>4 DEF IsChild
    <3> QED
      BY <1>1, <1>2, <1>3, <2>1, <2>4, <3>1
  <2> QED
    BY <2>2, <2>3, <2>4
<1>4. ASSUME NEW p \in 0..(n - 1), NEW c \in 0..(n - 1), IsChild(p, j), IsChild(j, c) PROVE u[p] <= u[c]
  <2>1. p # j /\ p # i /\ c # j
    BY <1>4 DEF IsChild
  <2>2. t[p] <= t[j] /\ (c # i => t[j] <= t[c])
    BY <1>1, <1>4 DEF UpFrom
  <2> QED
    BY <1>1, <1>2, <2>1, <2>2
<1> QED
  BY <1>3, <1>4 DEF UpFrom, Spans, u

\* Where siftup_ breaks, or at the root, nothing belongs further up.
LEMMA UpEnd ==
  ASSUME NEW N \in Nat, NEW n \in 0..N, NEW t \in [0..(N - 1) -> Int],
         NEW i \in 0..(n - 1), UpFrom(t, n, i),
         i # 0 => t[(i - 1) \div 2] < t[i]
  PROVE  Ordered(t, n)
<1> SUFFICES ASSUME NEW p \in 0..(n - 1), NEW c \in 0..(n - 1), IsChild(p, c)
             PROVE  t[p] <= t[c]
  BY DEF Ordered
<1>1. CASE c # i
  BY <1>1 DEF UpFrom
<1>2. CASE c = i
  <2>1. c # 0 /\ p = (c - 1) \div 2
    BY OneParent
  <2>2. t[p] \in Int /\ t[c] \in Int
    OBVIOUS
  <2> QED
    BY <1>2, <2>1, <2>2
<1> QED
  BY <1>1, <1>2

\* A round of siftdown_ that swaps moves it to the child it goes on with.
LEMMA DownOne ==
  ASSUME NEW N \in Nat, NEW n \in 0..N, NEW t \in [0..(N - 1) -> Int],
         NEW i \in 0..(n - 1), NEW j \in 0..(n - 1), IsChild(i, j),
         Loose(t, n, i), t[j] <= t[i],
         \A c \in 0..(n - 1) : IsChild(i, c) => t[j] <= t[c]
  PROVE  DownFrom(Swapped(t, i, j), n, j)
<1> DEFINE u == Swapped(t, i, j)
<1>1. /\ i \in 0..(N - 1) /\ j \in 0..(N - 1) /\ i # j
      /\ \A k \in 0..(N - 1) : t[k] \in Int /\ u[k] = IF k = j THEN t[i] ELSE IF k = i THEN t[j] ELSE t[k]
  BY DEF IsChild, Swapped
<1>2. \A k \in 0..(n - 1) : k \in 0..(N - 1)
  OBVIOUS
<1> HIDE DEF u
<1>3. ASSUME NEW p \in 0..(n - 1), NEW c \in 0..(n - 1), IsChild(p, c), p # j PROVE u[p] <= u[c]
  <2>1. c # p
    BY <1>3 DEF IsChild
  <2>2. CASE p = i
    <3>1. t[j] <= t[c]
      BY <1>3, <2>2
    <3> QED
      BY <1>1, <1>2, <2>1, <2>2, <3>1
  <2>3. CASE p # i /\ c = i
    <3>1. t[p] <= t[j]
      BY <1>3, <2>3 DEF Loose, Spans
    <3> QED
      BY <1>1, <1>2, <1>3, <2>3, <3>1
  <2>4. CASE p # i /\ c # i
    <3>1. c # j
      BY <1>3, <2>4 DEF IsChild
    <3>2. t[p] <= t[c]
      BY <1>3, <2>4 DEF Loose
    <3> QED
      BY <1>1, <1>2, <1>3, <2>4, <3>1, <3>2
  <2> QED
    BY <2>2, <2>3, <2>4
<1>4. ASSUME NEW p \in 0..(n - 1), NEW c \in 0..(n - 1), IsChild(p, j), IsChild(j, c) PROVE u[p] <= u[c]
  <2>1. p = i /\ c # j /\ c # i
    BY <1>4 DEF IsChild
  <2>2. t[j] <= t[c]
    BY <1>1, <1>4, <2>1 DEF Loose
  <2> QED
    BY <1>1, <1>2, <2>1, <2>2
<1> QED
  BY <1>3, <1>4 DEF DownFrom, Spans, u

\* Where siftdown_ breaks, or has no child, nothing belongs further down.
LEMMA DownEnd ==
  ASSUME NEW N \in Nat, NEW n \in 0..N, NEW t \in [0..(N - 1) -> Int], NEW i \in 0..(n - 1),
         \A c \in 0..(n - 1) : IsChild(i, c) => t[i] <= t[c]
  PROVE  (Loose(t, n, i) => UpFrom(t, n, i)) /\ (DownFrom(t, n, i) => Ordered(t, n))
<1>1. ASSUME Loose(t, n, i) PROVE UpFrom(t, n, i)
  <2>1. ASSUME NEW p \in 0..(n - 1), NEW c \in 0..(n - 1), IsChild(p, c), c # i PROVE t[p] <= t[c]
    <3>1. CASE p = i
      BY <2>1, <3>1
    <3>2. CASE p # i
      BY <1>1, <2>1, <3>2 DEF Loose
    <3> QED
      BY <3>1, <3>2
  <2> QED
    BY <1>1, <2>1 DEF Loose, UpFrom
<1>2. ASSUME DownFrom(t, n, i) PROVE Ordered(t, n)
  <2>1. ASSUME NEW p \in 0..(n - 1), NEW c \in 0..(n - 1), IsChild(p, c) PROVE t[p] <= t[c]
    <3>1. CASE p = i
      BY <2>1, <3>1
    <3>2. CASE p # i
      BY <1>2, <2>1, <3>2 DEF DownFrom
    <3> QED
      BY <3>1, <3>2
  <2> QED
    BY <2>1 DEF Ordered
<1> QED
  BY <1>1, <1>2

\* An exception down is one either way; one that is neither up nor down is none.
LEMMA LooseOrNot ==
  ASSUME NEW N \in Nat, NEW n \in 0..N, NEW t \in [0..(N - 1) -> Int], NEW i \in 0..(n - 1)
  PROVE  /\ Ordered(t, n) => DownFrom(t, n, i)
         /\ DownFrom(t, n, i) => Loose(t, n, i)
         /\ UpFrom(t, n, i) /\ DownFrom(t, n, i) => Ordered(t, n)
<1>1. ASSUME Ordered(t, n) PROVE DownFrom(t, n, i)
  <2>1. \A p, c \in 0..(n - 1) : IsChild(p, c) => t[p] <= t[c]
    BY <1>1 DEF Ordered
  <2>2. ASSUME NEW p \in 0..(n - 1), NEW c \in 0..(n - 1), IsChild(p, i), IsChild(i, c)
        PROVE  t[p] <= t[c]
    <3>1. t[p] <= t[i] /\ t[i] <= t[c]
      BY <2>1, <2>2
    <3>2. t[p] \in Int /\ t[i] \in Int /\ t[c] \in Int
      OBVIOUS
    <3> QED
      BY <3>1, <3>2
  <2> QED
    BY <2>1, <2>2 DEF DownFrom, Spans
<1>2. ASSUME DownFrom(t, n, i) PROVE Loose(t, n, i)
  BY <1>2, Zenon DEF DownFrom, Loose
<1>3. ASSUME UpFrom(t, n, i), DownFrom(t, n, i) PROVE Ordered(t, n)
  <2>1. ASSUME NEW p \in 0..(n - 1), NEW c \in 0..(n - 1), IsChild(p, c) PROVE t[p] <= t[c]
    <3>1. c # i \/ p # i
      BY <2>1 DEF IsChild
    <3> QED
      BY <1>3, <2>1, <3>1 DEF UpFrom, DownFrom
  <2> QED
    BY <2>1 DEF Ordered
<1> QED
  BY <1>1, <1>2, <1>3

\* The first of an ordered heap is the earliest: a place with an earlier time
\* would have a parent with one.
LEMMA RootIsFirst ==
  ASSUME NEW n \in Nat, NEW t \in [0..(n - 1) -> Int], Ordered(t, n)
  PROVE  \A i \in 0..(n - 1) : t[0] <= t[i]
<1> DEFINE Bad == {i \in 0..(n - 1) : ~(t[0] <= t[i])}
<1> SUFFICES ASSUME Bad # {} PROVE FALSE
  OBVIOUS
<1>1. Bad \in SUBSET Nat
  OBVIOUS
<1>2. PICK i \in Bad : \A j \in Bad : i <= j
  <2> HIDE DEF Bad
  <2> QED
    BY <1>1, LeastNumber
<1>3. i \in Nat /\ i \in 0..(n - 1) /\ 0 \in 0..(n - 1) /\ t[0] \in Int /\ t[i] \in Int /\ ~(t[0] <= t[i])
  BY <1>2
<1>4. i # 0
  BY <1>3
<1> DEFINE p == (i - 1) \div 2
<1>5. p \in Nat /\ p < i /\ IsChild(p, i)
  BY <1>3, <1>4, ParentIs
<1> HIDE DEF p
<1>6. p \in 0..(n - 1) /\ t[p] \in Int
  BY <1>3, <1>5
<1>7. t[p] <= t[i]
  BY <1>3, <1>5, <1>6 DEF Ordered
<1>8. p \in Bad
  BY <1>3, <1>6, <1>7
<1> QED
  BY <1>2, <1>3, <1>5, <1>8

-----------------------------------------------------------------------------
(* A heap h with its index.                                                *)

\* A function from 1..n is a sequence of length n.
LEMMA FunctionIsSeq ==
  ASSUME NEW S, NEW n \in Nat, NEW f \in [1..n -> S]
  PROVE  f \in Seq(S) /\ Len(f) = n
<1>1. f \in Seq(S)
  BY SeqDef
<1>2. DOMAIN f = 1..Len(f) /\ Len(f) \in Nat
  BY <1>1, LenProperties
<1>3. 1..n = 1..Len(f)
  BY <1>2
<1> QED
  BY <1>1, <1>2, <1>3

Nodes == [id : Ids, left : Int]

\* ref_ is the inverse of heap_.
Indexed(h) ==
  /\ h = [heap |-> h.heap, ref |-> h.ref]
  /\ h.heap \in Seq(Nodes)
  /\ h.ref \in [{h.heap[k].id : k \in 1..Len(h.heap)} -> Int]
  /\ \A k \in 1..Len(h.heap) : h.ref[h.heap[k].id] = k - 1

Times(h)  == [k \in 0..(Len(h.heap) - 1) |-> h.heap[k + 1].left]
LeftOf(h) == [id \in DOMAIN h.ref |-> h.heap[h.ref[id] + 1].left]

\* What of an indexed heap the proofs below use.
LEMMA IndexedHas ==
  ASSUME NEW h, Indexed(h)
  PROVE  /\ Len(h.heap) \in Nat
         /\ h.heap \in [1..Len(h.heap) -> Nodes]
         /\ DOMAIN h.ref = {h.heap[k].id : k \in 1..Len(h.heap)}
         /\ \A id \in DOMAIN h.ref : /\ h.ref[id] \in 0..(Len(h.heap) - 1)
                                     /\ h.heap[h.ref[id] + 1].id = id
         /\ \A k \in 0..(Len(h.heap) - 1) : /\ h.heap[k + 1] \in Nodes
                                            /\ h.heap[k + 1].id \in DOMAIN h.ref
                                            /\ h.ref[h.heap[k + 1].id] = k
         /\ Times(h) \in [0..(Len(h.heap) - 1) -> Int]
<1>1. Len(h.heap) \in Nat /\ h.heap \in [1..Len(h.heap) -> Nodes]
  BY LenProperties DEF Indexed
<1>2. DOMAIN h.ref = {h.heap[k].id : k \in 1..Len(h.heap)}
  BY DEF Indexed
<1>3. ASSUME NEW id \in DOMAIN h.ref
      PROVE  h.ref[id] \in 0..(Len(h.heap) - 1) /\ h.heap[h.ref[id] + 1].id = id
  <2>1. PICK k \in 1..Len(h.heap) : h.heap[k].id = id
    BY <1>2
  <2>2. h.ref[id] = k - 1
    BY <2>1 DEF Indexed
  <2>3. k - 1 \in 0..(Len(h.heap) - 1) /\ (k - 1) + 1 = k
    BY <1>1
  <2> QED
    BY <2>1, <2>2, <2>3
<1>4. ASSUME NEW k \in 0..(Len(h.heap) - 1)
      PROVE  /\ h.heap[k + 1] \in Nodes
             /\ h.heap[k + 1].id \in DOMAIN h.ref
             /\ h.ref[h.heap[k + 1].id] = k
  <2>1. k + 1 \in 1..Len(h.heap) /\ (k + 1) - 1 = k
    BY <1>1
  <2>2. h.heap[k + 1] \in Nodes /\ h.heap[k + 1].id \in DOMAIN h.ref
    BY <1>1, <1>2, <2>1
  <2>3. h.ref[h.heap[k + 1].id] = (k + 1) - 1
    BY <2>1 DEF Indexed
  <2> QED
    BY <2>1, <2>2, <2>3
<1>5. Times(h) \in [0..(Len(h.heap) - 1) -> Int]
  BY <1>4 DEF Times, Nodes
<1> QED
  BY <1>1, <1>2, <1>3, <1>4, <1>5

\* What g has of h when nodes were only swapped, none of them at n or behind.
Resifted(h, g, n) ==
  /\ Indexed(g)
  /\ Len(g.heap) = Len(h.heap)
  /\ LeftOf(g) = LeftOf(h)
  /\ \A k \in n..(Len(h.heap) - 1) : g.heap[k + 1] = h.heap[k + 1]

\* What is resifted twice is resifted.
LEMMA ResiftedIsTransitive ==
  ASSUME NEW h, NEW g, NEW f, NEW n, Resifted(h, g, n), Resifted(g, f, n)
  PROVE  Resifted(h, f, n)
BY DEF Resifted

\* SwapNode_ keeps the index and everybody's time.
LEMMA SwapKeeps ==
  ASSUME NEW h, Indexed(h), NEW i \in 0..(Len(h.heap) - 1), NEW j \in 0..(Len(h.heap) - 1), i # j
  PROVE  /\ Indexed(SwapNode(h, i, j))
         /\ Len(SwapNode(h, i, j).heap) = Len(h.heap)
         /\ LeftOf(SwapNode(h, i, j)) = LeftOf(h)
         /\ Times(SwapNode(h, i, j)) = Swapped(Times(h), i, j)
         /\ SwapNode(h, i, j).heap[j + 1] = h.heap[i + 1]
         /\ \A k \in 0..(Len(h.heap) - 1) : k # i /\ k # j => SwapNode(h, i, j).heap[k + 1] = h.heap[k + 1]
<1>1. PICK a, r, N : a = h.heap /\ r = h.ref /\ N = Len(h.heap)
  OBVIOUS
<1>2. /\ N \in Nat /\ a \in [1..N -> Nodes] /\ a \in Seq(Nodes)
      /\ r \in [{a[k].id : k \in 1..N} -> Int]
      /\ \A k \in 1..N : r[a[k].id] = k - 1
  BY <1>1, LenProperties DEF Indexed
<1>3. /\ i \in Nat /\ j \in Nat /\ i + 1 \in 1..N /\ j + 1 \in 1..N /\ i + 1 # j + 1
      /\ (i + 1) - 1 = i /\ (j + 1) - 1 = j
  BY <1>1, <1>2
<1> DEFINE b == [a EXCEPT ![i + 1] = a[j + 1], ![j + 1] = a[i + 1]]
           q == [r EXCEPT ![a[j + 1].id] = i, ![a[i + 1].id] = j]
           g == SwapNode(h, i, j)
<1>4. g = [heap |-> b, ref |-> q]
  BY <1>1 DEF SwapNode
<1>5. /\ b \in [1..N -> Nodes]
      /\ b[i + 1] = a[j + 1] /\ b[j + 1] = a[i + 1]
      /\ \A k \in 1..N : k # i + 1 /\ k # j + 1 => b[k] = a[k]
  BY <1>2, <1>3
<1>6. b \in Seq(Nodes) /\ Len(b) = N
  <2> HIDE DEF b
  <2> QED
    BY <1>2, <1>5, FunctionIsSeq
<1>7. a[i + 1].id # a[j + 1].id /\ a[i + 1].id \in DOMAIN r /\ a[j + 1].id \in DOMAIN r
  <2>1. r[a[i + 1].id] = (i + 1) - 1 /\ r[a[j + 1].id] = (j + 1) - 1
    BY <1>2, <1>3
  <2> QED
    BY <1>2, <1>3, <2>1
<1>8. /\ DOMAIN q = DOMAIN r /\ q[a[i + 1].id] = j /\ q[a[j + 1].id] = i
      /\ \A x \in DOMAIN r : x # a[i + 1].id /\ x # a[j + 1].id => q[x] = r[x]
  BY <1>7
<1> HIDE DEF b, q, g
<1>9. g.heap = b /\ g.ref = q
  BY <1>4
<1>10. Indexed(g)
  <2>1. {b[k].id : k \in 1..N} = {a[k].id : k \in 1..N}
    <3>1. ASSUME NEW k \in 1..N PROVE \E l \in 1..N : b[k] = a[l]
      BY <1>3, <1>5
    <3>2. ASSUME NEW k \in 1..N PROVE \E l \in 1..N : a[k] = b[l]
      BY <1>3, <1>5
    <3> DEFINE B == {b[k].id : k \in 1..N}
               A == {a[k].id : k \in 1..N}
    <3>3. ASSUME NEW x \in B PROVE x \in A
      BY <3>1
    <3>4. ASSUME NEW x \in A PROVE x \in B
      BY <3>2
    <3> QED
      BY <3>3, <3>4
  <2>2. DOMAIN r = {a[k].id : k \in 1..N}
    BY <1>2
  <2>3. ASSUME NEW x \in DOMAIN r PROVE q[x] \in Int
    <3>1. r[x] \in Int /\ i \in Int /\ j \in Int
      BY <1>2, <1>3, <2>2
    <3> QED
      BY <1>8, <3>1
  <2>4. q \in [{b[k].id : k \in 1..N} -> Int]
    <3>1. q = [x \in DOMAIN r |-> q[x]]
      BY <1>8 DEF q
    <3> QED
      BY <2>1, <2>2, <2>3, <3>1
  <2>5. ASSUME NEW k \in 1..N PROVE q[b[k].id] = k - 1
    <3>1. CASE k = i + 1
      BY <1>3, <1>5, <1>8, <3>1
    <3>2. CASE k = j + 1
      BY <1>3, <1>5, <1>8, <3>2
    <3>3. CASE k # i + 1 /\ k # j + 1
      <4>1. b[k] = a[k] /\ r[a[k].id] = k - 1 /\ a[k].id \in DOMAIN r
        BY <1>2, <1>5, <2>2, <3>3
      <4>2. r[a[i + 1].id] = i /\ r[a[j + 1].id] = j
        BY <1>2, <1>3
      <4>3. a[k].id # a[i + 1].id /\ a[k].id # a[j + 1].id
        BY <1>3, <3>3, <4>1, <4>2
      <4> QED
        BY <1>8, <4>1, <4>3
    <3> QED
      BY <3>1, <3>2, <3>3
  <2> QED
    BY <1>4, <1>6, <1>9, <2>4, <2>5 DEF Indexed
<1>11. LeftOf(g) = LeftOf(h)
  <2>1. ASSUME NEW x \in DOMAIN r PROVE b[q[x] + 1].left = a[r[x] + 1].left
    <3>1. r[a[i + 1].id] = i /\ r[a[j + 1].id] = j
      BY <1>2, <1>3
    <3>2. CASE x = a[i + 1].id
      BY <1>3, <1>5, <1>8, <3>1, <3>2
    <3>3. CASE x = a[j + 1].id
      BY <1>3, <1>5, <1>8, <3>1, <3>3
    <3>4. CASE x # a[i + 1].id /\ x # a[j + 1].id
      <4>1. q[x] = r[x]
        BY <1>8, <3>4
      <4>2. PICK k \in 1..N : a[k].id = x
        BY <1>2
      <4>3. r[x] + 1 = k
        <5>1. r[x] = k - 1
          BY <1>2, <4>2
        <5> QED
          BY <5>1
      <4>4. k # i + 1 /\ k # j + 1
        BY <3>4, <4>2
      <4> QED
        BY <1>5, <4>1, <4>3, <4>4
    <3> QED
      BY <3>2, <3>3, <3>4
  <2>2. LeftOf(g) = [x \in DOMAIN r |-> b[q[x] + 1].left] /\ LeftOf(h) = [x \in DOMAIN r |-> a[r[x] + 1].left]
    BY <1>1, <1>8, <1>9 DEF LeftOf
  <2> QED
    BY <2>1, <2>2
<1>12. Times(g) = Swapped(Times(h), i, j)
  <2>1. Times(g) = [k \in 0..(N - 1) |-> b[k + 1].left] /\ Times(h) = [k \in 0..(N - 1) |-> a[k + 1].left]
    BY <1>1, <1>6, <1>9 DEF Times
  <2> DEFINE t == [k \in 0..(N - 1) |-> a[k + 1].left]
  <2>2. i \in 0..(N - 1) /\ j \in 0..(N - 1)
    BY <1>1
  <2>3. Swapped(t, i, j) = [k \in 0..(N - 1) |-> IF k = j THEN a[i + 1].left ELSE IF k = i THEN a[j + 1].left ELSE a[k + 1].left]
    BY <2>2 DEF Swapped
  <2>4. ASSUME NEW k \in 0..(N - 1)
        PROVE  b[k + 1].left = IF k = j THEN a[i + 1].left ELSE IF k = i THEN a[j + 1].left ELSE a[k + 1].left
    <3>1. k + 1 \in 1..N /\ (k = j <=> k + 1 = j + 1) /\ (k = i <=> k + 1 = i + 1)
      BY <1>2, <1>3
    <3> QED
      BY <1>5, <3>1
  <2> QED
    BY <2>1, <2>3, <2>4
<1>13. b[j + 1] = a[i + 1]
  BY <1>5
<1>14. ASSUME NEW k \in 0..(N - 1), k # i, k # j PROVE b[k + 1] = a[k + 1]
  <2>1. k + 1 \in 1..N /\ k + 1 # j + 1 /\ k + 1 # i + 1
    BY <1>2, <1>3, <1>14
  <2> QED
    BY <1>5, <2>1
<1> QED
  BY <1>1, <1>6, <1>9, <1>10, <1>11, <1>12, <1>13, <1>14 DEF g

-----------------------------------------------------------------------------
(* The two loops.  What their rounds leave is a recursive function, which  *)
(* is what its definition says because there is one that is.               *)

UpRounds(x, n, s) == s = [k \in 0..n |-> IF k = 0 THEN x ELSE UpRound(s[k - 1])]

\* The rounds of siftup_ from x, and that there are some: the next round is what
\* UpRound makes of the one before.
LEMMA UpRoundsExist ==
  ASSUME NEW x, NEW n \in Nat
  PROVE  \E s : UpRounds(x, n, s)
<1> DEFINE Is(s, m) == s = [k \in 0..m |-> IF k = 0 THEN x ELSE UpRound(s[k - 1])]
           T == {m \in 0..n : \E s : Is(s, m)}
<1>1. 0 \in T
  <2>1. Is([k \in 0..0 |-> x], 0)
    OBVIOUS
  <2> HIDE DEF Is
  <2> QED
    BY <2>1
<1>2. ASSUME NEW m \in 0..n, m \in T, m + 1 \in 0..n PROVE m + 1 \in T
  <2>1. PICK s : Is(s, m)
    BY <1>2
  <2> DEFINE u == [k \in 0..(m + 1) |-> IF k = m + 1 THEN UpRound(s[m]) ELSE s[k]]
  <2>2. ASSUME NEW k \in 0..(m + 1) PROVE u[k] = IF k = 0 THEN x ELSE UpRound(u[k - 1])
    <3>1. CASE k = m + 1
      <4>1. k # 0 /\ k - 1 = m /\ m \in 0..(m + 1) /\ m # m + 1
        BY <3>1
      <4>2. u[k - 1] = s[m] /\ u[k] = UpRound(s[m])
        BY <3>1, <4>1
      <4> QED
        BY <4>1, <4>2
    <3>2. CASE k # m + 1
      <4>1. k \in 0..m /\ u[k] = s[k]
        BY <3>2
      <4>2. s[k] = IF k = 0 THEN x ELSE UpRound(s[k - 1])
        BY <2>1, <4>1
      <4>3. k # 0 => u[k - 1] = s[k - 1]
        BY <4>1
      <4> QED
        BY <4>1, <4>2, <4>3
    <3> QED
      BY <3>1, <3>2
  <2>3. Is(u, m + 1)
    BY <2>2
  <2> QED
    BY <1>2, <2>3
<1> HIDE DEF T
<1>3. n \in T
  BY <1>1, <1>2, UpToNumber
<1> QED
  BY <1>3 DEF T, UpRounds

DownRounds(x, n, s) == s = [k \in 0..n |-> IF k = 0 THEN x ELSE DownRound(s[k - 1], n)]

\* The same for siftdown_.
LEMMA DownRoundsExist ==
  ASSUME NEW x, NEW n \in Nat
  PROVE  \E s : DownRounds(x, n, s)
<1> DEFINE Is(s, m) == s = [k \in 0..m |-> IF k = 0 THEN x ELSE DownRound(s[k - 1], n)]
           T == {m \in 0..n : \E s : Is(s, m)}
<1>1. 0 \in T
  <2>1. Is([k \in 0..0 |-> x], 0)
    OBVIOUS
  <2> HIDE DEF Is
  <2> QED
    BY <2>1
<1>2. ASSUME NEW m \in 0..n, m \in T, m + 1 \in 0..n PROVE m + 1 \in T
  <2>1. PICK s : Is(s, m)
    BY <1>2
  <2> DEFINE u == [k \in 0..(m + 1) |-> IF k = m + 1 THEN DownRound(s[m], n) ELSE s[k]]
  <2>2. ASSUME NEW k \in 0..(m + 1) PROVE u[k] = IF k = 0 THEN x ELSE DownRound(u[k - 1], n)
    <3>1. CASE k = m + 1
      <4>1. k # 0 /\ k - 1 = m /\ m \in 0..(m + 1) /\ m # m + 1
        BY <3>1
      <4>2. u[k - 1] = s[m] /\ u[k] = DownRound(s[m], n)
        BY <3>1, <4>1
      <4> QED
        BY <4>1, <4>2
    <3>2. CASE k # m + 1
      <4>1. k \in 0..m /\ u[k] = s[k]
        BY <3>2
      <4>2. s[k] = IF k = 0 THEN x ELSE DownRound(s[k - 1], n)
        BY <2>1, <4>1
      <4>3. k # 0 => u[k - 1] = s[k - 1]
        BY <4>1
      <4> QED
        BY <4>1, <4>2, <4>3
    <3> QED
      BY <3>1, <3>2
  <2>3. Is(u, m + 1)
    BY <2>2
  <2> QED
    BY <1>2, <2>3
<1> HIDE DEF T
<1>3. n \in T
  BY <1>1, <1>2, UpToNumber
<1> QED
  BY <1>3 DEF T, DownRounds

\* SiftUp and SiftDown give what is left after the last of their rounds.
LEMMA SiftUpRounds ==
  ASSUME NEW h, NEW i \in Nat
  PROVE  \E s : /\ s[0] = [h |-> h, i |-> i]
                /\ \A k \in 0..i : k # 0 => s[k] = UpRound(s[k - 1])
                /\ SiftUp(h, i) = [h |-> s[i].h, stray |-> s[i].i = 0]
<1> DEFINE s == CHOOSE s : s = [k \in 0..i |-> IF k = 0 THEN [h |-> h, i |-> i] ELSE UpRound(s[k - 1])]
<1>5. \E u : u = [k \in 0..i |-> IF k = 0 THEN [h |-> h, i |-> i] ELSE UpRound(u[k - 1])]
  <2> DEFINE x == [h |-> h, i |-> i]
  <2> HIDE DEF x
  <2>1. \E u : UpRounds(x, i, u)
    BY UpRoundsExist
  <2> QED
    BY <2>1 DEF x, UpRounds
<1>1. s = [k \in 0..i |-> IF k = 0 THEN [h |-> h, i |-> i] ELSE UpRound(s[k - 1])]
  BY <1>5
<1>2. SiftUp(h, i) = [h |-> s[i].h, stray |-> s[i].i = 0]
  BY DEF SiftUp
<1> HIDE DEF s
<1>3. ASSUME NEW k \in 0..i PROVE s[k] = IF k = 0 THEN [h |-> h, i |-> i] ELSE UpRound(s[k - 1])
  BY <1>1
<1>4. 0 \in 0..i
  OBVIOUS
<1> QED
  BY <1>2, <1>3, <1>4

\* The same of siftdown_.
LEMMA SiftDownRounds ==
  ASSUME NEW h, NEW i \in Nat, NEW n \in Nat
  PROVE  \E s : /\ s[0] = [h |-> h, i |-> i]
                /\ \A k \in 0..n : k # 0 => s[k] = DownRound(s[k - 1], n)
                /\ SiftDown(h, i, n) = s[n]
<1> DEFINE s == CHOOSE s : s = [k \in 0..n |-> IF k = 0 THEN [h |-> h, i |-> i] ELSE DownRound(s[k - 1], n)]
<1>5. \E u : u = [k \in 0..n |-> IF k = 0 THEN [h |-> h, i |-> i] ELSE DownRound(u[k - 1], n)]
  <2> DEFINE x == [h |-> h, i |-> i]
  <2> HIDE DEF x
  <2>1. \E u : DownRounds(x, n, u)
    BY DownRoundsExist
  <2> QED
    BY <2>1 DEF x, DownRounds
<1>1. s = [k \in 0..n |-> IF k = 0 THEN [h |-> h, i |-> i] ELSE DownRound(s[k - 1], n)]
  BY <1>5
<1>2. SiftDown(h, i, n) = s[n]
  BY DEF SiftDown
<1> HIDE DEF s
<1>3. ASSUME NEW k \in 0..n PROVE s[k] = IF k = 0 THEN [h |-> h, i |-> i] ELSE DownRound(s[k - 1], n)
  BY <1>1
<1>4. 0 \in 0..n
  OBVIOUS
<1> QED
  BY <1>2, <1>3, <1>4

\* The loop invariant of siftup_, which begins with h at i below n.
Rising(h, i, n, s) ==
  /\ s = [h |-> s.h, i |-> s.i]
  /\ s.i \in 0..i
  /\ Resifted(h, s.h, n)
  /\ UpFrom(Times(s.h), n, s.i)

\* A round keeps it and goes up, or the loop is through.
LEMMA UpRoundRises ==
  ASSUME NEW h, Len(h.heap) \in Nat, NEW n \in 0..Len(h.heap), NEW i \in 0..(n - 1), NEW s, Rising(h, i, n, s)
  PROVE  /\ Rising(h, i, n, UpRound(s))
         /\ UpRound(s).i < s.i \/ (UpRound(s) = s /\ Ordered(Times(s.h), n))
<1>1. PICK g, c, N : g = s.h /\ c = s.i /\ N = Len(h.heap)
  OBVIOUS
<1> DEFINE p == (c - 1) \div 2
<1>2. /\ N \in Nat /\ n \in 0..N /\ i \in 0..(n - 1) /\ c \in 0..i /\ c \in 0..(n - 1) /\ c \in 0..(N - 1)
      /\ Indexed(g) /\ Len(g.heap) = N /\ Times(g) \in [0..(N - 1) -> Int] /\ UpFrom(Times(g), n, c)
  <2>1. Indexed(g) /\ Len(g.heap) = N /\ c \in 0..i /\ UpFrom(Times(g), n, c)
    BY <1>1 DEF Rising, Resifted
  <2>2. Times(g) \in [0..(N - 1) -> Int]
    BY <2>1, IndexedHas
  <2> QED
    BY <1>1, <2>1, <2>2
<1>3. c # 0 => p \in 0..(n - 1) /\ p \in 0..(N - 1) /\ p < c /\ p \in 0..i /\ p # c /\ IsChild(p, c)
  <2>1. c \in Nat
    BY <1>2
  <2>2. c # 0 => p \in Nat /\ p < c /\ IsChild(p, c)
    BY <2>1, ParentIs
  <2> HIDE DEF p
  <2> QED
    BY <1>2, <2>1, <2>2
<1>4. UpRound(s) = IF c = 0 \/ Before(g, p, c) THEN s ELSE [h |-> SwapNode(g, c, p), i |-> p]
  BY <1>1 DEF UpRound
<1>5. c # 0 => (Before(g, p, c) <=> Times(g)[p] < Times(g)[c])
  BY <1>2, <1>3 DEF Before, Times
<1> HIDE DEF p
<1>6. CASE c = 0 \/ Before(g, p, c)
  <2>1. Ordered(Times(g), n)
    <3>1. c # 0 => Times(g)[(c - 1) \div 2] < Times(g)[c]
      BY <1>5, <1>6 DEF p
    <3> QED
      BY <1>2, <3>1, UpEnd
  <2> QED
    BY <1>1, <1>4, <1>6, <2>1
<1>7. CASE c # 0 /\ ~Before(g, p, c)
  <2> DEFINE f == SwapNode(g, c, p)
  <2>1. /\ Indexed(f) /\ Len(f.heap) = N /\ LeftOf(f) = LeftOf(g)
        /\ Times(f) = Swapped(Times(g), c, p)
        /\ \A k \in 0..(N - 1) : k # c /\ k # p => f.heap[k + 1] = g.heap[k + 1]
    BY <1>2, <1>3, <1>7, SwapKeeps
  <2>2. Times(g)[c] <= Times(g)[p]
    BY <1>2, <1>3, <1>5, <1>7
  <2>3. UpFrom(Times(f), n, p)
    BY <1>2, <1>3, <1>7, <2>1, <2>2, UpOne
  <2> HIDE DEF f
  <2>4. Resifted(g, f, n)
    <3>1. \A k \in n..(N - 1) : k \in 0..(N - 1) /\ k # c /\ k # p
      BY <1>2, <1>3, <1>7
    <3> QED
      BY <1>2, <2>1, <3>1 DEF Resifted
  <2>5. Resifted(h, f, n)
    BY <1>1, <2>4, ResiftedIsTransitive DEF Rising
  <2>6. UpRound(s) = [h |-> f, i |-> p]
    BY <1>4, <1>7 DEF f
  <2>7. UpRound(s).h = f /\ UpRound(s).i = p
    BY <2>6
  <2>8. Rising(h, i, n, UpRound(s))
    BY <1>3, <1>7, <2>3, <2>5, <2>6, <2>7 DEF Rising
  <2> QED
    BY <1>1, <1>3, <1>7, <2>7, <2>8
<1> QED
  BY <1>6, <1>7

\* siftup_ repairs the order of the first n nodes when only the one at i may
\* belong further up.
LEMMA SiftUpOrders ==
  ASSUME NEW h, Indexed(h), NEW n \in 0..Len(h.heap), NEW i \in 0..(n - 1), UpFrom(Times(h), n, i)
  PROVE  /\ Resifted(h, SiftUp(h, i).h, n)
         /\ Ordered(Times(SiftUp(h, i).h), n)
         /\ SiftUp(h, i) = [h |-> SiftUp(h, i).h, stray |-> SiftUp(h, i).stray]
         /\ SiftUp(h, i).stray \in BOOLEAN
<1>1. Len(h.heap) \in Nat /\ n \in Nat /\ i \in Nat
  <2>1. Len(h.heap) \in Nat
    BY IndexedHas
  <2> QED
    BY <2>1
<1>2. PICK s : /\ s[0] = [h |-> h, i |-> i]
               /\ \A k \in 0..i : k # 0 => s[k] = UpRound(s[k - 1])
               /\ SiftUp(h, i) = [h |-> s[i].h, stray |-> s[i].i = 0]
  BY <1>1, SiftUpRounds
<1> DEFINE T == {k \in 0..i : /\ Rising(h, i, n, s[k])
                              /\ s[k].i <= i - k \/ (UpRound(s[k]) = s[k] /\ Ordered(Times(s[k].h), n))}
<1>3. 0 \in T
  <2>1. s[0].h = h /\ s[0].i = i
    BY <1>2
  <2>2. Rising(h, i, n, s[0])
    BY <1>1, <1>2, <2>1 DEF Rising, Resifted
  <2> QED
    BY <1>1, <2>1, <2>2
<1>4. ASSUME NEW k \in 0..i, k \in T, k + 1 \in 0..i PROVE k + 1 \in T
  <2>1. PICK a, b : a = s[k] /\ b = s[k + 1]
    OBVIOUS
  <2>2. b = UpRound(a)
    <3>1. k + 1 # 0 /\ (k + 1) - 1 = k
      BY <1>1
    <3> QED
      BY <1>2, <1>4, <2>1, <3>1
  <2>3. Rising(h, i, n, a) /\ (a.i <= i - k \/ (UpRound(a) = a /\ Ordered(Times(a.h), n)))
    BY <1>4, <2>1
  <2>4. Rising(h, i, n, b) /\ (b.i < a.i \/ (UpRound(a) = a /\ Ordered(Times(a.h), n)))
    BY <1>1, <2>2, <2>3, UpRoundRises
  <2>5. a.i \in 0..i /\ b.i \in 0..i
    BY <2>3, <2>4 DEF Rising
  <2>6. b.i <= i - (k + 1) \/ (UpRound(b) = b /\ Ordered(Times(b.h), n))
    <3>1. CASE UpRound(a) = a /\ Ordered(Times(a.h), n)
      BY <2>2, <3>1
    <3>2. CASE b.i < a.i /\ a.i <= i - k
      BY <1>1, <2>5, <3>2
    <3> QED
      BY <2>3, <2>4, <3>1, <3>2
  <2> QED
    BY <1>4, <2>1, <2>4, <2>6
<1>5. i \in T
  <2> HIDE DEF T
  <2>1. \A k \in 0..i : k \in T /\ k + 1 \in 0..i => k + 1 \in T
    BY <1>4
  <2>2. \A k \in 0..i : k \in T
    BY <1>1, <1>3, <2>1, UpToNumber, Zenon
  <2> QED
    BY <1>1, <2>2
<1>6. PICK r : r = s[i]
  OBVIOUS
<1>7. Rising(h, i, n, r) /\ (r.i <= 0 \/ (UpRound(r) = r /\ Ordered(Times(r.h), n)))
  <2>1. i - i = 0
    BY <1>1
  <2> QED
    BY <1>5, <1>6, <2>1
<1>8. r.i \in 0..i
  BY <1>7 DEF Rising
<1>9. Ordered(Times(r.h), n)
  <2>1. UpRound(r).i < r.i \/ Ordered(Times(r.h), n)
    BY <1>1, <1>7, UpRoundRises
  <2>2. UpRound(r).i \in 0..i
    BY <1>1, <1>7, UpRoundRises DEF Rising
  <2>3. CASE UpRound(r).i < r.i
    BY <1>1, <1>7, <1>8, <2>2, <2>3
  <2> QED
    BY <2>1, <2>3
<1>10. Resifted(h, r.h, n)
  BY <1>7 DEF Rising
<1>11. SiftUp(h, i) = [h |-> r.h, stray |-> r.i = 0]
  BY <1>2, <1>6
<1>12. SiftUp(h, i).h = r.h /\ SiftUp(h, i).stray = (r.i = 0)
  BY <1>11
<1> QED
  BY <1>9, <1>10, <1>11, <1>12

\* The loop invariant of siftdown_: it has moved nothing, or what it moved may
\* belong further down.
Sinking(h, i, n, s) ==
  /\ s = [h |-> s.h, i |-> s.i]
  /\ s.i \in i..(n - 1)
  /\ Resifted(h, s.h, n)
  /\ IF s.i = i THEN s.h = h ELSE DownFrom(Times(s.h), n, s.i)

\* Nothing below the node at i is earlier.
Rests(t, n, i) == \A c \in 0..(n - 1) : IsChild(i, c) => t[i] <= t[c]

\* A round keeps it and goes down, or the loop is through.
LEMMA DownRoundSinks ==
  ASSUME NEW h, Indexed(h), NEW n \in 0..Len(h.heap), NEW i \in 0..(n - 1), NEW s, Sinking(h, i, n, s),
         Loose(Times(h), n, i)
  PROVE  /\ Sinking(h, i, n, DownRound(s, n))
         /\ DownRound(s, n).i > s.i \/ (DownRound(s, n) = s /\ Rests(Times(s.h), n, s.i))
<1>1. PICK g, c, N : g = s.h /\ c = s.i /\ N = Len(h.heap)
  OBVIOUS
<1> DEFINE j == EarlierChild(g, c, n)
<1>2. /\ N \in Nat /\ n \in 0..N /\ i \in 0..(n - 1) /\ c \in i..(n - 1) /\ c \in 0..(n - 1) /\ c \in 0..(N - 1)
      /\ Indexed(g) /\ Len(g.heap) = N /\ Times(g) \in [0..(N - 1) -> Int]
  <2>1. Indexed(g) /\ Len(g.heap) = N /\ c \in i..(n - 1)
    BY <1>1 DEF Sinking, Resifted
  <2>2. Times(g) \in [0..(N - 1) -> Int] /\ Len(h.heap) \in Nat
    BY <2>1, IndexedHas
  <2> QED
    BY <1>1, <2>1, <2>2
<1>3. Loose(Times(g), n, c)
  <2>1. CASE c = i
    BY <1>1, <2>1 DEF Sinking
  <2>2. CASE c # i
    BY <1>1, <1>2, <2>2, LooseOrNot DEF Sinking
  <2> QED
    BY <2>1, <2>2
<1>4. DownRound(s, n) = IF 2 * c + 1 >= n \/ Before(g, c, j) THEN s ELSE [h |-> SwapNode(g, c, j), i |-> j]
  BY <1>1 DEF DownRound
<1>5. ASSUME NEW p \in 0..(N - 1), NEW q \in 0..(N - 1) PROVE Before(g, p, q) <=> Times(g)[p] < Times(g)[q]
  BY <1>2 DEF Before, Times
<1>6. ASSUME 2 * c + 1 < n
      PROVE  /\ j \in 0..(n - 1) /\ j \in 0..(N - 1) /\ IsChild(c, j) /\ j > c /\ j \in i..(n - 1)
             /\ \A d \in 0..(n - 1) : IsChild(c, d) => Times(g)[j] <= Times(g)[d]
  <2>1. /\ 2 * c + 1 \in 0..(n - 1) /\ 2 * c + 1 \in 0..(N - 1) /\ 2 * c + 1 > c
        /\ 2 * c + 2 < n => 2 * c + 2 \in 0..(n - 1) /\ 2 * c + 2 \in 0..(N - 1) /\ 2 * c + 2 > c
    BY <1>2, <1>6
  <2>2. j = IF 2 * c + 2 < n /\ Before(g, 2 * c + 2, 2 * c + 1) THEN 2 * c + 2 ELSE 2 * c + 1
    BY DEF EarlierChild
  <2> HIDE DEF j
  <2>3. /\ Times(g)[2 * c + 1] \in Int
        /\ 2 * c + 2 < n => Times(g)[2 * c + 2] \in Int
        /\ 2 * c + 2 < n => (Before(g, 2 * c + 2, 2 * c + 1) <=> Times(g)[2 * c + 2] < Times(g)[2 * c + 1])
    BY <1>2, <1>5, <2>1
  <2>4. j \in 0..(n - 1) /\ j \in 0..(N - 1) /\ IsChild(c, j) /\ j > c
    BY <2>1, <2>2 DEF IsChild
  <2>5. j \in i..(n - 1)
    BY <1>2, <2>4
  <2>6. ASSUME NEW d \in 0..(n - 1), IsChild(c, d) PROVE Times(g)[j] <= Times(g)[d]
    <3>1. d = 2 * c + 1 \/ (d = 2 * c + 2 /\ 2 * c + 2 < n)
      BY <1>2, <2>6 DEF IsChild
    <3> QED
      BY <2>2, <2>3, <3>1
  <2> QED
    BY <2>4, <2>5, <2>6
<1> HIDE DEF j
<1>7. CASE 2 * c + 1 >= n
  <2>1. \A d \in 0..(n - 1) : ~IsChild(c, d)
    BY <1>2, <1>7 DEF IsChild
  <2> QED
    BY <1>1, <1>4, <1>7, <2>1 DEF Rests
<1>8. CASE 2 * c + 1 < n /\ Before(g, c, j)
  <2>1. ASSUME NEW d \in 0..(n - 1), IsChild(c, d) PROVE Times(g)[c] <= Times(g)[d]
    <3>1. Times(g)[c] < Times(g)[j] /\ Times(g)[j] <= Times(g)[d]
      BY <1>2, <1>5, <1>6, <1>8, <2>1
    <3>2. Times(g)[c] \in Int /\ Times(g)[j] \in Int /\ Times(g)[d] \in Int
      BY <1>2, <1>6, <1>8
    <3> QED
      BY <3>1, <3>2
  <2> QED
    BY <1>1, <1>4, <1>8, <2>1 DEF Rests
<1>9. CASE 2 * c + 1 < n /\ ~Before(g, c, j)
  <2> DEFINE f == SwapNode(g, c, j)
  <2>0. /\ j \in 0..(n - 1) /\ j \in 0..(N - 1) /\ IsChild(c, j) /\ j > c /\ j \in i..(n - 1) /\ c # j
        /\ \A d \in 0..(n - 1) : IsChild(c, d) => Times(g)[j] <= Times(g)[d]
    BY <1>2, <1>6, <1>9
  <2>1. /\ Indexed(f) /\ Len(f.heap) = N /\ LeftOf(f) = LeftOf(g)
        /\ Times(f) = Swapped(Times(g), c, j)
        /\ \A k \in 0..(N - 1) : k # c /\ k # j => f.heap[k + 1] = g.heap[k + 1]
    BY <1>2, <2>0, SwapKeeps
  <2>2. Times(g)[j] <= Times(g)[c]
    <3>1. ~(Times(g)[c] < Times(g)[j]) /\ Times(g)[c] \in Int /\ Times(g)[j] \in Int
      BY <1>2, <1>5, <1>9, <2>0
    <3> QED
      BY <3>1
  <2>3. DownFrom(Times(f), n, j)
    BY <1>2, <1>3, <2>0, <2>1, <2>2, DownOne
  <2> HIDE DEF f
  <2>4. Resifted(g, f, n)
    <3>1. \A k \in n..(N - 1) : k \in 0..(N - 1) /\ k # c /\ k # j
      BY <1>2, <2>0
    <3> QED
      BY <1>2, <2>1, <3>1 DEF Resifted
  <2>5. Resifted(h, f, n)
    BY <1>1, <2>4, ResiftedIsTransitive DEF Sinking
  <2>6. DownRound(s, n) = [h |-> f, i |-> j]
    BY <1>4, <1>9, <1>2 DEF f
  <2>7. DownRound(s, n).h = f /\ DownRound(s, n).i = j
    BY <2>6
  <2>8. j # i
    BY <1>2, <2>0
  <2>9. Sinking(h, i, n, DownRound(s, n))
    BY <2>0, <2>3, <2>5, <2>6, <2>7, <2>8 DEF Sinking
  <2> QED
    BY <1>1, <2>0, <2>7, <2>9
<1> QED
  BY <1>2, <1>7, <1>8, <1>9

\* siftdown_ moves the node at i down as far as it belongs, or not at all when
\* nothing below it is earlier.
LEMMA SiftDownSinks ==
  ASSUME NEW h, Indexed(h), NEW n \in 0..Len(h.heap), NEW i \in 0..(n - 1), Loose(Times(h), n, i)
  PROVE  /\ SiftDown(h, i, n).i \in i..(n - 1)
         /\ Resifted(h, SiftDown(h, i, n).h, n)
         /\ IF SiftDown(h, i, n).i = i THEN SiftDown(h, i, n).h = h /\ Rests(Times(h), n, i)
            ELSE Ordered(Times(SiftDown(h, i, n).h), n)
<1>1. Len(h.heap) \in Nat /\ n \in Nat /\ i \in Nat
  <2>1. Len(h.heap) \in Nat
    BY IndexedHas
  <2> QED
    BY <2>1
<1>2. PICK s : /\ s[0] = [h |-> h, i |-> i]
               /\ \A k \in 0..n : k # 0 => s[k] = DownRound(s[k - 1], n)
               /\ SiftDown(h, i, n) = s[n]
  BY <1>1, SiftDownRounds
<1> DEFINE Done(x) == DownRound(x, n) = x /\ Rests(Times(x.h), n, x.i)
<1> DEFINE T == {k \in 0..n : Sinking(h, i, n, s[k]) /\ (s[k].i >= i + k \/ Done(s[k]))}
<1>3. 0 \in T
  <2>1. s[0].h = h /\ s[0].i = i
    BY <1>2
  <2>2. Sinking(h, i, n, s[0])
    BY <1>1, <1>2, <2>1 DEF Sinking, Resifted
  <2> QED
    BY <1>1, <2>1, <2>2
<1>4. ASSUME NEW k \in 0..n, k \in T, k + 1 \in 0..n PROVE k + 1 \in T
  <2>1. PICK a, b : a = s[k] /\ b = s[k + 1]
    OBVIOUS
  <2>2. b = DownRound(a, n)
    <3>1. k + 1 # 0 /\ (k + 1) - 1 = k
      BY <1>1
    <3> QED
      BY <1>2, <1>4, <2>1, <3>1
  <2>3. Sinking(h, i, n, a) /\ (a.i >= i + k \/ Done(a))
    BY <1>4, <2>1
  <2>4. Sinking(h, i, n, b) /\ (b.i > a.i \/ Done(a))
    BY <1>1, <2>2, <2>3, DownRoundSinks
  <2>5. a.i \in i..(n - 1) /\ b.i \in i..(n - 1)
    BY <2>3, <2>4 DEF Sinking
  <2>6. b.i >= i + (k + 1) \/ Done(b)
    <3>1. CASE Done(a)
      BY <2>2, <3>1
    <3>2. CASE b.i > a.i /\ a.i >= i + k
      BY <1>1, <2>5, <3>2
    <3> QED
      BY <2>3, <2>4, <3>1, <3>2
  <2> QED
    BY <1>4, <2>1, <2>4, <2>6
<1>5. n \in T
  <2> HIDE DEF T
  <2>1. \A k \in 0..n : k \in T /\ k + 1 \in 0..n => k + 1 \in T
    BY <1>4
  <2>2. \A k \in 0..n : k \in T
    BY <1>1, <1>3, <2>1, UpToNumber, Zenon
  <2> QED
    BY <1>1, <2>2
<1>6. PICK r : r = s[n]
  OBVIOUS
<1>7. Sinking(h, i, n, r) /\ (r.i >= i + n \/ Done(r))
  BY <1>5, <1>6
<1>8. r.i \in i..(n - 1) /\ Resifted(h, r.h, n)
  BY <1>7 DEF Sinking
<1>9. Rests(Times(r.h), n, r.i)
  BY <1>1, <1>7, <1>8
<1>10. CASE r.i = i
  BY <1>2, <1>6, <1>7, <1>8, <1>9, <1>10 DEF Sinking
<1>11. CASE r.i # i
  <2>1. DownFrom(Times(r.h), n, r.i)
    BY <1>7, <1>11 DEF Sinking
  <2>2. Times(r.h) \in [0..(Len(h.heap) - 1) -> Int]
    BY <1>8, IndexedHas DEF Resifted
  <2>3. Ordered(Times(r.h), n)
    <3>1. PICK c : c = r.i /\ c \in 0..(n - 1)
      BY <1>1, <1>8
    <3>2. Rests(Times(r.h), n, c) /\ DownFrom(Times(r.h), n, c)
      BY <1>9, <2>1, <3>1
    <3> QED
      BY <1>1, <2>2, <3>1, <3>2, DownEnd DEF Rests
  <2> QED
    BY <1>2, <1>6, <1>8, <1>11, <2>3
<1> QED
  BY <1>10, <1>11

\* Where only the node at i may be out of order, siftdown_ and, when that moves
\* nothing, siftup_ repair it.
LEMMA SiftOrders ==
  ASSUME NEW h, Indexed(h), NEW n \in 0..Len(h.heap), NEW i \in 0..(n - 1), Loose(Times(h), n, i)
  PROVE  /\ Resifted(h, Sift(h, i, n).h, n)
         /\ Ordered(Times(Sift(h, i, n).h), n)
         /\ Sift(h, i, n) = [h |-> Sift(h, i, n).h, stray |-> Sift(h, i, n).stray]
         /\ Sift(h, i, n).stray \in BOOLEAN
<1>1. PICK d : d = SiftDown(h, i, n)
  OBVIOUS
<1>2. /\ d.i \in i..(n - 1) /\ Resifted(h, d.h, n)
      /\ IF d.i = i THEN d.h = h /\ Rests(Times(h), n, i) ELSE Ordered(Times(d.h), n)
  BY <1>1, SiftDownSinks
<1>3. Sift(h, i, n) = IF d.i > i THEN [h |-> d.h, stray |-> FALSE] ELSE SiftUp(d.h, i)
  BY <1>1 DEF Sift
<1>4. Len(h.heap) \in Nat /\ Times(h) \in [0..(Len(h.heap) - 1) -> Int] /\ d.i \in Int /\ d.i >= i
  <2>1. Len(h.heap) \in Nat /\ Times(h) \in [0..(Len(h.heap) - 1) -> Int]
    BY IndexedHas
  <2> QED
    BY <1>2, <2>1
<1>5. CASE d.i > i
  <2>1. Sift(h, i, n) = [h |-> d.h, stray |-> FALSE]
    BY <1>3, <1>5
  <2>2. Sift(h, i, n).h = d.h /\ Sift(h, i, n).stray = FALSE
    BY <2>1
  <2>3. Ordered(Times(d.h), n)
    BY <1>2, <1>4, <1>5
  <2> QED
    BY <1>2, <2>1, <2>2, <2>3
<1>6. CASE d.i = i
  <2>1. d.h = h /\ UpFrom(Times(h), n, i)
    BY <1>2, <1>4, <1>6, DownEnd DEF Rests
  <2>2. Sift(h, i, n) = SiftUp(h, i)
    BY <1>3, <1>4, <1>6, <2>1
  <2> QED
    BY <2>1, <2>2, SiftUpOrders
<1> QED
  BY <1>4, <1>5, <1>6

\* siftdown_ alone repairs it where the node may only belong further down.
LEMMA SiftDownOrders ==
  ASSUME NEW h, Indexed(h), NEW n \in 0..Len(h.heap), NEW i \in 0..(n - 1), DownFrom(Times(h), n, i)
  PROVE  Resifted(h, SiftDown(h, i, n).h, n) /\ Ordered(Times(SiftDown(h, i, n).h), n)
<1>1. Len(h.heap) \in Nat /\ Times(h) \in [0..(Len(h.heap) - 1) -> Int]
  BY IndexedHas
<1>2. Loose(Times(h), n, i)
  BY <1>1, LooseOrNot
<1>3. PICK d : d = SiftDown(h, i, n)
  OBVIOUS
<1>4. /\ d.i \in i..(n - 1) /\ Resifted(h, d.h, n)
      /\ IF d.i = i THEN d.h = h /\ Rests(Times(h), n, i) ELSE Ordered(Times(d.h), n)
  BY <1>2, <1>3, SiftDownSinks
<1>5. CASE d.i = i
  <2>1. Ordered(Times(h), n)
    BY <1>1, <1>4, <1>5, DownEnd DEF Rests
  <2> QED
    BY <1>3, <1>4, <1>5, <2>1
<1>6. CASE d.i # i
  BY <1>3, <1>4, <1>6
<1> QED
  BY <1>5, <1>6

-----------------------------------------------------------------------------
(* What the operations make of everybody's time.                           *)

StartedIn(f, id) == [j \in DOMAIN f \cup {id} |-> IF j = id THEN Span[id] ELSE f[j]]
StoppedIn(f, id) == Restrict(f, DOMAIN f \ {id})

\* A heap between two operations: no timer runs longer than its period.
Sound(h) ==
  /\ Indexed(h)
  /\ Ordered(Times(h), Len(h.heap))
  /\ \A id \in DOMAIN LeftOf(h) : LeftOf(h)[id] <= Span[id]

\* A period is a number of half milliseconds.
LEMMA SpanType == \A id \in Ids : Span[id] \in Int
BY HeapTimerAssumption DEF Span

\* What a time that changes leaves: the index, and the others' times.
HasLeft(h, g, i, t) ==
  /\ Indexed(g)
  /\ Len(g.heap) = Len(h.heap)
  /\ Times(g) = [Times(h) EXCEPT ![i] = t]
  /\ LeftOf(g) = [LeftOf(h) EXCEPT ![h.heap[i + 1].id] = t]

\* A new time for one place leaves the index and the other times.
LEMMA SetLeftKeeps ==
  ASSUME NEW h, Indexed(h), NEW i \in 0..(Len(h.heap) - 1), NEW t \in Int
  PROVE  HasLeft(h, SetLeft(h, i, t), i, t)
<1>1. PICK a, r, N : a = h.heap /\ r = h.ref /\ N = Len(h.heap)
  OBVIOUS
<1>2. PICK x, l : /\ x = a[i + 1].id /\ l = a[i + 1].left /\ x \in Ids /\ l \in Int
                  /\ a[i + 1] = [id |-> x, left |-> l]
  <2>1. a[i + 1] \in Nodes
    BY <1>1, IndexedHas
  <2> QED
    BY <2>1 DEF Nodes
<1>3. /\ N \in Nat /\ a \in [1..N -> Nodes] /\ a \in Seq(Nodes) /\ h = [heap |-> a, ref |-> r]
      /\ r \in [{a[k].id : k \in 1..N} -> Int]
      /\ \A k \in 1..N : r[a[k].id] = k - 1
  BY <1>1, IndexedHas DEF Indexed
<1>4. i \in Nat /\ i + 1 \in 1..N /\ (i + 1) - 1 = i
  BY <1>1, <1>3
<1> DEFINE b == [a EXCEPT ![i + 1] = [id |-> x, left |-> t]]
           g == SetLeft(h, i, t)
<1>5. g = [heap |-> b, ref |-> r]
  <2>1. [[id |-> x, left |-> l] EXCEPT !.left = t] = [id |-> x, left |-> t]
    OBVIOUS
  <2>2. [a EXCEPT ![i + 1].left = t] = b
    BY <1>2, <1>3, <1>4, <2>1
  <2>3. SetLeft([heap |-> a, ref |-> r], i, t) = [heap |-> [a EXCEPT ![i + 1].left = t], ref |-> r]
    BY DEF SetLeft
  <2> QED
    BY <1>3, <2>2, <2>3
<1>6. /\ b \in [1..N -> Nodes]
      /\ b[i + 1] = [id |-> x, left |-> t]
      /\ \A k \in 1..N : k # i + 1 => b[k] = a[k]
  BY <1>2, <1>3, <1>4 DEF Nodes
<1> HIDE DEF b, g
<1>7. b \in Seq(Nodes) /\ Len(b) = N
  BY <1>3, <1>6, FunctionIsSeq
<1>8. g.heap = b /\ g.ref = r
  BY <1>5
<1>9. \A k \in 1..N : b[k].id = a[k].id /\ b[k].left = IF k = i + 1 THEN t ELSE a[k].left
  BY <1>2, <1>6
<1>10. Indexed(g)
  <2>1. {b[k].id : k \in 1..N} = {a[k].id : k \in 1..N}
    BY <1>9
  <2>2. \A k \in 1..N : r[b[k].id] = k - 1
    BY <1>3, <1>9
  <2>3. r \in [{b[k].id : k \in 1..N} -> Int]
    BY <1>3, <2>1
  <2> QED
    BY <1>5, <1>7, <1>8, <2>2, <2>3, Zenon DEF Indexed
<1>11. Times(g) = [Times(h) EXCEPT ![i] = t]
  <2>1. Times(g) = [k \in 0..(N - 1) |-> b[k + 1].left] /\ Times(h) = [k \in 0..(N - 1) |-> a[k + 1].left]
    BY <1>1, <1>7, <1>8 DEF Times
  <2>2. ASSUME NEW k \in 0..(N - 1) PROVE b[k + 1].left = IF k = i THEN t ELSE a[k + 1].left
    <3>1. k + 1 \in 1..N /\ (k = i <=> k + 1 = i + 1)
      BY <1>3, <1>4
    <3> QED
      BY <1>9, <3>1
  <2> QED
    BY <2>1, <2>2
<1>12. LeftOf(g) = [LeftOf(h) EXCEPT ![x] = t]
  <2>1. LeftOf(g) = [j \in DOMAIN r |-> b[r[j] + 1].left] /\ LeftOf(h) = [j \in DOMAIN r |-> a[r[j] + 1].left]
    BY <1>1, <1>8 DEF LeftOf
  <2>2. ASSUME NEW j \in DOMAIN r PROVE b[r[j] + 1].left = IF j = x THEN t ELSE a[r[j] + 1].left
    <3>1. PICK k \in 1..N : a[k].id = j
      BY <1>3
    <3>2. r[j] = k - 1
      BY <1>3, <3>1
    <3>3. r[j] + 1 = k
      BY <3>2
    <3>4. r[x] = i
      BY <1>2, <1>3, <1>4
    <3>5. j = x <=> k = i + 1
      BY <1>2, <1>4, <3>1, <3>3, <3>4
    <3> QED
      BY <1>9, <3>3, <3>5
  <2> QED
    BY <2>1, <2>2
<1> QED
  BY <1>1, <1>2, <1>7, <1>8, <1>10, <1>11, <1>12 DEF g, HasLeft

\* What a changed time does to the order: it may belong elsewhere, and only
\* further down when it was put off.
LEMMA ChangedIsLoose ==
  ASSUME NEW n \in Nat, NEW t \in [0..(n - 1) -> Int], NEW i \in 0..(n - 1), NEW v \in Int, Ordered(t, n)
  PROVE  /\ Loose([t EXCEPT ![i] = v], n, i)
         /\ t[i] <= v => DownFrom([t EXCEPT ![i] = v], n, i)
<1> DEFINE u == [t EXCEPT ![i] = v]
<1>1. \A k \in 0..(n - 1) : t[k] \in Int /\ u[k] = IF k = i THEN v ELSE t[k]
  OBVIOUS
<1> HIDE DEF u
<1>2. Spans(u, n, i)
  <2>1. ASSUME NEW p \in 0..(n - 1), NEW c \in 0..(n - 1), IsChild(p, i), IsChild(i, c) PROVE u[p] <= u[c]
    <3>1. t[p] <= t[i] /\ t[i] <= t[c]
      BY <2>1 DEF Ordered
    <3>2. p # i /\ c # i
      BY <2>1 DEF IsChild
    <3>3. t[p] \in Int /\ t[i] \in Int /\ t[c] \in Int
      BY <1>1
    <3> QED
      BY <1>1, <3>1, <3>2, <3>3
  <2> QED
    BY <2>1 DEF Spans
<1>3. ASSUME NEW p \in 0..(n - 1), NEW c \in 0..(n - 1), IsChild(p, c), p # i, c # i \/ t[i] <= v PROVE u[p] <= u[c]
  <2>1. t[p] <= t[c] /\ t[p] \in Int /\ t[c] \in Int
    BY <1>1, <1>3 DEF Ordered
  <2>2. u[p] = t[p] /\ u[c] = IF c = i THEN v ELSE t[c]
    BY <1>1, <1>3
  <2> QED
    BY <1>3, <2>1, <2>2
<1> QED
  BY <1>2, <1>3 DEF Loose, DownFrom, u

\* Adjusting a timer and adding one that runs start it again and leave the
\* others; siftdown_ is enough for adjust since the new time is no earlier.
LEMMA AdjustAndAddOld ==
  ASSUME NEW h, Sound(h), NEW id \in DOMAIN h.ref
  PROVE  /\ Sound(AdjustIn(h, id)) /\ LeftOf(AdjustIn(h, id)) = StartedIn(LeftOf(h), id)
         /\ Sound(AddOld(h, id).h) /\ LeftOf(AddOld(h, id).h) = StartedIn(LeftOf(h), id)
         /\ AddOld(h, id).stray \in BOOLEAN
<1>1. PICK i, N : i = h.ref[id] /\ N = Len(h.heap)
  OBVIOUS
<1>2. /\ Indexed(h) /\ N \in Nat /\ i \in 0..(N - 1) /\ h.heap[i + 1].id = id
      /\ Times(h) \in [0..(N - 1) -> Int] /\ Ordered(Times(h), N) /\ h.heap[i + 1] \in Nodes
  BY <1>1, IndexedHas DEF Sound
<1>3. id \in Ids /\ Span[id] \in Int
  BY <1>2, SpanType DEF Nodes
<1>4. /\ DOMAIN LeftOf(h) = DOMAIN h.ref
      /\ \A j \in DOMAIN h.ref : LeftOf(h)[j] = h.heap[h.ref[j] + 1].left
  BY DEF LeftOf
<1>5. Times(h)[i] <= Span[id]
  <2>1. Times(h)[i] = LeftOf(h)[id]
    BY <1>1, <1>2, <1>4 DEF Times
  <2> QED
    BY <1>4, <2>1 DEF Sound
<1> DEFINE g == SetLeft(h, i, Span[id])
<1>6. i \in 0..(Len(h.heap) - 1) /\ g = SetLeft(h, i, Span[id])
  BY <1>1, <1>2
<1> HIDE DEF g
<1>7. /\ Indexed(g) /\ Len(g.heap) = N
      /\ Loose(Times(g), N, i) /\ DownFrom(Times(g), N, i)
      /\ LeftOf(g) = StartedIn(LeftOf(h), id)
  <2>1. /\ Indexed(g) /\ Len(g.heap) = N
        /\ Times(g) = [Times(h) EXCEPT ![i] = Span[id]]
        /\ LeftOf(g) = [LeftOf(h) EXCEPT ![id] = Span[id]]
    <3>1. PICK v : v \in Int /\ v = Span[id]
      BY <1>3
    <3>2. HasLeft(h, SetLeft(h, i, v), i, v)
      BY <1>2, <1>6, <3>1, SetLeftKeeps
    <3> QED
      BY <1>1, <1>2, <1>6, <3>1, <3>2 DEF HasLeft
  <2>2. LeftOf(g) = StartedIn(LeftOf(h), id)
    <3>1. DOMAIN LeftOf(h) \cup {id} = DOMAIN h.ref
      BY <1>4
    <3>2. LeftOf(g) = [j \in DOMAIN h.ref |-> IF j = id THEN Span[id] ELSE LeftOf(h)[j]]
      BY <1>4, <2>1
    <3> QED
      BY <3>1, <3>2 DEF StartedIn
  <2>3. Loose(Times(g), N, i) /\ DownFrom(Times(g), N, i)
    <3>1. PICK t, v : t = Times(h) /\ v = Span[id]
      OBVIOUS
    <3>2. Loose([t EXCEPT ![i] = v], N, i) /\ DownFrom([t EXCEPT ![i] = v], N, i)
      BY <1>2, <1>3, <1>5, <3>1, ChangedIsLoose
    <3> QED
      BY <2>1, <3>1, <3>2
  <2> QED
    BY <2>1, <2>2, <2>3
<1>8. AdjustIn(h, id) = SiftDown(g, i, N).h /\ AddOld(h, id) = Sift(g, i, N)
  BY <1>1, <1>6 DEF AdjustIn, AddOld
<1>9. /\ Resifted(g, AdjustIn(h, id), N) /\ Ordered(Times(AdjustIn(h, id)), N)
      /\ Resifted(g, AddOld(h, id).h, N) /\ Ordered(Times(AddOld(h, id).h), N)
      /\ AddOld(h, id).stray \in BOOLEAN
  <2>1. N \in 0..Len(g.heap)
    BY <1>2, <1>7
  <2>2. Resifted(g, SiftDown(g, i, N).h, N) /\ Ordered(Times(SiftDown(g, i, N).h), N)
    BY <1>2, <1>7, <2>1, SiftDownOrders
  <2>3. Resifted(g, Sift(g, i, N).h, N) /\ Ordered(Times(Sift(g, i, N).h), N) /\ Sift(g, i, N).stray \in BOOLEAN
    BY <1>2, <1>7, <2>1, SiftOrders
  <2> QED
    BY <1>8, <2>2, <2>3
<1>10. \A j \in DOMAIN StartedIn(LeftOf(h), id) : StartedIn(LeftOf(h), id)[j] <= Span[j]
  BY <1>3, <1>4 DEF StartedIn, Sound
<1>11. ASSUME NEW f, Resifted(g, f, N), Ordered(Times(f), N)
       PROVE  Sound(f) /\ LeftOf(f) = StartedIn(LeftOf(h), id)
  BY <1>7, <1>10, <1>11 DEF Resifted, Sound
<1> QED
  BY <1>9, <1>11

\* A new timer is in its place when it has risen from the back.
LEMMA AddNewStarts ==
  ASSUME NEW h, Sound(h), NEW id \in Ids, id \notin DOMAIN h.ref
  PROVE  /\ Sound(AddNew(h, id).h) /\ LeftOf(AddNew(h, id).h) = StartedIn(LeftOf(h), id)
         /\ AddNew(h, id).stray \in BOOLEAN
<1>1. PICK a, r, N, v : a = h.heap /\ r = h.ref /\ N = Len(h.heap) /\ v = Span[id]
  OBVIOUS
<1>2. /\ Indexed(h) /\ N \in Nat /\ a \in [1..N -> Nodes] /\ a \in Seq(Nodes)
      /\ r \in [{a[k].id : k \in 1..N} -> Int]
      /\ \A k \in 1..N : r[a[k].id] = k - 1
      /\ Times(h) \in [0..(N - 1) -> Int] /\ Ordered(Times(h), N)
  <2>1. Indexed(h)
    BY DEF Sound
  <2>2. N \in Nat /\ a \in [1..N -> Nodes] /\ Times(h) \in [0..(N - 1) -> Int]
    BY <1>1, <2>1, IndexedHas
  <2>3. a \in Seq(Nodes) /\ r \in [{a[k].id : k \in 1..N} -> Int] /\ \A k \in 1..N : r[a[k].id] = k - 1
    BY <1>1, <2>1 DEF Indexed
  <2>4. Ordered(Times(h), N)
    BY <1>1 DEF Sound
  <2> QED
    BY <2>1, <2>2, <2>3, <2>4
<1>3. v \in Int /\ N + 1 \in 1..(N + 1) /\ 1..(N + 1) = 1..N \cup {N + 1} /\ N + 1 \notin 1..N /\ (N + 1) - 1 = N
  BY <1>1, <1>2, SpanType
<1> DEFINE e == [id |-> id, left |-> v]
           b == Append(a, e)
           q == [j \in DOMAIN r \cup {id} |-> IF j = id THEN N ELSE r[j]]
           g == [heap |-> b, ref |-> q]
<1>4. e \in Nodes /\ e.id = id /\ e.left = v
  BY <1>3 DEF Nodes
<1>5. b \in Seq(Nodes) /\ Len(b) = N + 1 /\ \A k \in 1..N : b[k] = a[k]
  <2> HIDE DEF e
  <2> QED
    BY <1>1, <1>2, <1>4, AppendProperties
<1>6. b[N + 1] = e
  <2> HIDE DEF e
  <2> QED
    BY <1>1, <1>2, <1>4, AppendProperties
<1>7. /\ DOMAIN q = DOMAIN r \cup {id} /\ q[id] = N
      /\ \A j \in DOMAIN r : j # id => q[j] = r[j]
  OBVIOUS
<1>8. g.heap = b /\ g.ref = q /\ g = [heap |-> g.heap, ref |-> g.ref]
  OBVIOUS
<1>9. AddNew(h, id) = SiftUp(g, N)
  BY <1>1 DEF AddNew
<1> HIDE DEF e, b, q, g
<1>10. \A k \in 1..N : a[k].id \in DOMAIN r /\ a[k].id # id /\ a[k].id \in Ids /\ a[k].left \in Int
  BY <1>1, <1>2 DEF Nodes
<1>11. Indexed(g)
  <2>1. {b[k].id : k \in 1..(N + 1)} = {a[k].id : k \in 1..N} \cup {id}
    BY <1>3, <1>4, <1>5, <1>6
  <2>2. ASSUME NEW j \in DOMAIN q PROVE q[j] \in Int
    BY <1>2, <1>7
  <2>3. q = [j \in DOMAIN q |-> q[j]]
    BY DEF q
  <2>4. DOMAIN r = {a[k].id : k \in 1..N}
    BY <1>2
  <2>5. q \in [{b[k].id : k \in 1..(N + 1)} -> Int]
    BY <1>7, <2>1, <2>2, <2>3, <2>4
  <2>6. ASSUME NEW k \in 1..(N + 1) PROVE q[b[k].id] = k - 1
    <3>1. CASE k = N + 1
      BY <1>3, <1>4, <1>6, <1>7, <3>1
    <3>2. CASE k \in 1..N
      BY <1>2, <1>5, <1>7, <1>10, <3>2
    <3> QED
      BY <1>3, <3>1, <3>2
  <2> QED
    BY <1>5, <1>8, <2>5, <2>6 DEF Indexed
<1>12. Times(g)[N] = v /\ \A k \in 0..(N - 1) : Times(g)[k] = Times(h)[k]
  <2>1. Times(g) = [k \in 0..((N + 1) - 1) |-> b[k + 1].left] /\ Times(h) = [k \in 0..(N - 1) |-> a[k + 1].left]
    BY <1>1, <1>5, <1>8 DEF Times
  <2>2. N \in 0..((N + 1) - 1) /\ \A k \in 0..(N - 1) : k \in 0..((N + 1) - 1) /\ k + 1 \in 1..N
    BY <1>2
  <2> QED
    BY <1>4, <1>5, <1>6, <2>1, <2>2
<1>13. UpFrom(Times(g), N + 1, N)
  <2>1. ASSUME NEW p \in 0..((N + 1) - 1), NEW c \in 0..((N + 1) - 1), IsChild(p, c)
        PROVE  p # N /\ (c # N => Times(g)[p] <= Times(g)[c])
    <3>1. p < c /\ (c # N => c \in 0..(N - 1) /\ p \in 0..(N - 1))
      BY <1>2, <2>1, OneParent
    <3>2. c # N => Times(h)[p] <= Times(h)[c]
      BY <1>2, <2>1, <3>1 DEF Ordered
    <3> QED
      BY <1>2, <1>12, <3>1, <3>2
  <2>2. N \in 0..((N + 1) - 1)
    BY <1>2
  <2> QED
    BY <2>1, <2>2 DEF UpFrom, Spans
<1>14. LeftOf(g) = StartedIn(LeftOf(h), id)
  <2>1. LeftOf(g) = [j \in DOMAIN q |-> b[q[j] + 1].left] /\ LeftOf(h) = [j \in DOMAIN r |-> a[r[j] + 1].left]
    BY <1>1, <1>8 DEF LeftOf
  <2>2. ASSUME NEW j \in DOMAIN q PROVE b[q[j] + 1].left = IF j = id THEN Span[id] ELSE a[r[j] + 1].left
    <3>1. CASE j = id
      BY <1>1, <1>4, <1>6, <1>7, <3>1
    <3>2. CASE j # id
      <4>1. j \in DOMAIN r /\ q[j] = r[j]
        BY <1>7, <3>2
      <4>2. PICK k \in 1..N : a[k].id = j
        BY <1>2, <4>1
      <4>3. r[j] = k - 1
        BY <1>2, <4>2
      <4>4. r[j] + 1 = k
        BY <4>3
      <4> QED
        BY <1>5, <3>2, <4>1, <4>4
    <3> QED
      BY <3>1, <3>2
  <2>3. \A j \in DOMAIN r : LeftOf(h)[j] = a[r[j] + 1].left
    BY <2>1
  <2>4. DOMAIN LeftOf(h) = DOMAIN r /\ id \notin DOMAIN r
    BY <1>1, <2>1
  <2> DEFINE f == LeftOf(h)
             d == LeftOf(g)
  <2>5. d = [j \in DOMAIN q |-> d[j]] /\ DOMAIN d = DOMAIN f \cup {id}
    BY <1>7, <2>1, <2>4
  <2>6. ASSUME NEW j \in DOMAIN q PROVE d[j] = IF j = id THEN Span[id] ELSE f[j]
    BY <1>7, <2>1, <2>2, <2>3
  <2> HIDE DEF f, d
  <2>7. d = StartedIn(f, id)
    BY <1>7, <2>5, <2>6 DEF StartedIn
  <2> QED
    BY <2>7 DEF f, d
<1>15. /\ Resifted(g, SiftUp(g, N).h, N + 1) /\ Ordered(Times(SiftUp(g, N).h), N + 1)
       /\ SiftUp(g, N).stray \in BOOLEAN
  <2>1. N + 1 \in 0..Len(g.heap) /\ N \in 0..((N + 1) - 1)
    BY <1>2, <1>5, <1>8
  <2> QED
    BY <1>11, <1>13, <2>1, SiftUpOrders
<1>16. \A j \in DOMAIN StartedIn(LeftOf(h), id) : StartedIn(LeftOf(h), id)[j] <= Span[j]
  <2>1. \A j \in DOMAIN LeftOf(h) : LeftOf(h)[j] <= Span[j]
    BY DEF Sound
  <2> QED
    BY <1>1, <1>3, <2>1 DEF StartedIn
<1> QED
  BY <1>5, <1>8, <1>9, <1>14, <1>15, <1>16 DEF Resifted, Sound

\* Taking the last node off leaves the others with their times.
LEMMA PopBackKeeps ==
  ASSUME NEW h, Indexed(h), Len(h.heap) # 0
  PROVE  /\ Indexed(PopBack(h))
         /\ Len(PopBack(h).heap) = Len(h.heap) - 1
         /\ LeftOf(PopBack(h)) = StoppedIn(LeftOf(h), h.heap[Len(h.heap)].id)
         /\ \A k \in 0..(Len(h.heap) - 2) : Times(PopBack(h))[k] = Times(h)[k]
<1>1. PICK a, r, N : a = h.heap /\ r = h.ref /\ N = Len(h.heap)
  OBVIOUS
<1>2. /\ N \in Nat /\ N # 0 /\ a \in [1..N -> Nodes] /\ a \in Seq(Nodes)
      /\ r \in [{a[k].id : k \in 1..N} -> Int]
      /\ \A k \in 1..N : r[a[k].id] = k - 1
  <2>1. N \in Nat /\ a \in [1..N -> Nodes]
    BY <1>1, IndexedHas
  <2> QED
    BY <1>1, <2>1 DEF Indexed
<1>3. PICK M, x : M = N - 1 /\ x = a[N].id
  OBVIOUS
<1>4. M \in Nat /\ 1..N = 1..M \cup {N} /\ N \notin 1..M /\ N \in 1..N /\ M + 1 = N
  BY <1>2, <1>3
<1> DEFINE b == Front(a)
           q == Restrict(r, DOMAIN r \ {x})
           g == PopBack(h)
<1>5. g = [heap |-> b, ref |-> q]
  BY <1>1, <1>3 DEF PopBack, Last
<1>6. b \in Seq(Nodes) /\ Len(b) = M /\ \A k \in 1..M : b[k] = a[k]
  <2>1. b = SubSeq(a, 1, M)
    BY <1>1, <1>3 DEF Front
  <2>2. \A k \in 1..M : a[k] \in Nodes
    BY <1>2, <1>4
  <2>3. /\ SubSeq(a, 1, M) \in Seq(Nodes)
        /\ Len(SubSeq(a, 1, M)) = IF 1 <= M THEN M - 1 + 1 ELSE 0
        /\ \A k \in 1..(M - 1 + 1) : SubSeq(a, 1, M)[k] = a[1 + k - 1]
    BY <1>4, <2>2, SubSeqProperties
  <2>4. M - 1 + 1 = M /\ \A k \in 1..M : 1 + k - 1 = k
    BY <1>4
  <2> QED
    BY <1>4, <2>1, <2>3, <2>4
<1>7. DOMAIN q = DOMAIN r \ {x} /\ \A j \in DOMAIN r \ {x} : q[j] = r[j]
  BY DEF Restrict
<1>8. q = [j \in DOMAIN q |-> q[j]]
  BY DEF Restrict
<1> HIDE DEF b, q, g
<1>9. g.heap = b /\ g.ref = q /\ g = [heap |-> g.heap, ref |-> g.ref]
  BY <1>5
<1>10. \A k \in 1..M : a[k].id \in DOMAIN r /\ a[k].id # x
  <2>1. ASSUME NEW k \in 1..M PROVE a[k].id \in DOMAIN r /\ a[k].id # x
    <3>1. k \in 1..N /\ k # N
      BY <1>4
    <3>2. r[a[k].id] = k - 1 /\ r[x] = N - 1
      BY <1>2, <1>3, <1>4, <3>1
    <3>3. k - 1 # N - 1
      BY <1>2, <3>1
    <3> QED
      BY <1>2, <3>1, <3>2, <3>3
  <2> QED
    BY <2>1
<1>11. ASSUME NEW j \in DOMAIN q PROVE \E k \in 1..M : a[k].id = j /\ q[j] = k - 1 /\ r[j] = k - 1
  <2>1. j \in DOMAIN r /\ j # x /\ q[j] = r[j]
    BY <1>7
  <2>2. PICK k \in 1..N : a[k].id = j
    BY <1>2, <2>1
  <2>3. k \in 1..M
    BY <1>3, <1>4, <2>1, <2>2
  <2> QED
    BY <1>2, <2>1, <2>2, <2>3
<1>12. Indexed(g)
  <2>1. \A k \in 1..M : b[k].id = a[k].id /\ b[k].id \in DOMAIN q
    BY <1>6, <1>7, <1>10
  <2>2. DOMAIN q = {b[k].id : k \in 1..M}
    BY <1>11, <2>1
  <2>3. ASSUME NEW j \in DOMAIN q PROVE q[j] \in Int
    BY <1>4, <1>11
  <2>4. q \in [{b[k].id : k \in 1..M} -> Int]
    BY <1>8, <2>2, <2>3
  <2>5. \A k \in 1..M : q[b[k].id] = k - 1
    <3>1. ASSUME NEW k \in 1..M PROVE q[b[k].id] = k - 1
      BY <1>2, <1>4, <1>7, <1>10, <2>1
    <3> QED
      BY <3>1
  <2> QED
    BY <1>6, <1>9, <2>4, <2>5 DEF Indexed
<1>13. LeftOf(g) = StoppedIn(LeftOf(h), x)
  <2>1. LeftOf(g) = [j \in DOMAIN q |-> b[q[j] + 1].left] /\ LeftOf(h) = [j \in DOMAIN r |-> a[r[j] + 1].left]
    BY <1>1, <1>9 DEF LeftOf
  <2>2. ASSUME NEW j \in DOMAIN q PROVE b[q[j] + 1].left = a[r[j] + 1].left
    <3>1. PICK k \in 1..M : q[j] = k - 1 /\ r[j] = k - 1
      BY <1>11
    <3>2. q[j] + 1 = k /\ r[j] + 1 = k
      BY <1>4, <3>1
    <3> QED
      BY <1>6, <3>2
  <2> DEFINE f == LeftOf(h)
             d == LeftOf(g)
  <2>3. d = [j \in DOMAIN q |-> d[j]] /\ DOMAIN f = DOMAIN r
    BY <2>1
  <2>4. ASSUME NEW j \in DOMAIN q PROVE d[j] = f[j]
    BY <1>7, <2>1, <2>2
  <2> HIDE DEF f, d
  <2>5. d = StoppedIn(f, x)
    BY <1>7, <2>3, <2>4 DEF StoppedIn, Restrict
  <2> QED
    BY <2>5 DEF f, d
<1>14. \A k \in 0..(N - 2) : Times(g)[k] = Times(h)[k]
  <2>1. Times(g) = [k \in 0..(M - 1) |-> b[k + 1].left] /\ Times(h) = [k \in 0..(N - 1) |-> a[k + 1].left]
    BY <1>1, <1>6, <1>9 DEF Times
  <2>2. ASSUME NEW k \in 0..(N - 2) PROVE Times(g)[k] = Times(h)[k]
    <3>1. k \in 0..(M - 1) /\ k \in 0..(N - 1) /\ k + 1 \in 1..M
      BY <1>2, <1>3
    <3>2. Times(g)[k] = b[k + 1].left /\ Times(h)[k] = a[k + 1].left
      BY <2>1, <3>1
    <3> QED
      BY <1>6, <3>1, <3>2
  <2> QED
    BY <2>2
<1> QED
  BY <1>1, <1>3, <1>6, <1>9, <1>12, <1>13, <1>14 DEF g

\* Removing a timer leaves the others; what came to its place from the back
\* may have to go up or down.
LEMMA DelStops ==
  ASSUME NEW h, Sound(h), NEW i \in 0..(Len(h.heap) - 1)
  PROVE  /\ Sound(Del(h, i).h) /\ LeftOf(Del(h, i).h) = StoppedIn(LeftOf(h), h.heap[i + 1].id)
         /\ Del(h, i).stray \in BOOLEAN
<1>1. PICK N, n, x, t : N = Len(h.heap) /\ n = N - 1 /\ x = h.heap[i + 1].id /\ t = Times(h)
  OBVIOUS
<1>2. /\ Indexed(h) /\ N \in Nat /\ i \in 0..(N - 1) /\ t \in [0..(N - 1) -> Int] /\ Ordered(t, N)
  <2>1. Indexed(h) /\ Ordered(t, N)
    BY <1>1 DEF Sound
  <2> QED
    BY <1>1, <2>1, IndexedHas
<1>3. n \in Nat /\ i \in 0..n /\ n \in 0..(N - 1) /\ n + 1 = N /\ N - 2 = n - 1 /\ N # 0
  BY <1>1, <1>2
<1> DEFINE g == SwapNode(h, i, n)
           s == IF i < n THEN Sift(g, i, n) ELSE [h |-> h, stray |-> FALSE]
<1>4. Del(h, i) = [s EXCEPT !.h = PopBack(s.h)]
  BY <1>1, <1>3 DEF Del
<1>5. /\ s = [h |-> s.h, stray |-> s.stray] /\ s.stray \in BOOLEAN
      /\ Indexed(s.h) /\ Len(s.h.heap) = N /\ LeftOf(s.h) = LeftOf(h) /\ Ordered(Times(s.h), n)
      /\ s.h.heap[N].id = x
  <2>1. CASE i < n
    <3>1. i # n /\ i \in 0..(Len(h.heap) - 1) /\ n \in 0..(Len(h.heap) - 1)
      BY <1>1, <1>2, <1>3, <2>1
    <3>2. /\ Indexed(g) /\ Len(g.heap) = N /\ LeftOf(g) = LeftOf(h)
          /\ Times(g) = Swapped(t, i, n) /\ g.heap[n + 1] = h.heap[i + 1]
      BY <1>1, <1>2, <3>1, SwapKeeps
    <3> DEFINE u == Swapped(t, i, n)
    <3>3. \A k \in 0..(n - 1) : k \in 0..(N - 1) /\ t[k] \in Int /\ (k # i => u[k] = t[k])
      BY <1>2, <1>3 DEF Swapped
    <3> HIDE DEF u
    <3>4. i \in 0..(n - 1) /\ t[i] \in Int /\ i \in 0..(N - 1)
      BY <1>2, <1>3, <2>1
    <3>5. ASSUME NEW p \in 0..(n - 1), NEW c \in 0..(n - 1), IsChild(p, c) PROVE t[p] <= t[c]
      BY <1>2, <3>3, <3>5 DEF Ordered
    <3>6. Spans(u, n, i)
      <4>1. ASSUME NEW p \in 0..(n - 1), NEW c \in 0..(n - 1), IsChild(p, i), IsChild(i, c) PROVE u[p] <= u[c]
        <5>1. t[p] <= t[i] /\ t[i] <= t[c] /\ t[p] \in Int /\ t[c] \in Int
          BY <3>3, <3>4, <3>5, <4>1
        <5>2. p # i /\ c # i
          BY <4>1 DEF IsChild
        <5> QED
          BY <3>3, <3>4, <5>1, <5>2
      <4> QED
        BY <4>1 DEF Spans
    <3>7. Loose(u, n, i)
      BY <3>3, <3>5, <3>6 DEF Loose
    <3>8. PICK d : d = Sift(g, i, n)
      OBVIOUS
    <3>9. Resifted(g, d.h, n) /\ Ordered(Times(d.h), n) /\ d = [h |-> d.h, stray |-> d.stray] /\ d.stray \in BOOLEAN
      <4>1. n \in 0..Len(g.heap)
        BY <1>2, <1>3, <3>2
      <4> HIDE DEF g
      <4> QED
        BY <3>2, <3>4, <3>7, <3>8, <4>1, SiftOrders DEF u
    <3>10. d.h.heap[n + 1] = g.heap[n + 1]
      <4>1. n \in n..(Len(g.heap) - 1)
        BY <1>2, <1>3, <3>2
      <4> QED
        BY <3>9, <4>1 DEF Resifted
    <3>11. s = d
      BY <2>1, <3>8
    <3> HIDE DEF s, g
    <3> QED
      BY <1>1, <1>3, <3>2, <3>9, <3>10, <3>11 DEF Resifted
  <2>2. CASE i = n
    <3>1. s = [h |-> h, stray |-> FALSE]
      BY <1>3, <2>2
    <3>2. s.h = h /\ s.stray = FALSE
      BY <3>1
    <3>3. Ordered(t, n)
      <4>1. \A k \in 0..(n - 1) : k \in 0..(N - 1)
        BY <1>2, <1>3
      <4> QED
        BY <1>2, <4>1 DEF Ordered
    <3> HIDE DEF s
    <3> QED
      BY <1>1, <1>2, <1>3, <2>2, <3>1, <3>2, <3>3
  <2> HIDE DEF s, g
  <2> QED
    BY <1>3, <2>1, <2>2
<1> HIDE DEF s, g
<1>6. PICK f, y : f = s.h /\ y = s.stray
  OBVIOUS
<1>7. Del(h, i) = [h |-> PopBack(f), stray |-> y]
  <2>1. s = [h |-> f, stray |-> y]
    BY <1>5, <1>6
  <2> QED
    BY <1>4, <1>6, <2>1
<1>8. Del(h, i).h = PopBack(f) /\ Del(h, i).stray = y
  BY <1>7
<1> DEFINE k == PopBack(f)
<1>9. /\ Indexed(k) /\ Len(k.heap) = n /\ LeftOf(k) = StoppedIn(LeftOf(h), x)
      /\ \A c \in 0..(n - 1) : Times(k)[c] = Times(f)[c]
  <2>1. Indexed(f) /\ Len(f.heap) = N /\ LeftOf(f) = LeftOf(h) /\ f.heap[N].id = x /\ Len(f.heap) # 0
    BY <1>3, <1>5, <1>6
  <2>2. /\ Indexed(k) /\ Len(k.heap) = Len(f.heap) - 1
        /\ LeftOf(k) = StoppedIn(LeftOf(f), f.heap[Len(f.heap)].id)
        /\ \A c \in 0..(Len(f.heap) - 2) : Times(k)[c] = Times(f)[c]
    BY <2>1, PopBackKeeps
  <2> HIDE DEF k
  <2> QED
    BY <1>1, <1>3, <2>1, <2>2
<1> HIDE DEF k
<1>10. Ordered(Times(k), n)
  BY <1>5, <1>6, <1>9 DEF Ordered
<1>11. \A j \in DOMAIN StoppedIn(LeftOf(h), x) : StoppedIn(LeftOf(h), x)[j] <= Span[j]
  <2>1. \A j \in DOMAIN LeftOf(h) : LeftOf(h)[j] <= Span[j]
    BY DEF Sound
  <2> QED
    BY <2>1 DEF StoppedIn, Restrict
<1> QED
  BY <1>1, <1>5, <1>6, <1>8, <1>9, <1>10, <1>11 DEF Sound, k

-----------------------------------------------------------------------------
(* The invariant.                                                          *)

LoopTypes ==
  /\ pc \in {"tick", "ask", "wait", "serve", "tock"}
  /\ timeout \in Int /\ waited \in Nat /\ delay \in 0..MaxDelay
  /\ called \in {None} \cup ({"due", "asked"} \X Ids)
  /\ late \in BOOLEAN /\ aborted \in BOOLEAN

\* The heap is in order even after a failed assertion: siftup_ looks in front
\* of the array when it has nothing left to repair.
HeapInv ==
  /\ Sound(State)
  /\ LoopTypes
  /\ NoneOverdue
  /\ SleepsTillFirst

\* What the refinement maps to is everybody's time in the heap.
LEMMA RunningIsLeftOf == Running = LeftOf(State)
BY DEF Running, LeftOf, State, Left

\* The parts of State.
LEMMA StateHas == State.heap = heap /\ State.ref = ref
BY DEF State

\* The first node of a heap is the earliest one.
LEMMA FirstIsLeast ==
  ASSUME NEW h, Sound(h), Len(h.heap) # 0
  PROVE  /\ h.heap[1] \in Nodes
         /\ h.heap[1].id \in DOMAIN LeftOf(h) /\ LeftOf(h)[h.heap[1].id] = h.heap[1].left
         /\ \A k \in 1..Len(h.heap) : h.heap[k].left \in Int /\ h.heap[1].left <= h.heap[k].left
         /\ \A j \in DOMAIN LeftOf(h) : h.heap[1].left <= LeftOf(h)[j]
<1>1. PICK N, t : N = Len(h.heap) /\ t = Times(h)
  OBVIOUS
<1>2. /\ Indexed(h) /\ N \in Nat /\ N # 0 /\ t \in [0..(N - 1) -> Int] /\ Ordered(t, N)
      /\ h.heap \in [1..N -> Nodes]
  <2>1. Indexed(h) /\ Ordered(t, N)
    BY <1>1 DEF Sound
  <2> QED
    BY <1>1, <2>1, IndexedHas
<1>3. /\ 0 \in 0..(N - 1) /\ 0 + 1 = 1
      /\ \A k \in 1..N : k - 1 \in 0..(N - 1) /\ (k - 1) + 1 = k
  BY <1>2
<1>4. \A k \in 0..(N - 1) : t[k] = h.heap[k + 1].left /\ t[0] <= t[k]
  <2>1. \A k \in 0..(N - 1) : t[k] = h.heap[k + 1].left
    BY <1>1 DEF Times
  <2> QED
    BY <1>2, <2>1, RootIsFirst
<1>5. ASSUME NEW k \in 1..N PROVE h.heap[1].left <= h.heap[k].left /\ h.heap[k] \in Nodes
  <2>1. t[0] = h.heap[0 + 1].left /\ t[k - 1] = h.heap[(k - 1) + 1].left /\ t[0] <= t[k - 1]
    BY <1>3, <1>4
  <2> QED
    BY <1>2, <1>3, <2>1
<1>6. DOMAIN LeftOf(h) = DOMAIN h.ref /\ \A j \in DOMAIN h.ref : LeftOf(h)[j] = h.heap[h.ref[j] + 1].left
  BY DEF LeftOf
<1>7. ASSUME NEW j \in DOMAIN h.ref PROVE h.heap[1].left <= LeftOf(h)[j]
  <2>1. h.ref[j] \in 0..(N - 1)
    BY <1>1, <1>2, IndexedHas
  <2>2. h.ref[j] + 1 \in 1..N
    BY <1>2, <2>1
  <2> QED
    BY <1>5, <1>6, <2>2
<1>8. h.heap[1].id \in DOMAIN h.ref /\ h.ref[h.heap[1].id] = 0
  <2>1. h.heap[0 + 1].id \in DOMAIN h.ref /\ h.ref[h.heap[0 + 1].id] = 0
    BY <1>1, <1>2, <1>3, IndexedHas
  <2> QED
    BY <1>3, <2>1
<1>9. 1 \in 1..N
  BY <1>2
<1> QED
  BY <1>1, <1>3, <1>5, <1>6, <1>7, <1>8, <1>9 DEF Nodes

\* Becomes makes the result the state.
LEMMA BecomesIs ==
  ASSUME NEW res, Becomes(res), Sound(res.h), res.stray \in BOOLEAN
  PROVE  State' = res.h /\ aborted' \in BOOLEAN
<1>1. heap' = res.h.heap /\ ref' = res.h.ref /\ aborted' \in {FALSE, res.stray /\ StrayLarge}
  BY DEF Becomes
<1>2. res.h = [heap |-> res.h.heap, ref |-> res.h.ref]
  BY DEF Sound, Indexed
<1>3. StrayLarge \in BOOLEAN
  BY HeapTimerAssumption
<1>4. aborted' \in BOOLEAN
  BY <1>1, <1>3
<1> QED
  BY <1>1, <1>2, <1>4 DEF State

\* add starts one timer.
LEMMA AddStep ==
  ASSUME HeapInv, NEW id \in Ids, Add(id)
  PROVE  Sound(State') /\ LeftOf(State') = StartedIn(LeftOf(State), id) /\ aborted' \in BOOLEAN
<1>1. Sound(State)
  BY DEF HeapInv
<1>2. CASE id \in DOMAIN ref
  <2>1. Becomes(AddOld(State, id))
    BY <1>2 DEF Add
  <2>2. /\ Sound(AddOld(State, id).h) /\ AddOld(State, id).stray \in BOOLEAN
        /\ LeftOf(AddOld(State, id).h) = StartedIn(LeftOf(State), id)
    BY <1>1, <1>2, StateHas, AdjustAndAddOld
  <2>3. State' = AddOld(State, id).h /\ aborted' \in BOOLEAN
    BY <2>1, <2>2, BecomesIs
  <2> QED
    BY <2>2, <2>3
<1>3. CASE id \notin DOMAIN ref
  <2>1. Becomes(AddNew(State, id))
    BY <1>3 DEF Add
  <2>2. /\ Sound(AddNew(State, id).h) /\ AddNew(State, id).stray \in BOOLEAN
        /\ LeftOf(AddNew(State, id).h) = StartedIn(LeftOf(State), id)
    BY <1>1, <1>3, StateHas, AddNewStarts
  <2>3. State' = AddNew(State, id).h /\ aborted' \in BOOLEAN
    BY <2>1, <2>2, BecomesIs
  <2> QED
    BY <2>2, <2>3
<1> QED
  BY <1>2, <1>3

\* adjust starts a running timer again.
LEMMA AdjustStep ==
  ASSUME HeapInv, NEW id \in Ids, Adjust(id)
  PROVE  Sound(State') /\ LeftOf(State') = StartedIn(LeftOf(State), id) /\ aborted' \in BOOLEAN
<1>1. Sound(State) /\ id \in DOMAIN State.ref
  BY StateHas DEF HeapInv, Adjust
<1> DEFINE g == AdjustIn(State, id)
           res == [h |-> g, stray |-> FALSE]
<1>2. Sound(g) /\ LeftOf(g) = StartedIn(LeftOf(State), id)
  BY <1>1, AdjustAndAddOld
<1>3. Becomes(res)
  BY DEF Adjust
<1> HIDE DEF g
<1>4. res.h = g /\ res.stray = FALSE
  OBVIOUS
<1> HIDE DEF res
<1>5. State' = g /\ aborted' \in BOOLEAN
  BY <1>2, <1>3, <1>4, BecomesIs
<1> QED
  BY <1>2, <1>5

\* doWork stops the timer whose callback it ran.
LEMMA DoWorkStep ==
  ASSUME HeapInv, NEW id \in Ids, DoWork(id)
  PROVE  Sound(State') /\ LeftOf(State') = StoppedIn(LeftOf(State), id) /\ aborted' \in BOOLEAN
<1>1. Sound(State) /\ id \in DOMAIN State.ref /\ Indexed(State)
  BY StateHas DEF HeapInv, DoWork, Sound
<1>2. PICK i : i = ref[id]
  OBVIOUS
<1>3. i \in 0..(Len(State.heap) - 1) /\ State.heap[i + 1].id = id
  BY <1>1, <1>2, StateHas, IndexedHas
<1>4. Becomes(Del(State, i))
  BY <1>2 DEF DoWork
<1>5. /\ Sound(Del(State, i).h) /\ LeftOf(Del(State, i).h) = StoppedIn(LeftOf(State), id)
      /\ Del(State, i).stray \in BOOLEAN
  BY <1>1, <1>3, DelStops
<1>6. State' = Del(State, i).h /\ aborted' \in BOOLEAN
  BY <1>4, <1>5, BecomesIs
<1> QED
  BY <1>5, <1>6

\* No timer at all.
LEMMA EmptyIsSound ==
  LET h == [heap |-> << >>, ref |-> << >>] IN Sound(h) /\ LeftOf(h) = << >>
<1> DEFINE h == [heap |-> << >>, ref |-> << >>]
<1>1. h.heap = << >> /\ h.ref = << >> /\ h = [heap |-> h.heap, ref |-> h.ref]
  OBVIOUS
<1> HIDE DEF h
<1>2. h.heap \in Seq(Nodes) /\ Len(h.heap) = 0 /\ 1..0 = {} /\ 0..(0 - 1) = {}
  BY <1>1, EmptySeq
<1>3. DOMAIN h.ref = {} /\ << >> = [x \in {} |-> h.heap[h.ref[x] + 1].left]
  BY <1>1
<1>4. Indexed(h)
  <2>1. {h.heap[k].id : k \in 1..Len(h.heap)} = {}
    BY <1>2
  <2>2. h.ref \in [{} -> Int]
    BY <1>3, <1>1
  <2> QED
    BY <1>1, <1>2, <2>1, <2>2 DEF Indexed
<1>5. LeftOf(h) = << >>
  BY <1>3 DEF LeftOf
<1>6. Ordered(Times(h), Len(h.heap))
  BY <1>2 DEF Ordered
<1>7. DOMAIN LeftOf(h) = {}
  BY <1>5
<1> QED
  BY <1>4, <1>5, <1>6, <1>7 DEF Sound, h

\* clear stops all.
LEMMA ClearStep ==
  ASSUME Clear
  PROVE  Sound(State') /\ LeftOf(State') = << >> /\ aborted' \in BOOLEAN
<1> DEFINE g == [heap |-> << >>, ref |-> << >>]
           res == [h |-> g, stray |-> FALSE]
<1>1. Sound(g) /\ LeftOf(g) = << >>
  BY EmptyIsSound
<1>2. Becomes(res)
  BY DEF Clear
<1> HIDE DEF g
<1>3. res.h = g /\ res.stray = FALSE
  OBVIOUS
<1> HIDE DEF res
<1>4. State' = g /\ aborted' \in BOOLEAN
  BY <1>1, <1>2, <1>3, BecomesIs
<1> QED
  BY <1>1, <1>4

\* Starting a timer again right away is starting it.
LEMMA StartedTwice ==
  ASSUME NEW f, NEW id, id \in DOMAIN f
  PROVE  StartedIn(StartedIn(f, id), id) = StartedIn(f, id)
<1>1. DOMAIN StartedIn(f, id) = DOMAIN f /\ \A j \in DOMAIN f : StartedIn(f, id)[j] = IF j = id THEN Span[id] ELSE f[j]
  BY DEF StartedIn
<1> DEFINE g == StartedIn(f, id)
<1>2. DOMAIN g \cup {id} = DOMAIN f /\ DOMAIN f \cup {id} = DOMAIN f
  BY <1>1
<1>3. \A j \in DOMAIN f : (IF j = id THEN Span[id] ELSE g[j]) = IF j = id THEN Span[id] ELSE f[j]
  BY <1>1
<1> HIDE DEF g
<1>4. StartedIn(g, id) = StartedIn(f, id)
  BY <1>2, <1>3 DEF StartedIn
<1> QED
  BY <1>4 DEF g

\* Nothing with less than a millisecond left is passed over, nor served early.
LEMMA DueIs == \A t \in Int : IsDue(t) <=> t < 2
BY DEF IsDue, ToMs

\* A round of tick serves the timer that is due first, if it is due, and starts
\* it again or stops it.
LEMMA FireStep ==
  ASSUME HeapInv, Fire
  PROVE  LET id == heap[1].id
         IN  /\ Sound(State') /\ aborted' \in BOOLEAN
             /\ id \in Ids /\ called' = <<"due", id>>
             /\ id \in DOMAIN LeftOf(State) /\ LeftOf(State)[id] < 2
             /\ \A j \in DOMAIN LeftOf(State) : LeftOf(State)[id] <= LeftOf(State)[j]
             /\ LeftOf(State') = IF id \in Cyclic THEN StartedIn(LeftOf(State), id) ELSE StoppedIn(LeftOf(State), id)
<1>1. PICK id, f : id = heap[1].id /\ f = LeftOf(State)
  OBVIOUS
<1>2. Sound(State) /\ Indexed(State) /\ Node(0) = heap[1] /\ heap # << >>
  BY DEF HeapInv, Sound, Node, Fire
<1>3. Len(heap) \in Nat /\ Len(heap) # 0 /\ 0 \in 0..(Len(heap) - 1)
  <2>1. heap \in Seq(Nodes)
    BY <1>2, StateHas DEF Indexed
  <2>2. Len(heap) \in Nat \ {0}
    BY <1>2, <2>1, EmptySeq
  <2> QED
    BY <2>2
<1>4. /\ id \in Ids /\ id \in DOMAIN f /\ f[id] = heap[1].left /\ f[id] \in Int
      /\ \A j \in DOMAIN f : f[id] <= f[j]
  <2>1. /\ heap[1] \in Nodes
        /\ heap[1].id \in DOMAIN f /\ f[heap[1].id] = heap[1].left
        /\ \A j \in DOMAIN f : heap[1].left <= f[j]
    BY <1>1, <1>2, <1>3, StateHas, FirstIsLeast
  <2> QED
    BY <1>1, <2>1 DEF Nodes
<1>5. f[id] < 2 /\ called' = <<"due", id>>
  <2>1. IsDue(heap[1].left) /\ called' = <<"due", id>>
    BY <1>1, <1>2 DEF Fire
  <2> QED
    BY <1>4, <2>1, DueIs
<1>6. id \in DOMAIN State.ref
  BY <1>1, <1>4 DEF LeftOf
<1>7. CASE id \in Cyclic
  <2>1. PICK h \in {State, AdjustIn(State, id)} : Becomes([h |-> AdjustIn(h, id), stray |-> FALSE])
    BY <1>1, <1>2, <1>7 DEF Fire
  <2>2. Sound(AdjustIn(State, id)) /\ LeftOf(AdjustIn(State, id)) = StartedIn(f, id)
    BY <1>1, <1>2, <1>6, AdjustAndAddOld
  <2> DEFINE g == AdjustIn(h, id)
             res == [h |-> g, stray |-> FALSE]
  <2>3. Sound(g) /\ LeftOf(g) = StartedIn(f, id)
    <3>1. CASE h = State
      BY <2>2, <3>1
    <3>2. CASE h = AdjustIn(State, id)
      <4>1. id \in DOMAIN h.ref
        <5>1. DOMAIN LeftOf(h) = DOMAIN h.ref
          BY DEF LeftOf
        <5>2. id \in DOMAIN StartedIn(f, id)
          BY DEF StartedIn
        <5> QED
          BY <2>2, <3>2, <5>1, <5>2
      <4>2. Sound(g) /\ LeftOf(g) = StartedIn(LeftOf(h), id)
        BY <2>2, <3>2, <4>1, AdjustAndAddOld
      <4> QED
        BY <1>4, <2>2, <3>2, <4>2, StartedTwice
    <3> QED
      BY <3>1, <3>2
  <2> HIDE DEF g
  <2>4. Becomes(res) /\ res.h = g /\ res.stray = FALSE
    BY <2>1 DEF g
  <2> HIDE DEF res
  <2>5. State' = g /\ aborted' \in BOOLEAN
    BY <2>3, <2>4, BecomesIs
  <2> QED
    BY <1>1, <1>4, <1>5, <1>7, <2>3, <2>5
<1>8. CASE id \notin Cyclic
  <2>1. Becomes(Del(State, 0))
    BY <1>1, <1>2, <1>8 DEF Fire
  <2>2. /\ Sound(Del(State, 0).h) /\ LeftOf(Del(State, 0).h) = StoppedIn(f, id)
        /\ Del(State, 0).stray \in BOOLEAN
    <3>1. 0 \in 0..(Len(State.heap) - 1) /\ State.heap[0 + 1].id = id
      BY <1>1, <1>3, StateHas
    <3> QED
      BY <1>1, <1>2, <3>1, DelStops
  <2>3. State' = Del(State, 0).h /\ aborted' \in BOOLEAN
    BY <2>1, <2>2, BecomesIs
  <2> QED
    BY <1>1, <1>4, <1>5, <1>8, <2>2, <2>3
<1> QED
  BY <1>7, <1>8

\* When time goes by, all timers lose the same.
LEMMA PassStep ==
  ASSUME HeapInv, Pass
  PROVE  /\ Sound(State')
         /\ LeftOf(State') = [id \in DOMAIN LeftOf(State) |-> LeftOf(State)[id] - 1]
         /\ Len(heap') = Len(heap)
         /\ \A k \in 1..Len(heap) : heap[k].left \in Int /\ heap'[k].left = heap[k].left - 1
<1>1. PICK a, r, N, b : a = heap /\ r = ref /\ N = Len(heap) /\ b = heap'
  OBVIOUS
<1>2. Sound(State) /\ Indexed(State)
  BY DEF HeapInv, Sound
<1>3. /\ N \in Nat /\ a \in [1..N -> Nodes] /\ a \in Seq(Nodes)
      /\ r \in [{a[k].id : k \in 1..N} -> Int]
      /\ \A k \in 1..N : r[a[k].id] = k - 1
      /\ Times(State) \in [0..(N - 1) -> Int] /\ Ordered(Times(State), N)
  <2>1. N \in Nat /\ a \in [1..N -> Nodes] /\ Times(State) \in [0..(N - 1) -> Int]
    BY <1>1, <1>2, StateHas, IndexedHas
  <2>2. a \in Seq(Nodes) /\ r \in [{a[k].id : k \in 1..N} -> Int] /\ \A k \in 1..N : r[a[k].id] = k - 1
    BY <1>1, <1>2, StateHas DEF Indexed
  <2>3. Ordered(Times(State), N)
    BY <1>1, <1>2, StateHas DEF Sound
  <2> QED
    BY <2>1, <2>2, <2>3
<1>4. b = [k \in 1..N |-> [a[k] EXCEPT !.left = a[k].left - 1]] /\ ref' = r
  BY <1>1 DEF Pass
<1>5. ASSUME NEW k \in 1..N
      PROVE  /\ a[k].left \in Int /\ b[k] \in Nodes
             /\ b[k].left = a[k].left - 1 /\ b[k].id = a[k].id
  <2>1. a[k] \in Nodes /\ b[k] = [a[k] EXCEPT !.left = a[k].left - 1]
    BY <1>3, <1>4
  <2>2. PICK e : e = a[k]
    OBVIOUS
  <2>3. e \in Nodes /\ b[k] = [e EXCEPT !.left = e.left - 1]
    BY <2>1, <2>2
  <2> QED
    BY <2>2, <2>3 DEF Nodes
<1>6. b \in [1..N -> Nodes]
  <2>1. DOMAIN b = 1..N /\ b = [k \in 1..N |-> b[k]]
    BY <1>4
  <2> QED
    BY <1>5, <2>1
<1>7. b \in Seq(Nodes) /\ Len(b) = N
  BY <1>3, <1>6, FunctionIsSeq
<1> DEFINE g == State'
<1>8. g.heap = b /\ g.ref = r /\ g = [heap |-> g.heap, ref |-> g.ref]
  BY <1>1, <1>4 DEF State
<1> HIDE DEF g
<1>9. Indexed(g)
  <2>1. {b[k].id : k \in 1..N} = {a[k].id : k \in 1..N}
    BY <1>5
  <2>2. r \in [{b[k].id : k \in 1..N} -> Int]
    BY <1>3, <2>1
  <2>3. \A k \in 1..N : r[b[k].id] = k - 1
    BY <1>3, <1>5
  <2> QED
    BY <1>7, <1>8, <2>2, <2>3 DEF Indexed
<1>10. ASSUME NEW k \in 0..(N - 1) PROVE Times(State)[k] \in Int /\ Times(g)[k] = Times(State)[k] - 1
  <2>1. Times(g) = [i \in 0..(N - 1) |-> b[i + 1].left] /\ Times(State) = [i \in 0..(N - 1) |-> a[i + 1].left]
    BY <1>1, <1>7, <1>8, StateHas DEF Times
  <2>2. k + 1 \in 1..N
    BY <1>3
  <2> QED
    BY <1>5, <2>1, <2>2
<1>11. Ordered(Times(g), N)
  <2>1. ASSUME NEW p \in 0..(N - 1), NEW c \in 0..(N - 1), IsChild(p, c) PROVE Times(g)[p] <= Times(g)[c]
    <3>1. Times(State)[p] <= Times(State)[c]
      BY <1>3, <2>1 DEF Ordered
    <3>2. /\ Times(State)[p] \in Int /\ Times(State)[c] \in Int
          /\ Times(g)[p] = Times(State)[p] - 1 /\ Times(g)[c] = Times(State)[c] - 1
      BY <1>10
    <3> QED
      BY <3>1, <3>2
  <2> QED
    BY <2>1 DEF Ordered
<1> DEFINE f == LeftOf(State)
           d == LeftOf(g)
<1>12. DOMAIN d = DOMAIN r /\ DOMAIN f = DOMAIN r /\ d = [j \in DOMAIN r |-> d[j]]
  BY <1>1, <1>8, StateHas DEF LeftOf
<1>13. ASSUME NEW j \in DOMAIN r PROVE f[j] \in Int /\ d[j] = f[j] - 1 /\ j \in Ids
  <2>1. PICK k \in 1..N : a[k].id = j
    BY <1>3
  <2>2. r[j] = k - 1
    BY <1>3, <2>1
  <2>3. r[j] + 1 = k
    BY <2>2
  <2>4. f[j] = a[r[j] + 1].left /\ d[j] = b[r[j] + 1].left
    BY <1>1, <1>8, StateHas DEF LeftOf
  <2>5. a[k] \in Nodes
    BY <1>3
  <2> QED
    BY <1>5, <2>1, <2>3, <2>4, <2>5 DEF Nodes
<1>14. \A j \in DOMAIN f : f[j] <= Span[j]
  BY <1>2 DEF Sound
<1> HIDE DEF f, d
<1>15. \A j \in DOMAIN d : d[j] <= Span[j]
  BY <1>12, <1>13, <1>14, SpanType
<1>16. d = [j \in DOMAIN f |-> f[j] - 1]
  BY <1>12, <1>13
<1>17. Sound(g)
  BY <1>7, <1>8, <1>9, <1>11, <1>15 DEF Sound, d
<1> QED
  BY <1>1, <1>5, <1>7, <1>16, <1>17 DEF f, d, g

\* It holds at the start.
LEMMA InitIsSound == HeapTimerInit => HeapInv
<1> SUFFICES ASSUME HeapTimerInit PROVE HeapInv
  OBVIOUS
<1>1. heap = << >> /\ State = [heap |-> << >>, ref |-> << >>]
  BY DEF HeapTimerInit, State
<1>2. Sound(State)
  BY <1>1, EmptyIsSound
<1>3. LoopTypes
  <2>1. called \in {None} \cup ({"due", "asked"} \X Ids)
    BY DEF HeapTimerInit
  <2>2. delay \in 0..MaxDelay /\ timeout \in Int /\ waited \in Nat
    BY HeapTimerAssumption DEF HeapTimerInit
  <2> QED
    BY <2>1, <2>2 DEF HeapTimerInit, LoopTypes
<1>4. NoneOverdue /\ SleepsTillFirst
  BY DEF HeapTimerInit, NoneOverdue, SleepsTillFirst
<1> QED
  BY <1>2, <1>3, <1>4 DEF HeapInv

\* The larger one of a number and 0.
LEMMA MaxWithZero ==
  ASSUME NEW a \in Int
  PROVE  Max({a, 0}) = IF a >= 0 THEN a ELSE 0
<1> DEFINE m == IF a >= 0 THEN a ELSE 0
           S == {a, 0}
<1>1. m \in S /\ \A y \in S : y \in Int /\ m >= y
  OBVIOUS
<1>2. \A x \in S : (\A y \in S : x >= y) => x = m
  BY <1>1
<1>3. Max(S) = CHOOSE x \in S : \A y \in S : x >= y
  BY DEF Max
<1> HIDE DEF S, m
<1>4. Max(S) = m
  BY <1>1, <1>2, <1>3
<1> QED
  BY <1>4 DEF S, m

\* What getNextTick returns for a time of which at most half a millisecond has
\* gone by, or none.
LEMMA TickRoundsDown ==
  ASSUME NEW t \in Int, t >= -1
  PROVE  /\ NextTick(t) \in Int /\ NextTick(t) >= 0
         /\ 2 * NextTick(t) <= IF t >= 0 THEN t ELSE 0
         /\ t <= 2 * NextTick(t) + 1
BY DEF NextTick, ToMs

\* getNextTick rounds a number to a number.
LEMMA NextTickType == \A t \in Int : NextTick(t) \in Int
BY DEF NextTick, ToMs

\* Every time in the heap is a number.
LEMMA HeapTypes ==
  ASSUME Sound(State)
  PROVE  /\ heap \in Seq(Nodes) /\ Len(heap) \in Nat
         /\ heap # << >> => Len(heap) # 0 /\ 1 \in 1..Len(heap)
         /\ \A k \in 1..Len(heap) : heap[k] \in Nodes /\ heap[k].left \in Int
<1>1. heap \in Seq(Nodes)
  BY StateHas DEF Sound, Indexed
<1>2. Len(heap) \in Nat /\ \A k \in 1..Len(heap) : heap[k] \in Nodes
  BY <1>1, LenProperties, ElementOfSeq
<1>3. heap # << >> => Len(heap) # 0 /\ 1 \in 1..Len(heap)
  BY <1>1, <1>2, EmptySeq
<1> QED
  BY <1>1, <1>2, <1>3 DEF Nodes

\* The steps that leave the heap alone.
LEMMA TickDoneInv ==
  ASSUME HeapInv, TickDone
  PROVE  HeapInv'
<1>1. Sound(State) /\ LoopTypes
  BY DEF HeapInv
<1>2. State' = State
  BY DEF TickDone, heapVars, State
<1>3. LoopTypes'
  BY <1>1, HeapTimerAssumption DEF LoopTypes, TickDone, heapVars
<1>4. NoneOverdue'
  <2> SUFFICES ASSUME pc' = "ask", NEW k \in 1..Len(heap)
               PROVE  heap[k].left >= 2
    BY <1>1, HeapTypes DEF NoneOverdue, TickDone, heapVars
  <2>1. heap # << >> /\ Len(heap) # 0
    BY <1>1, HeapTypes, EmptySeq
  <2>2. heap[1].left \in Int /\ heap[k].left \in Int /\ heap[1].left <= heap[k].left
    BY <1>1, <2>1, StateHas, HeapTypes, FirstIsLeast
  <2>3. ~IsDue(heap[1].left)
    BY <2>1 DEF TickDone, Node
  <2> QED
    BY <2>2, <2>3, DueIs
<1>5. SleepsTillFirst'
  BY DEF TickDone, SleepsTillFirst
<1> QED
  BY <1>1, <1>2, <1>3, <1>4, <1>5 DEF HeapInv

\* The first timer is due in at least the milliseconds that getNextTick returns,
\* unless two of them have gone by since tick was through.
LEMMA AskInv ==
  ASSUME HeapInv, Ask
  PROVE  HeapInv'
<1>1. Sound(State) /\ LoopTypes /\ NoneOverdue
  BY DEF HeapInv
<1>2. State' = State /\ heap' = heap
  BY DEF Ask, heapVars, State
<1>3. LoopTypes'
  <2>1. timeout' \in Int
    <3>1. CASE heap = << >>
      BY <3>1 DEF Ask
    <3>2. CASE heap # << >>
      <4>1. heap[1].left \in Int
        BY <1>1, <3>2, HeapTypes
      <4>2. timeout' = NextTick(heap[1].left)
        BY <3>2 DEF Ask, Node
      <4> QED
        BY <4>1, <4>2, NextTickType
    <3> QED
      BY <3>1, <3>2
  <2>2. late' \in BOOLEAN
    BY DEF Ask
  <2> QED
    BY <1>1, <2>1, <2>2, HeapTimerAssumption DEF LoopTypes, Ask, heapVars
<1>4. NoneOverdue'
  BY DEF NoneOverdue, Ask
<1>5. SleepsTillFirst'
  <2> SUFFICES ASSUME heap # << >>, ~late'
               PROVE  /\ timeout' >= 0
                      /\ \A k \in 1..Len(heap) : 2 * timeout' - waited' <= Max({heap[k].left, 0})
                      /\ \E k \in 1..Len(heap) : heap[k].left <= 2 * timeout' - waited' + 1
    BY <1>2, Zenon DEF SleepsTillFirst
  <2>1. PICK t, d : t = heap[1].left /\ d = delay
    OBVIOUS
  <2>2. d \in 0..MaxDelay /\ d < 4 /\ t \in Int /\ 1 \in 1..Len(heap) /\ Len(heap) # 0
    <3>1. ~(d >= 4)
      BY <2>1, Zenon DEF Ask
    <3>2. d \in 0..MaxDelay /\ d \in Int
      BY <1>1, <2>1, HeapTimerAssumption DEF LoopTypes
    <3>3. t \in Int /\ 1 \in 1..Len(heap) /\ Len(heap) # 0
      BY <1>1, <2>1, HeapTypes
    <3> QED
      BY <3>1, <3>2, <3>3
  <2>3. t + d >= 2
    BY <1>1, <2>1, <2>2 DEF NoneOverdue, Ask
  <2>4. t >= -1
    BY <2>2, <2>3, HeapTimerAssumption
  <2>5. PICK n : n = NextTick(t)
    OBVIOUS
  <2>6. timeout' = n /\ waited' = 0
    BY <2>1, <2>5 DEF Ask, Node
  <2>7. n \in Int /\ n >= 0 /\ 2 * n <= (IF t >= 0 THEN t ELSE 0) /\ t <= 2 * n + 1
    BY <2>2, <2>4, <2>5, TickRoundsDown
  <2>8. ASSUME NEW k \in 1..Len(heap) PROVE 2 * n - 0 <= Max({heap[k].left, 0})
    <3>1. heap[k].left \in Int /\ t <= heap[k].left
      BY <1>1, <2>1, <2>2, StateHas, FirstIsLeast
    <3>2. Max({heap[k].left, 0}) = IF heap[k].left >= 0 THEN heap[k].left ELSE 0
      BY <3>1, MaxWithZero
    <3> QED
      BY <2>2, <2>7, <3>1, <3>2
  <2>9. t <= 2 * n - 0 + 1
    BY <2>2, <2>7
  <2> QED
    BY <2>1, <2>2, <2>6, <2>7, <2>8, <2>9
<1> QED
  BY <1>1, <1>2, <1>3, <1>4, <1>5 DEF HeapInv

\* Time goes by for the loop and for the timers alike.
LEMMA PassInv ==
  ASSUME HeapInv, Pass
  PROVE  HeapInv'
<1>1. Sound(State) /\ LoopTypes /\ NoneOverdue /\ SleepsTillFirst
  BY DEF HeapInv
<1>2. /\ Sound(State') /\ Len(heap') = Len(heap)
      /\ \A k \in 1..Len(heap) : heap[k].left \in Int /\ heap'[k].left = heap[k].left - 1
  BY PassStep
<1>3. LoopTypes'
  BY <1>1, HeapTimerAssumption DEF LoopTypes, Pass
<1>4. NoneOverdue'
  <2> SUFFICES ASSUME pc = "ask", NEW k \in 1..Len(heap)
               PROVE  heap'[k].left + delay' >= 2
    BY <1>2 DEF NoneOverdue, Pass
  <2>1. delay' = delay + 1 /\ delay \in Int
    BY <1>1, HeapTimerAssumption DEF Pass, LoopTypes
  <2>2. heap[k].left + delay >= 2
    BY <1>1 DEF NoneOverdue
  <2> QED
    BY <1>2, <2>1, <2>2
<1>5. SleepsTillFirst'
  <2> SUFFICES ASSUME pc = "wait", heap' # << >>, ~late
               PROVE  /\ timeout >= 0
                      /\ \A k \in 1..Len(heap) : 2 * timeout - waited' <= Max({heap'[k].left, 0})
                      /\ \E k \in 1..Len(heap) : heap'[k].left <= 2 * timeout - waited' + 1
    BY <1>2, Zenon DEF SleepsTillFirst, Pass
  <2>1. heap # << >>
    BY DEF Pass
  <2>2. PICK n, w : n = timeout /\ w = waited
    OBVIOUS
  <2>3. n \in Int /\ w \in Nat
    BY <1>1, <2>2 DEF LoopTypes
  <2>4. /\ n >= 0
        /\ \A k \in 1..Len(heap) : 2 * n - w <= Max({heap[k].left, 0})
        /\ \E k \in 1..Len(heap) : heap[k].left <= 2 * n - w + 1
    BY <1>1, <2>1, <2>2, Zenon DEF SleepsTillFirst
  <2>5. waited' = w + 1
    BY <2>2, <2>3, <2>4 DEF Pass
  <2>6. ASSUME NEW k \in 1..Len(heap) PROVE 2 * n - (w + 1) <= Max({heap'[k].left, 0})
    <3>1. PICK t : t = heap[k].left /\ t \in Int /\ heap'[k].left = t - 1
      BY <1>2
    <3>2. Max({t, 0}) = (IF t >= 0 THEN t ELSE 0) /\ Max({t - 1, 0}) = (IF t - 1 >= 0 THEN t - 1 ELSE 0)
      BY <3>1, MaxWithZero
    <3>3. 2 * n - w <= (IF t >= 0 THEN t ELSE 0)
      BY <2>4, <3>1, <3>2
    <3>4. 2 * n - (w + 1) <= (IF t - 1 >= 0 THEN t - 1 ELSE 0)
      BY <2>3, <3>1, <3>3
    <3> QED
      BY <3>1, <3>2, <3>4
  <2>7. \E k \in 1..Len(heap) : heap'[k].left <= 2 * n - (w + 1) + 1
    <3>1. PICK k \in 1..Len(heap) : heap[k].left <= 2 * n - w + 1
      BY <2>4
    <3>2. heap[k].left \in Int /\ heap'[k].left = heap[k].left - 1
      BY <1>2
    <3> QED
      BY <2>3, <3>1, <3>2
  <2> QED
    BY <2>2, <2>4, <2>5, <2>6, <2>7
<1> QED
  BY <1>2, <1>3, <1>4, <1>5 DEF HeapInv

\* The operations, which the loop calls when it neither asks nor waits.
LEMMA HeapOpInv ==
  ASSUME HeapInv, Sound(State'), aborted' \in BOOLEAN, delay' = 0, UNCHANGED loopVars,
         pc \notin {"ask", "wait"}, called' \in {None} \cup ({"due", "asked"} \X Ids)
  PROVE  HeapInv'
<1>1. pc' = pc /\ timeout' = timeout /\ waited' = waited /\ late' = late
  BY DEF loopVars
<1>2. LoopTypes'
  BY <1>1, HeapTimerAssumption DEF HeapInv, LoopTypes
<1>3. NoneOverdue' /\ SleepsTillFirst'
  BY <1>1 DEF NoneOverdue, SleepsTillFirst
<1> QED
  BY <1>2, <1>3 DEF HeapInv

\* Every step keeps the invariant.
LEMMA HeapTimerStep == HeapInv /\ [HeapTimerNext]_vars => HeapInv'
<1> SUFFICES ASSUME HeapInv, [HeapTimerNext]_vars PROVE HeapInv'
  OBVIOUS
<1>1. ASSUME NEW id \in Ids, Add(id) PROVE HeapInv'
  <2>1. Sound(State') /\ aborted' \in BOOLEAN
    BY <1>1, AddStep
  <2>2. called' = None /\ pc = "serve" /\ delay' = 0 /\ UNCHANGED loopVars
    BY <1>1 DEF Add, Serving
  <2> QED
    BY <2>1, <2>2, HeapOpInv
<1>2. ASSUME NEW id \in Ids, Adjust(id) PROVE HeapInv'
  <2>1. Sound(State') /\ aborted' \in BOOLEAN
    BY <1>2, AdjustStep
  <2>2. called' = None /\ pc = "serve" /\ delay' = 0 /\ UNCHANGED loopVars
    BY <1>2 DEF Adjust, Serving
  <2> QED
    BY <2>1, <2>2, HeapOpInv
<1>3. ASSUME NEW id \in Ids, DoWork(id) PROVE HeapInv'
  <2>1. Sound(State') /\ aborted' \in BOOLEAN
    BY <1>3, DoWorkStep
  <2>2. called' = <<"asked", id>> /\ pc = "serve" /\ delay' = 0 /\ UNCHANGED loopVars
    BY <1>3 DEF DoWork, Serving
  <2> QED
    BY <2>1, <2>2, HeapOpInv
<1>4. ASSUME Clear PROVE HeapInv'
  <2>1. Sound(State') /\ aborted' \in BOOLEAN
    BY <1>4, ClearStep
  <2>2. called' = None /\ pc = "serve" /\ delay' = 0 /\ UNCHANGED loopVars
    BY <1>4 DEF Clear, Serving
  <2> QED
    BY <2>1, <2>2, HeapOpInv
<1>5. ASSUME Fire PROVE HeapInv'
  <2>1. Sound(State') /\ aborted' \in BOOLEAN /\ called' \in {"due", "asked"} \X Ids
    BY <1>5, FireStep
  <2>2. pc \notin {"ask", "wait"} /\ delay' = 0 /\ UNCHANGED loopVars
    BY <1>5 DEF Fire
  <2> QED
    BY <2>1, <2>2, HeapOpInv
<1>6. ASSUME TickDone PROVE HeapInv'
  BY <1>6, TickDoneInv
<1>7. ASSUME Ask PROVE HeapInv'
  BY <1>7, AskInv
<1>8. ASSUME Return \/ Served PROVE HeapInv'
  <2>1. Sound(State) /\ LoopTypes
    BY DEF HeapInv
  <2>2. State' = State /\ called' = called /\ aborted' = aborted
    BY <1>8 DEF Return, Served, heapVars, State
  <2>3. pc' \in {"serve", "tock"} /\ delay' \in {0, delay}
    BY <1>8 DEF Return, Served
  <2>4. LoopTypes'
    BY <1>8, <2>1, <2>2, <2>3, HeapTimerAssumption DEF LoopTypes, Return, Served, heapVars
  <2>5. NoneOverdue' /\ SleepsTillFirst'
    BY <2>3 DEF NoneOverdue, SleepsTillFirst
  <2> QED
    BY <2>1, <2>2, <2>4, <2>5 DEF HeapInv
<1>9. ASSUME Pass PROVE HeapInv'
  BY <1>9, PassInv
<1>10. ASSUME UNCHANGED vars PROVE HeapInv'
  <2>1. State' = State
    BY <1>10 DEF vars, heapVars, State
  <2>2. LoopTypes' /\ NoneOverdue' /\ SleepsTillFirst'
    BY <1>10, Zenon DEF HeapInv, vars, heapVars, LoopTypes, NoneOverdue, SleepsTillFirst
  <2> QED
    BY <2>1, <2>2 DEF HeapInv
<1> QED
  BY <1>1, <1>2, <1>3, <1>4, <1>5, <1>6, <1>7, <1>8, <1>9, <1>10 DEF HeapTimerNext

\* So it always holds.
LEMMA HeapInvHolds == HeapTimerSpec => []HeapInv
<1>1. HeapTimerInit => HeapInv
  BY InitIsSound
<1>2. HeapInv /\ [HeapTimerNext]_vars => HeapInv'
  BY HeapTimerStep
<1> QED
  BY <1>1, <1>2, PTL DEF HeapTimerSpec

\* Every index in ref_ is one of heap_, which the assertions of heaptimer.cpp
\* rely on, and the rest keeps its type, for any number of timers and periods.
THEOREM HeapTimerTypeCorrect == HeapTimerSpec => []HeapTimerTypeOK
<1>1. HeapInv => HeapTimerTypeOK
  <2> SUFFICES ASSUME HeapInv PROVE HeapTimerTypeOK
    OBVIOUS
  <2>1. Indexed(State) /\ LoopTypes
    BY DEF HeapInv, Sound
  <2>2. heap \in Seq([id : Ids, left : Int])
    BY <2>1, StateHas DEF Indexed, Nodes
  <2>3. DOMAIN ref \subseteq Ids /\ Range(ref) \subseteq 0..(Len(heap) - 1)
    <3>1. /\ DOMAIN ref = {heap[k].id : k \in 1..Len(heap)}
          /\ \A id \in DOMAIN ref : ref[id] \in 0..(Len(heap) - 1)
          /\ heap \in [1..Len(heap) -> Nodes]
      <4>1. PICK h : h = State
        OBVIOUS
      <4>2. /\ DOMAIN h.ref = {h.heap[k].id : k \in 1..Len(h.heap)}
            /\ \A id \in DOMAIN h.ref : h.ref[id] \in 0..(Len(h.heap) - 1)
            /\ h.heap \in [1..Len(h.heap) -> Nodes]
        BY <2>1, <4>1, IndexedHas
      <4> QED
        BY <4>1, <4>2, StateHas
    <3>2. \A k \in 1..Len(heap) : heap[k].id \in Ids
      BY <3>1 DEF Nodes
    <3> QED
      BY <3>1, <3>2 DEF Range
  <2> QED
    BY <2>1, <2>2, <2>3 DEF HeapTimerTypeOK, LoopTypes
<1> QED
  BY <1>1, HeapInvHolds, PTL

\* For any number of timers, periods and steps, ref_ is the inverse of heap_ and
\* no timer stands above an earlier one (HeapIsSound): siftdown_ and siftup_
\* after it repair what add and del_ disturb, and adjust needs siftdown_ only.
THEOREM HeapStaysSound == HeapTimerSpec => []HeapIsSound
<1>1. HeapInv => HeapIsSound
  <2> SUFFICES ASSUME HeapInv
               PROVE  /\ DOMAIN ref = {heap[i].id : i \in 1..Len(heap)}
                      /\ \A i \in 1..Len(heap) : ref[heap[i].id] = i - 1
                      /\ \A i \in 1..(Len(heap) - 1) : Node((i - 1) \div 2).left <= Node(i).left
    BY DEF HeapIsSound
  <2>1. Sound(State) /\ Indexed(State)
    BY DEF HeapInv, Sound
  <2>2. /\ DOMAIN ref = {heap[i].id : i \in 1..Len(heap)}
        /\ \A i \in 1..Len(heap) : ref[heap[i].id] = i - 1
        /\ Len(heap) \in Nat
    BY <2>1, StateHas, IndexedHas DEF Indexed
  <2>3. ASSUME NEW i \in 1..(Len(heap) - 1) PROVE Node((i - 1) \div 2).left <= Node(i).left
    <3>1. PICK p : p = (i - 1) \div 2
      OBVIOUS
    <3>2. i \in Nat /\ i # 0 /\ i \in 0..(Len(heap) - 1)
      BY <2>2
    <3>3. p \in Nat /\ p < i /\ IsChild(p, i)
      BY <3>1, <3>2, ParentIs
    <3>4. p \in 0..(Len(heap) - 1)
      BY <2>2, <3>2, <3>3
    <3>5. Times(State)[p] <= Times(State)[i]
      BY <2>1, <3>2, <3>3, <3>4, StateHas DEF Sound, Ordered
    <3> QED
      BY <3>1, <3>2, <3>4, <3>5, StateHas DEF Times, Node
  <2> QED
    BY <2>2, <2>3
<1> QED
  BY <1>1, HeapInvHolds, PTL

\* When tick is through, no timer of the heap was due when it last read the clock
\* (NoneOverdue), although it looks at the first one only.
THEOREM NoTimerIsPassedOver == HeapTimerSpec => []NoneOverdue
<1>1. HeapInv => NoneOverdue
  BY DEF HeapInv
<1> QED
  BY <1>1, HeapInvHolds, PTL

\* epoll_wait returns before the first timer expires and, without events, at
\* most a millisecond before (SleepsTillFirst), unless the process was held up
\* for two milliseconds within getNextTick; the sign getNextTick cannot see then
\* never matters.
THEOREM LoopSleepsTillFirst == HeapTimerSpec => []SleepsTillFirst
<1>1. HeapInv => SleepsTillFirst
  BY DEF HeapInv
<1> QED
  BY <1>1, HeapInvHolds, PTL

\* Each step is one of the set of timers, or leaves it alone.
LEMMA StepImplements == HeapInv /\ [HeapTimerNext]_vars => [Service!Next]_(Service!vars)
<1> SUFFICES ASSUME HeapInv, [HeapTimerNext]_vars PROVE [Service!Next]_(Service!vars)
  OBVIOUS
<1>1. Running = LeftOf(State) /\ Running' = LeftOf(State') /\ Service!None = None
  <2>1. Running' = LeftOf(State')
    BY DEF Running, LeftOf, State, Left
  <2> QED
    BY <2>1, RunningIsLeftOf DEF Service!None, None
<1>2. ASSUME NEW id \in Ids, called' = None, Running' = StartedIn(Running, id) PROVE Service!Next
  BY <1>1, <1>2 DEF Service!Next, Service!Start, Service!Started, StartedIn
<1>3. ASSUME NEW id \in Ids, Add(id) PROVE Service!Next
  BY <1>1, <1>2, <1>3, AddStep DEF Add
<1>4. ASSUME NEW id \in Ids, Adjust(id) PROVE Service!Next
  BY <1>1, <1>2, <1>4, AdjustStep DEF Adjust
<1>5. ASSUME NEW id \in Ids, DoWork(id) PROVE Service!Next
  <2>1. id \in DOMAIN Running /\ called' = <<"asked", id>> /\ Running' = StoppedIn(Running, id)
    BY <1>1, <1>5, DoWorkStep DEF DoWork, Running
  <2> QED
    BY <2>1 DEF Service!Next, Service!Run, Service!Stopped, StoppedIn, Service!Restrict, Restrict
<1>6. ASSUME Clear PROVE Service!Next
  <2>1. Running' = << >> /\ called' = None
    BY <1>1, <1>6, ClearStep DEF Clear
  <2> QED
    BY <1>1, <2>1 DEF Service!Next, Service!Clear
<1>7. ASSUME Fire PROVE Service!Next
  <2>1. PICK id \in Ids :
          /\ id \in DOMAIN Running /\ Running[id] < 2 /\ called' = <<"due", id>>
          /\ \A j \in DOMAIN Running : Running[id] <= Running[j]
          /\ Running' = IF id \in Cyclic THEN StartedIn(Running, id) ELSE StoppedIn(Running, id)
    BY <1>1, <1>7, FireStep
  <2>2. CASE id \in Cyclic
    BY <2>1, <2>2 DEF Service!Next, Service!Serve, Service!Started, StartedIn
  <2>3. CASE id \notin Cyclic
    BY <2>1, <2>3 DEF Service!Next, Service!Serve, Service!Stopped, StoppedIn, Service!Restrict, Restrict
  <2> QED
    BY <2>2, <2>3
<1>8. ASSUME TickDone \/ Ask \/ Return \/ Served \/ UNCHANGED vars PROVE UNCHANGED Service!vars
  <2>1. State' = State /\ called' = called
    BY <1>8 DEF TickDone, Ask, Return, Served, vars, heapVars, State
  <2> QED
    BY <1>1, <2>1 DEF Service!vars
<1>9. ASSUME Pass PROVE Service!Next
  <2>1. Running' = [id \in DOMAIN Running |-> Running[id] - 1] /\ called' = None
    BY <1>1, <1>9, PassStep DEF Pass
  <2> QED
    BY <1>1, <2>1 DEF Service!Next, Service!Pass
<1> QED
  BY <1>3, <1>4, <1>5, <1>6, <1>7, <1>8, <1>9 DEF HeapTimerNext

\* The heap with its index implements the set of timers: add and adjust are
\* Start, doWork is Run, a round of tick is Serve of the timer that is due first,
\* and everybody else keeps its time.
THEOREM HeapImplementsTimers == HeapTimerSpec => ImplementsTimers
<1>1. HeapTimerInit => Service!Init
  <2> SUFFICES ASSUME HeapTimerInit PROVE Service!Init
    OBVIOUS
  <2>1. State = [heap |-> << >>, ref |-> << >>]
    BY DEF HeapTimerInit, State
  <2>2. Running = << >> /\ called = None
    BY <2>1, EmptyIsSound, RunningIsLeftOf DEF HeapTimerInit
  <2> QED
    BY <2>2 DEF Service!Init, Service!None, None
<1>2. HeapInv /\ [HeapTimerNext]_vars => [Service!Next]_(Service!vars)
  BY StepImplements
<1> QED
  BY <1>1, <1>2, HeapInvHolds, PTL DEF HeapTimerSpec, ImplementsTimers, Service!Spec
=============================================================================
