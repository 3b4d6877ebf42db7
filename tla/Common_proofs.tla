--------------------------- MODULE Common_proofs ----------------------------
(***************************************************************************)
(* Facts that several proofs rest on: what the work queue's operations do, *)
(* for the modules that submit work; and counting: a set of numbers has a  *)
(* least one, what every step keeps holds everywhere, and a function can be *)
(* iterated, for the modules that search a buffer or walk a list.          *)
(***************************************************************************)
EXTENDS SysWorkQ, WellFoundedInduction, TLAPS

\* Submitting an item leaves it and all that was queued in the queue, and
\* nothing else (k_work_submit).
LEMMA SubmitQueued ==
  ASSUME NEW S, NEW q \in Seq(S), NEW w \in S
  PROVE  /\ Submit(q, w) \in Seq(S)
         /\ \A x : Queued(Submit(q, w), x) <=> Queued(q, x) \/ x = w
<1>1. CASE Queued(q, w)
  BY <1>1 DEF Submit, Queued
<1>2. CASE ~Queued(q, w)
  <2>1. Submit(q, w) = Append(q, w) /\ Append(q, w) \in Seq(S)
    BY <1>2 DEF Submit
  <2>2. ASSUME NEW x, Queued(Append(q, w), x)
        PROVE  Queued(q, x) \/ x = w
    <3>1. PICK i \in 1..Len(q)+1 : Append(q, w)[i] = x
      BY <2>2 DEF Queued, Range
    <3>2. CASE i = Len(q) + 1
      BY <3>1, <3>2
    <3>3. CASE i # Len(q) + 1
      <4>1. i \in DOMAIN q /\ q[i] = x
        BY <3>1, <3>3
      <4>2. QED
        BY <4>1 DEF Queued, Range
    <3>4. QED
      BY <3>2, <3>3
  <2>3. ASSUME NEW x, Queued(q, x)
        PROVE  Queued(Append(q, w), x)
    <3>1. PICK i \in DOMAIN q : q[i] = x
      BY <2>3 DEF Queued, Range
    <3>2. i \in DOMAIN Append(q, w) /\ Append(q, w)[i] = x
      BY <3>1
    <3>3. QED
      BY <3>2 DEF Queued, Range
  <2>4. Queued(Append(q, w), w)
    <3>1. Len(q) + 1 \in DOMAIN Append(q, w) /\ Append(q, w)[Len(q) + 1] = w
      OBVIOUS
    <3>2. QED
      BY <3>1 DEF Queued, Range
  <2>5. QED
    BY <2>1, <2>2, <2>3, <2>4
<1>3. QED
  BY <1>1, <1>2

\* Taking the oldest item leaves every other one queued, and adds none.
LEMMA TailQueued ==
  ASSUME NEW S, NEW q \in Seq(S), q # << >>
  PROVE  /\ Head(q) \in S
         /\ Tail(q) \in Seq(S)
         /\ \A x : Queued(q, x) => Queued(Tail(q), x) \/ x = Head(q)
         /\ \A x : Queued(Tail(q), x) => Queued(q, x)
<1>1. Head(q) \in S /\ Tail(q) \in Seq(S)
  OBVIOUS
<1>2. ASSUME NEW x, Queued(q, x), x # Head(q)
      PROVE  Queued(Tail(q), x)
  <2>1. PICK i \in 1..Len(q) : q[i] = x
    BY <1>2 DEF Queued, Range
  <2>2. i # 1
    BY <1>2, <2>1
  <2>3. i - 1 \in DOMAIN Tail(q) /\ Tail(q)[i - 1] = x
    BY <2>1, <2>2
  <2>4. QED
    BY <2>3 DEF Queued, Range
<1>3. ASSUME NEW x, Queued(Tail(q), x)
      PROVE  Queued(q, x)
  <2>1. PICK i \in DOMAIN Tail(q) : Tail(q)[i] = x
    BY <1>3 DEF Queued, Range
  <2>2. i + 1 \in DOMAIN q /\ q[i + 1] = x
    BY <2>1
  <2>3. QED
    BY <2>2 DEF Queued, Range
<1>4. QED
  BY <1>1, <1>2, <1>3

\* Withdrawing an item leaves a queue of items, the others among them, and adds none.
LEMMA WithdrawQueue ==
  ASSUME NEW S, NEW q \in Seq(S), NEW w
  PROVE  /\ Withdraw(q, w) \in Seq(S)
         /\ \A x : Queued(q, x) => Queued(Withdraw(q, w), x) \/ x = w
         /\ \A x : Queued(Withdraw(q, w), x) => Queued(q, x)
<1>1. CASE Queued(q, w)
  <2> DEFINE at == CHOOSE i \in DOMAIN q : q[i] = w
             r  == [i \in 1..(Len(q) - 1) |-> IF i < at THEN q[i] ELSE q[i + 1]]
  <2>1. \E i \in DOMAIN q : q[i] = w
    BY <1>1 DEF Queued, Range
  <2>2. at \in 1..Len(q) /\ q[at] = w
    BY <2>1
  <2>3. Len(q) - 1 \in Nat
    BY <2>2
  <2>4. \A i \in 1..(Len(q) - 1) : r[i] \in S
    <3> HIDE DEF at
    <3> QED
      BY <2>2
  <2>5. r \in Seq(S)
    <3>1. r \in [1..(Len(q) - 1) -> S]
      BY <2>4
    <3> HIDE DEF r
    <3>2. QED
      BY <2>3, <3>1, SMTT(30)
  <2>6. Withdraw(q, w) = r
    BY <1>1 DEF Withdraw
  <2> HIDE DEF at
  <2>7. ASSUME NEW x, Queued(q, x), x # w
        PROVE  Queued(r, x)
    <3>1. PICK i \in 1..Len(q) : q[i] = x
      BY <2>7 DEF Queued, Range
    <3>2. CASE i < at
      <4>1. i \in 1..(Len(q) - 1) /\ r[i] = x
        BY <2>2, <3>1, <3>2
      <4>2. QED
        BY <4>1 DEF Queued, Range
    <3>3. CASE i > at
      <4>1. i - 1 \in 1..(Len(q) - 1) /\ r[i - 1] = x
        BY <2>2, <3>1, <3>3
      <4>2. QED
        BY <4>1 DEF Queued, Range
    <3>4. i # at
      BY <2>2, <2>7, <3>1
    <3>5. QED
      BY <2>2, <3>1, <3>2, <3>3, <3>4
  <2>8. ASSUME NEW x, Queued(r, x)
        PROVE  Queued(q, x)
    <3>1. PICK i \in 1..(Len(q) - 1) : r[i] = x
      BY <2>8 DEF Queued, Range
    <3>2. i \in DOMAIN q /\ i + 1 \in DOMAIN q /\ (q[i] = x \/ q[i + 1] = x)
      BY <2>2, <3>1
    <3>3. QED
      BY <3>2 DEF Queued, Range
  <2>9. QED
    BY <2>5, <2>6, <2>7, <2>8
<1>2. CASE ~Queued(q, w)
  BY <1>2 DEF Withdraw
<1>3. QED
  BY <1>1, <1>2

\* Every x in queue q comes before every y.
Before(q, x, y) == \A i, j \in DOMAIN q : q[i] = x /\ q[j] = y => i < j

\* Work items are run in the order they were submitted: no operation on another
\* item changes it.
LEMMA OrderKept ==
  ASSUME NEW S, NEW q \in Seq(S), NEW x, NEW y, Before(q, x, y)
  PROVE  /\ \A w \in S : w # x => Before(Submit(q, w), x, y)
         /\ q # << >> => Before(Tail(q), x, y)
         /\ \A w : Before(Withdraw(q, w), x, y)
<1>1. ASSUME NEW w \in S, w # x
      PROVE  Before(Submit(q, w), x, y)
  <2>1. CASE Queued(q, w)
    BY <2>1 DEF Submit
  <2>2. CASE ~Queued(q, w)
    <3>1. ASSUME NEW i \in 1..Len(q)+1, NEW j \in 1..Len(q)+1,
                 Append(q, w)[i] = x, Append(q, w)[j] = y
          PROVE  i < j
      <4>1. i # Len(q) + 1
        BY <1>1, <3>1
      <4>2. CASE j = Len(q) + 1
        BY <4>1, <4>2
      <4>3. CASE j # Len(q) + 1
        <5>1. i \in DOMAIN q /\ j \in DOMAIN q /\ q[i] = x /\ q[j] = y
          BY <3>1, <4>1, <4>3
        <5>2. QED
          BY <5>1 DEF Before
      <4>4. QED
        BY <4>2, <4>3
    <3>2. DOMAIN Append(q, w) = 1..Len(q)+1
      OBVIOUS
    <3>3. QED
      BY <2>2, <3>1, <3>2 DEF Submit, Before
  <2>3. QED
    BY <2>1, <2>2
<1>2. ASSUME q # << >>
      PROVE  Before(Tail(q), x, y)
  <2>1. ASSUME NEW i \in DOMAIN Tail(q), NEW j \in DOMAIN Tail(q),
               Tail(q)[i] = x, Tail(q)[j] = y
        PROVE  i < j
    <3>1. i \in Nat /\ j \in Nat /\ i + 1 \in DOMAIN q /\ j + 1 \in DOMAIN q
      BY <1>2
    <3>2. q[i + 1] = x /\ q[j + 1] = y
      BY <1>2, <2>1
    <3>3. i + 1 < j + 1
      BY <3>1, <3>2 DEF Before
    <3>4. QED
      BY <3>1, <3>3
  <2>2. QED
    BY <2>1 DEF Before
<1>3. ASSUME NEW w
      PROVE  Before(Withdraw(q, w), x, y)
  <2>1. CASE Queued(q, w)
    <3> DEFINE at == CHOOSE i \in DOMAIN q : q[i] = w
               r  == [i \in 1..(Len(q) - 1) |-> IF i < at THEN q[i] ELSE q[i + 1]]
    <3>1. \E i \in DOMAIN q : q[i] = w
      BY <2>1 DEF Queued, Range
    <3>2. at \in 1..Len(q)
      BY <3>1
    <3>3. Withdraw(q, w) = r
      BY <2>1 DEF Withdraw
    <3> HIDE DEF at
    <3>4. ASSUME NEW i \in 1..(Len(q) - 1), NEW j \in 1..(Len(q) - 1), r[i] = x, r[j] = y
          PROVE  i < j
      <4> DEFINE old(k) == IF k < at THEN k ELSE k + 1
      <4>1. old(i) \in DOMAIN q /\ old(j) \in DOMAIN q
        BY <3>2
      <4>2. q[old(i)] = x /\ q[old(j)] = y
        BY <3>4
      <4>3. old(i) < old(j)
        <5> HIDE DEF old
        <5> QED
          BY <4>1, <4>2 DEF Before
      <4>4. QED
        BY <3>2, <4>3
    <3>5. DOMAIN r = 1..(Len(q) - 1)
      OBVIOUS
    <3>6. QED
      BY <3>3, <3>4, <3>5 DEF Before
  <2>2. CASE ~Queued(q, w)
    BY <2>2 DEF Withdraw
  <2>3. QED
    BY <2>1, <2>2
<1>4. QED
  BY <1>1, <1>2, <1>3

\* What is not queued is in order, and when the later one's turn has come the
\* earlier one is no longer queued.
LEMMA OrderEnds ==
  ASSUME NEW S, NEW q \in Seq(S), NEW x, NEW y
  PROVE  /\ ~Queued(q, y) => Before(q, x, y)
         /\ Before(q, x, y) /\ q # << >> /\ Head(q) = y => ~Queued(q, x)
<1>1. ~Queued(q, y) => Before(q, x, y)
  BY DEF Before, Queued, Range
<1>2. ASSUME Before(q, x, y), q # << >>, Head(q) = y, Queued(q, x)
      PROVE  FALSE
  <2>1. PICK i \in 1..Len(q) : q[i] = x
    BY <1>2 DEF Queued, Range
  <2>2. 1 \in DOMAIN q /\ q[1] = y /\ i \in DOMAIN q
    BY <1>2, <2>1
  <2>3. i < 1
    BY <1>2, <2>1, <2>2 DEF Before
  <2>4. QED
    BY <2>1, <2>3
<1>3. QED
  BY <1>1, <1>2

-----------------------------------------------------------------------------
(* Counting                                                                *)

\* A set of numbers has a least one.
LEMMA Least ==
  ASSUME NEW T \in SUBSET Nat, T # {}
  PROVE  \E x \in T : \A y \in T : x <= y
<1>1. IsWellFoundedOn(OpToRel(<, Nat), Nat)
  BY NatLessThanWellFounded
<1>2. PICK x \in T : \A y \in T : ~(<<y, x>> \in OpToRel(<, Nat))
  BY <1>1, WFMin
<1>3. \A y \in T : ~(y < x)
  BY <1>2 DEF OpToRel
<1>4. \A y \in T : x <= y
  <2> TAKE y \in T
  <2>1. x \in Nat /\ y \in Nat /\ ~(y < x)
    BY <1>3
  <2>2. QED
    BY <2>1
<1>5. QED
  BY <1>4

\* What holds at the start and is kept by every step holds everywhere: induction for
\* a set of numbers.
LEMMA Induction ==
  ASSUME NEW T \in SUBSET Nat, 0 \in T, \A n \in Nat : n \in T => n + 1 \in T
  PROVE  T = Nat
<1> SUFFICES ASSUME Nat \ T # {}
             PROVE  FALSE
  OBVIOUS
<1>1. PICK m \in Nat \ T : \A n \in Nat \ T : m <= n
  BY Least
<1>2. m # 0
  OBVIOUS
<1>3. m - 1 \in Nat /\ (m - 1) + 1 = m /\ ~(m <= m - 1)
  BY <1>2
<1>4. m - 1 \in T
  BY <1>1, <1>3
<1>5. QED
  BY <1>3, <1>4

\* A function can be iterated.
LEMMA Iterated ==
  ASSUME NEW X, NEW x \in X, NEW s \in [X -> X]
  PROVE  \E f \in [Nat -> X] : f[0] = x /\ \A i \in Nat : f[i + 1] = s[f[i]]
<1> DEFINE Begun(g, n) == /\ g \in [0..n -> X] /\ g[0] = x
                          /\ \A j \in 1..n : g[j] = s[g[j - 1]]
           T == {n \in Nat : \E g : Begun(g, n)}
<1>1. T = Nat
  <2>1. 0 \in T
    <3>1. Begun([j \in 0..0 |-> x], 0)
      OBVIOUS
    <3>2. QED
      BY <3>1
  <2>2. ASSUME NEW n \in Nat, n \in T
        PROVE  n + 1 \in T
    <3>1. PICK g : Begun(g, n)
      BY <2>2
    <3> DEFINE h == [j \in 0..(n + 1) |-> IF j = n + 1 THEN s[g[n]] ELSE g[j]]
    <3>2. h \in [0..(n + 1) -> X]
      <4>1. ASSUME NEW j \in 0..(n + 1), j # n + 1
            PROVE  g[j] \in X
        BY <3>1, <4>1
      <4>2. g[n] \in X
        BY <3>1
      <4>3. QED
        BY <4>1, <4>2
    <3>3. h[0] = x
      BY <3>1
    <3>4. ASSUME NEW j \in 1..(n + 1)
          PROVE  h[j] = s[h[j - 1]]
      <4>1. j - 1 \in 0..n /\ h[j - 1] = g[j - 1]
        OBVIOUS
      <4>2. CASE j = n + 1
        BY <4>1, <4>2
      <4>3. CASE j # n + 1
        <5>1. j \in 1..n /\ h[j] = g[j]
          BY <4>3
        <5>2. QED
          BY <3>1, <4>1, <5>1
      <4>4. QED
        BY <4>2, <4>3
    <3> HIDE DEF h
    <3>5. QED
      BY <3>2, <3>3, <3>4
  <2>3. T \in SUBSET Nat
    OBVIOUS
  <2> HIDE DEF T
  <2>4. QED
    BY <2>1, <2>2, <2>3, Induction
<1>2. ASSUME NEW g, NEW h, NEW n \in Nat, Begun(g, n + 1), Begun(h, n)
      PROVE  g[n] = h[n]
  <2> DEFINE U == {i \in Nat : i <= n => g[i] = h[i]}
  <2>1. 0 \in U
    BY <1>2
  <2>2. ASSUME NEW i \in Nat, i \in U
        PROVE  i + 1 \in U
    <3> SUFFICES ASSUME i + 1 <= n
                 PROVE  g[i + 1] = h[i + 1]
      OBVIOUS
    <3>1. g[i] = h[i]
      BY <2>2
    <3>2. i + 1 \in 1..n /\ i + 1 \in 1..(n + 1) /\ (i + 1) - 1 = i
      OBVIOUS
    <3>3. QED
      BY <1>2, <3>1, <3>2
  <2>3. U \in SUBSET Nat
    OBVIOUS
  <2>4. U = Nat
    <3> HIDE DEF U
    <3> QED
      BY <2>1, <2>2, <2>3, Induction
  <2>5. QED
    BY <2>4
<1> DEFINE c[n \in Nat] == CHOOSE g : Begun(g, n)
           f == [i \in Nat |-> c[i][i]]
<1>3. \A n \in Nat : Begun(c[n], n)
  BY <1>1
<1> HIDE DEF c
<1>4. f \in [Nat -> X]
  <2>1. ASSUME NEW i \in Nat
        PROVE  c[i][i] \in X
    BY <1>3
  <2>2. QED
    BY <2>1
<1>5. f[0] = x
  BY <1>3
<1>6. ASSUME NEW i \in Nat
      PROVE  f[i + 1] = s[f[i]]
  <2>1. i + 1 \in Nat /\ i + 1 \in 1..(i + 1) /\ (i + 1) - 1 = i
    OBVIOUS
  <2>2. c[i + 1][i + 1] = s[c[i + 1][i]]
    BY <1>3, <2>1
  <2>3. c[i + 1][i] = c[i][i]
    <3>1. Begun(c[i + 1], i + 1) /\ Begun(c[i], i)
      BY <1>3
    <3> HIDE DEF Begun
    <3>2. QED
      BY <1>2, <3>1
  <2>4. QED
    BY <2>1, <2>2, <2>3
<1> HIDE DEF f
<1>7. QED
  BY <1>4, <1>5, <1>6

=============================================================================
