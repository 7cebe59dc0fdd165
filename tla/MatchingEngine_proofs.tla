------------------------ MODULE MatchingEngine_proofs ------------------------
(***************************************************************************)
(* Proofs about MatchingEngine for any orders, prices, quantities, users   *)
(* and numbers of requests, faults and restarts.                           *)
(*                                                                         *)
(* Base, inductive by itself: the levels and the index hold the same       *)
(* orders, each once, with something left; requests are about placed       *)
(* orders.  Live, inductive with Base as long as seen_orders forgets       *)
(* nobody: a level is in the order of arrival, an order trades and is      *)
(* cancelled within what it has.  An evicted order could be accepted and   *)
(* filled a second time, so NobodyForgotten is assumed where it matters.   *)
(* Told: what waits in the outboxes, which no state of EngineContract has. *)
(* With the three every step is one of the contract or leaves it alone.    *)
(***************************************************************************)
EXTENDS MatchingEngine, SumTheorems, SequenceTheorems

USE DEF Admitted, ValidPrices, ValidQuantities

-----------------------------------------------------------------------------
(* Sequences *)

\* No element twice.
Distinct(s) == \A m, n \in DOMAIN s : s[m] = s[n] => m = n

\* The elements of t come in s, in the same order.
InOrder(t, s) ==
  \A a, b \in DOMAIN t : a < b =>
    \E m, n \in DOMAIN s : m < n /\ s[m] = t[a] /\ s[n] = t[b]

\* The recursive function of Those, up to position N.
IsThose(f, S, seq, N) ==
  f = [n \in 0..N |->
         IF n = 0 THEN <<>>
         ELSE IF seq[n] \in S THEN Append(f[n - 1], seq[n]) ELSE f[n - 1]]

\* A set of numbers up to N that is not empty has a least element.
LEMMA LeastNumber ==
  ASSUME NEW N \in Nat, NEW S \in SUBSET (0..N), S # {}
  PROVE  \E n \in S : \A m \in S : n <= m
<1> DEFINE T == {0..m : m \in S}
<1> DEFINE I == 0..N
<1>1. T \subseteq SUBSET I /\ T # {}
  <2>1. \A m \in S : 0..m \subseteq I
    OBVIOUS
  <2> QED
    BY <2>1, Zenon
<1>2. IsFiniteSet(I)
  BY FS_Interval
<1> HIDE DEF T, I
<1>3. PICK s \in T : \A t \in T : ~ (t \subseteq s /\ t # s)
  BY <1>1, <1>2, LeastSubset
<1>4. PICK n \in S : s = 0..n
  BY DEF T
<1>5. ASSUME NEW m \in S, ~ (n <= m)
      PROVE  FALSE
  <2>1. n \in Nat /\ m \in Nat /\ m < n
    BY <1>5
  <2>2. 0..m \subseteq 0..n /\ n \in 0..n /\ n \notin 0..m
    BY <2>1
  <2> QED
    BY <2>2, <1>3, <1>4 DEF T
<1> QED
  BY <1>5

\* The function is there.
LEMMA ThoseExists ==
  ASSUME NEW S, NEW seq, NEW N \in Nat
  PROVE  \E f : IsThose(f, S, seq, N)
<1> DEFINE Bad == {n \in 0..N : ~ \E f : IsThose(f, S, seq, n)}
<1> SUFFICES ASSUME Bad # {} PROVE FALSE
  OBVIOUS
<1>1. PICK n \in Bad : \A m \in Bad : n <= m
  BY LeastNumber
<1>2. CASE n = 0
  <2> DEFINE g == [k \in 0..0 |-> <<>>]
  <2>1. IsThose(g, S, seq, 0)
    BY DEF IsThose
  <2> QED
    BY <2>1, <1>2, <1>1
<1>3. CASE n # 0
  <2>1. n \in Nat /\ n - 1 \in 0..N /\ ~ (n <= n - 1)
    BY <1>3
  <2>2. PICK f : IsThose(f, S, seq, n - 1)
    BY <2>1, <1>1
  <2> DEFINE g == [k \in 0..n |->
                     IF k = n THEN IF seq[n] \in S THEN Append(f[n - 1], seq[n]) ELSE f[n - 1]
                     ELSE f[k]]
  <2>3. f = [k \in 0..(n - 1) |->
               IF k = 0 THEN <<>>
               ELSE IF seq[k] \in S THEN Append(f[k - 1], seq[k]) ELSE f[k - 1]]
    BY <2>2 DEF IsThose
  <2>4. g = [k \in 0..n |->
               IF k = 0 THEN <<>>
               ELSE IF seq[k] \in S THEN Append(g[k - 1], seq[k]) ELSE g[k - 1]]
    <3> SUFFICES ASSUME NEW k \in 0..n
                 PROVE  g[k] = IF k = 0 THEN <<>>
                               ELSE IF seq[k] \in S THEN Append(g[k - 1], seq[k]) ELSE g[k - 1]
      OBVIOUS
    <3>1. CASE k = n
      <4>1. g[n] = IF seq[n] \in S THEN Append(f[n - 1], seq[n]) ELSE f[n - 1]
        BY <2>1
      <4>2. n - 1 \in 0..n /\ n - 1 # n /\ n # 0
        BY <2>1, <1>3
      <4>3. g[n - 1] = f[n - 1]
        BY <4>2
      <4> QED
        BY <4>1, <4>2, <4>3, <3>1
    <3>2. CASE k # n
      <4>1. k \in 0..(n - 1)
        BY <3>2, <2>1
      <4>2. g[k] = f[k]
        BY <3>2
      <4>3. f[k] = IF k = 0 THEN <<>>
                   ELSE IF seq[k] \in S THEN Append(f[k - 1], seq[k]) ELSE f[k - 1]
        BY <4>1, <2>3
      <4>4. k # 0 => k - 1 \in 0..n /\ k - 1 # n
        BY <4>1
      <4>5. k # 0 => g[k - 1] = f[k - 1]
        BY <4>4
      <4> QED
        BY <4>2, <4>3, <4>5
    <3> QED
      BY <3>1, <3>2
  <2>5. IsThose(g, S, seq, n)
    BY <2>4 DEF IsThose
  <2> QED
    BY <2>5, <1>1
<1> QED
  BY <1>2, <1>3

ThoseUpTo(S, seq, N) == CHOOSE f : IsThose(f, S, seq, N)

LEMMA ThoseIsLast ==
  ASSUME NEW S, NEW seq
  PROVE  Those(S, seq) = ThoseUpTo(S, seq, Len(seq))[Len(seq)]
  BY DEF Those, ThoseUpTo, IsThose

\* t has the elements that the first n of seq have in S: its a-th is at at[a].
Picks(t, at, S, seq, n) ==
  /\ at \in [1..Len(t) -> 1..n]
  /\ \A a, b \in 1..Len(t) : a < b => at[a] < at[b]
  /\ \A a \in 1..Len(t) : t[a] = seq[at[a]] /\ seq[at[a]] \in S
  /\ \A k \in 1..n : seq[k] \in S => \E a \in 1..Len(t) : at[a] = k
  /\ Len(t) <= n

LEMMA ThosePicks ==
  ASSUME NEW T, NEW seq \in Seq(T), NEW S
  PROVE  /\ Those(S, seq) \in Seq(T)
         /\ \E at : Picks(Those(S, seq), at, S, seq, Len(seq))
<1> DEFINE N == Len(seq)
           f == ThoseUpTo(S, seq, N)
           Good(n) == f[n] \in Seq(T) /\ \E at : Picks(f[n], at, S, seq, n)
           Bad == {n \in 0..N : ~ Good(n)}
<1>1. N \in Nat /\ \A k \in 1..N : seq[k] \in T
  BY LenProperties, ElementOfSeq
<1>2. IsThose(f, S, seq, N)
  BY <1>1, ThoseExists DEF ThoseUpTo
<1> HIDE DEF f, N
<1>3. f = [n \in 0..N |->
             IF n = 0 THEN <<>>
             ELSE IF seq[n] \in S THEN Append(f[n - 1], seq[n]) ELSE f[n - 1]]
  BY <1>2 DEF IsThose
<1>4. SUFFICES ASSUME Bad # {} PROVE FALSE
  <2>1. N \in 0..N /\ Those(S, seq) = f[N]
    BY <1>1, ThoseIsLast DEF f, N
  <2> QED
    BY <1>4, <2>1 DEF N
<1>5. PICK n \in Bad : \A m \in Bad : n <= m
  BY <1>1, <1>4, LeastNumber
<1>6. CASE n = 0
  <2>1. 0 \in 0..N
    BY <1>1
  <2>2. f[0] = <<>>
    BY <1>3, <2>1
  <2> DEFINE at == [a \in 1..0 |-> 0]
  <2>3. Picks(<<>>, at, S, seq, 0)
    BY DEF Picks
  <2>4. Good(0)
    BY <2>2, <2>3
  <2> QED
    BY <2>4, <1>6, <1>5
<1>7. CASE n # 0
  <2>1. n \in 1..N /\ n - 1 \in 0..N /\ ~ (n <= n - 1) /\ n \in Nat
    BY <1>7, <1>1
  <2>2. Good(n - 1)
    BY <2>1, <1>5
  <2> DEFINE t == f[n - 1]
  <2>3. PICK at : Picks(t, at, S, seq, n - 1)
    BY <2>2
  <2>4. t \in Seq(T) /\ Len(t) \in Nat
    BY <2>2, LenProperties
  <2>5. f[n] = IF seq[n] \in S THEN Append(t, seq[n]) ELSE t
    <3>1. n \in 0..N
      BY <1>5
    <3>2. f[n] = IF n = 0 THEN <<>>
                 ELSE IF seq[n] \in S THEN Append(f[n - 1], seq[n]) ELSE f[n - 1]
      BY <3>1, <1>3, Zenon
    <3> QED
      BY <3>2, <1>7
  <2> HIDE DEF t
  <2>6. CASE seq[n] \notin S
    <3>1. Picks(t, at, S, seq, n)
      BY <2>1, <2>3, <2>4, <2>6 DEF Picks
    <3> QED
      BY <3>1, <2>4, <2>5, <2>6, <1>5
  <2>7. CASE seq[n] \in S
    <3> DEFINE u == Append(t, seq[n])
               bt == [a \in 1..(Len(t) + 1) |-> IF a = Len(t) + 1 THEN n ELSE at[a]]
    <3>1. /\ u \in Seq(T) /\ Len(u) = Len(t) + 1
          /\ \A a \in 1..Len(t) : u[a] = t[a]
          /\ u[Len(t) + 1] = seq[n]
      BY <1>1, <2>1, <2>4, AppendProperties
    <3> HIDE DEF u
    <3>2. Picks(u, bt, S, seq, n)
      <4>1. bt \in [1..Len(u) -> 1..n]
        BY <3>1, <2>1, <2>3, <2>4 DEF Picks
      <4>2. ASSUME NEW a \in 1..Len(u), NEW b \in 1..Len(u), a < b
            PROVE  bt[a] < bt[b]
        <5>1. a \in 1..Len(t) /\ bt[a] = at[a] /\ at[a] \in 1..(n - 1)
          <6>1. a \in 1..Len(t) /\ a # Len(t) + 1 /\ a \in 1..(Len(t) + 1)
            BY <4>2, <3>1, <2>4
          <6>2. at[a] \in 1..(n - 1)
            BY <6>1, <2>3 DEF Picks
          <6>3. bt[a] = at[a]
            BY <6>1
          <6> QED
            BY <6>1, <6>2, <6>3
        <5>2. b = Len(t) + 1 => bt[b] = n
          BY <3>1
        <5>3. ASSUME b # Len(t) + 1
              PROVE  bt[b] = at[b] /\ at[a] < at[b]
          <6>1. b \in 1..Len(t)
            BY <5>3, <3>1, <2>4
          <6>2. bt[b] = at[b]
            BY <5>3, <3>1
          <6> QED
            BY <6>1, <6>2, <5>1, <4>2, <2>3 DEF Picks
        <5> QED
          BY <5>1, <5>2, <5>3, <2>1, <3>1, <2>4
      <4>3. \A a \in 1..Len(u) : u[a] = seq[bt[a]] /\ seq[bt[a]] \in S
        BY <3>1, <2>1, <2>3, <2>4, <2>7 DEF Picks
      <4>4. ASSUME NEW k \in 1..n, seq[k] \in S
            PROVE  \E a \in 1..Len(u) : bt[a] = k
        <5>1. CASE k = n
          BY <5>1, <3>1, <2>4
        <5>2. CASE k # n
          <6>1. k \in 1..(n - 1)
            BY <5>2, <2>1
          <6>2. PICK a \in 1..Len(t) : at[a] = k
            BY <6>1, <4>4, <2>3 DEF Picks
          <6>3. a \in 1..(Len(t) + 1) /\ a # Len(t) + 1
            BY <2>4
          <6> QED
            BY <6>2, <6>3, <3>1
        <5> QED
          BY <5>1, <5>2
      <4>5. Len(u) <= n
        BY <3>1, <2>1, <2>3, <2>4 DEF Picks
      <4> HIDE DEF bt
      <4> QED
        BY <4>1, <4>2, <4>3, <4>4, <4>5 DEF Picks
    <3>3. f[n] = u
      BY <2>5, <2>7 DEF u
    <3> QED
      BY <3>1, <3>2, <3>3, <1>5
  <2> QED
    BY <2>6, <2>7
<1> QED
  BY <1>6, <1>7

\* What the model needs of it.
LEMMA ThoseProperties ==
  ASSUME NEW T, NEW seq \in Seq(T), NEW S
  PROVE  /\ Those(S, seq) \in Seq(T) /\ Len(Those(S, seq)) <= Len(seq)
         /\ ToSet(Those(S, seq)) = ToSet(seq) \cap S
         /\ InOrder(Those(S, seq), seq)
<1> DEFINE t == Those(S, seq)
<1>1. PICK at : Picks(t, at, S, seq, Len(seq))
  BY ThosePicks
<1>2. t \in Seq(T) /\ Len(t) \in Nat /\ DOMAIN t = 1..Len(t)
  BY ThosePicks, LenProperties
<1>3. DOMAIN seq = 1..Len(seq)
  BY LenProperties
<1> HIDE DEF t
<1>4. Len(t) <= Len(seq)
  BY <1>1 DEF Picks
<1>5. ToSet(t) = ToSet(seq) \cap S
  <2>1. ASSUME NEW x \in ToSet(t)
        PROVE  x \in ToSet(seq) \cap S
    <3>1. PICK a \in 1..Len(t) : x = t[a]
      BY <2>1, <1>2 DEF ToSet
    <3>2. at[a] \in 1..Len(seq) /\ x = seq[at[a]] /\ x \in S
      BY <3>1, <1>1 DEF Picks
    <3> QED
      BY <3>2, <1>3 DEF ToSet
  <2>2. ASSUME NEW x \in ToSet(seq), x \in S
        PROVE  x \in ToSet(t)
    <3>1. PICK k \in 1..Len(seq) : x = seq[k]
      BY <2>2, <1>3 DEF ToSet
    <3>2. PICK a \in 1..Len(t) : at[a] = k
      BY <3>1, <2>2, <1>1 DEF Picks
    <3>3. x = t[a]
      BY <3>1, <3>2, <1>1 DEF Picks
    <3> QED
      BY <3>3, <1>2 DEF ToSet
  <2> QED
    BY <2>1, <2>2
<1>6. ASSUME NEW a \in DOMAIN t, NEW b \in DOMAIN t, a < b
      PROVE  \E m, n \in DOMAIN seq : m < n /\ seq[m] = t[a] /\ seq[n] = t[b]
  <2>1. /\ at[a] \in 1..Len(seq) /\ at[b] \in 1..Len(seq) /\ at[a] < at[b]
        /\ t[a] = seq[at[a]] /\ t[b] = seq[at[b]]
    BY <1>1, <1>2, <1>6 DEF Picks
  <2> QED
    BY <2>1, <1>3
<1> QED
  BY <1>2, <1>4, <1>5, <1>6 DEF t, InOrder

LEMMA InOrderDistinct ==
  ASSUME NEW T, NEW t \in Seq(T), NEW s \in Seq(T), InOrder(t, s), Distinct(s)
  PROVE  Distinct(t)
<1> SUFFICES ASSUME NEW a \in DOMAIN t, NEW b \in DOMAIN t, t[a] = t[b], a # b
             PROVE  FALSE
  BY DEF Distinct
<1>1. DOMAIN t \subseteq Int /\ DOMAIN s \subseteq Int
  BY LenProperties
<1>2. CASE a < b
  BY <1>1, <1>2 DEF InOrder, Distinct
<1>3. CASE b < a
  BY <1>1, <1>3 DEF InOrder, Distinct
<1> QED
  BY <1>1, <1>2, <1>3

\* Removing an element.
LEMMA RemoveProperties ==
  ASSUME NEW T, NEW s \in Seq(T), Distinct(s), NEW o \in ToSet(s)
  PROVE  /\ RemoveFirst(s, o) \in Seq(T)
         /\ ToSet(RemoveFirst(s, o)) = ToSet(s) \ {o}
         /\ InOrder(RemoveFirst(s, o), s)
<1> DEFINE N == Len(s)
           r == RemoveFirst(s, o)
<1>1. N \in Nat /\ DOMAIN s = 1..N /\ \A n \in 1..N : s[n] \in T
  BY LenProperties, ElementOfSeq
<1>2. PICK k \in 1..N : s[k] = o
  BY <1>1 DEF ToSet
<1>3. r = SubSeq(s, 1, k - 1) \o SubSeq(s, k + 1, N)
  <2>1. \A n \in 1..N : s[n] = o => n = k
    BY <1>1, <1>2 DEF Distinct
  <2>2. {n \in 1..Len(s) : s[n] = o} = {k}
    BY <2>1, <1>2
  <2>3. Min({k}) = k
    BY <1>2 DEF Min
  <2>4. SelectInSeq(s, LAMBDA e : e = o) = k
    BY <2>2, <2>3, Zenon DEF SelectInSeq
  <2> QED
    BY <2>4, <1>2 DEF RemoveFirst, RemoveAt
<1>4. /\ SubSeq(s, 1, k - 1) \in Seq(T) /\ Len(SubSeq(s, 1, k - 1)) = k - 1
      /\ \A n \in 1..(k - 1) : SubSeq(s, 1, k - 1)[n] = s[n]
  <2>1. \A n \in 1..(k - 1) : s[n] \in T
    BY <1>1
  <2> HIDE DEF N
  <2> QED
    BY <2>1, <1>1, SubSeqProperties
<1>5. /\ SubSeq(s, k + 1, N) \in Seq(T) /\ Len(SubSeq(s, k + 1, N)) = N - k
      /\ \A n \in 1..(N - k) : SubSeq(s, k + 1, N)[n] = s[n + k]
  <2>1. \A n \in (k + 1)..N : s[n] \in T
    BY <1>1
  <2> HIDE DEF N
  <2> QED
    BY <2>1, <1>1, SubSeqProperties
<1> DEFINE u == SubSeq(s, 1, k - 1)
           v == SubSeq(s, k + 1, N)
<1> HIDE DEF u, v, r
<1>6. /\ r \in Seq(T) /\ Len(r) = N - 1
      /\ \A n \in 1..(N - 1) : r[n] = IF n <= k - 1 THEN s[n] ELSE s[n + 1]
  <2>1. u \in Seq(T) /\ v \in Seq(T) /\ r = u \o v /\ Len(u) = k - 1 /\ Len(v) = N - k
    BY <1>3, <1>4, <1>5 DEF u, v
  <2>2. /\ r \in Seq(T) /\ Len(r) = N - 1
        /\ \A n \in 1..(N - 1) : r[n] = IF n <= k - 1 THEN u[n] ELSE v[n - (k - 1)]
    <3>1. /\ u \o v \in Seq(T) /\ Len(u \o v) = Len(u) + Len(v)
          /\ \A n \in 1..(Len(u) + Len(v)) :
               (u \o v)[n] = IF n <= Len(u) THEN u[n] ELSE v[n - Len(u)]
      BY <2>1, ConcatProperties
    <3>2. Len(u) + Len(v) = N - 1
      BY <2>1, <1>1
    <3> QED
      BY <3>1, <3>2, <2>1
  <2>3. ASSUME NEW n \in 1..(N - 1)
        PROVE  r[n] = IF n <= k - 1 THEN s[n] ELSE s[n + 1]
    <3>1. CASE n <= k - 1
      BY <3>1, <2>2, <1>4, <1>1 DEF u
    <3>2. CASE ~ (n <= k - 1)
      <4>1. n - (k - 1) \in 1..(N - k) /\ (n - (k - 1)) + k = n + 1
        BY <3>2, <1>1
      <4> QED
        BY <4>1, <3>2, <2>2, <1>5 DEF v
    <3> QED
      BY <3>1, <3>2
  <2> QED
    BY <2>2, <2>3
<1>7. DOMAIN r = 1..(N - 1)
  BY <1>6, LenProperties
<1>8. ToSet(r) = ToSet(s) \ {o}
  <2>1. ASSUME NEW n \in 1..(N - 1)
        PROVE  r[n] \in ToSet(s) \ {o}
    <3>1. n \in 1..N /\ n + 1 \in 1..N /\ (n <= k - 1 => n # k) /\ (~ (n <= k - 1) => n + 1 # k)
      BY <1>1
    <3> QED
      BY <3>1, <1>6, <1>1, <1>2 DEF ToSet, Distinct
  <2>2. ASSUME NEW n \in 1..N, n # k
        PROVE  s[n] \in ToSet(r)
    <3>1. CASE n < k
      <4>1. n \in 1..(N - 1) /\ n <= k - 1
        BY <3>1, <1>1
      <4> QED
        BY <4>1, <1>6, <1>7 DEF ToSet
    <3>2. CASE n > k
      <4>1. n - 1 \in 1..(N - 1) /\ ~ (n - 1 <= k - 1) /\ (n - 1) + 1 = n
        BY <3>2, <1>1
      <4>2. r[n - 1] = s[n]
        BY <4>1, <1>6
      <4> QED
        BY <4>1, <4>2, <1>7 DEF ToSet
    <3> QED
      BY <3>1, <3>2, <2>2, <1>1
  <2> QED
    BY <2>1, <2>2, <1>1, <1>2, <1>7 DEF ToSet
<1>9. InOrder(r, s)
  <2>1. ASSUME NEW a \in 1..(N - 1), NEW b \in 1..(N - 1), a < b
        PROVE  \E m, n \in 1..N : m < n /\ s[m] = r[a] /\ s[n] = r[b]
    <3> DEFINE at(x) == IF x <= k - 1 THEN x ELSE x + 1
    <3>1. at(a) \in 1..N /\ at(b) \in 1..N /\ at(a) < at(b)
      BY <1>1, <2>1
    <3>2. r[a] = s[at(a)] /\ r[b] = s[at(b)]
      BY <1>6
    <3> QED
      BY <3>1, <3>2
  <2>2. DOMAIN r = 1..(N - 1) /\ DOMAIN s = 1..N
    BY <1>1, <1>7
  <2> HIDE DEF N
  <2>3. ASSUME NEW a \in DOMAIN r, NEW b \in DOMAIN r, a < b
        PROVE  \E m, n \in DOMAIN s : m < n /\ s[m] = r[a] /\ s[n] = r[b]
    <3>1. \E m, n \in 1..N : m < n /\ s[m] = r[a] /\ s[n] = r[b]
      BY <2>1, <2>2, <2>3
    <3> QED
      BY <3>1, <2>2
  <2> QED
    BY <2>3 DEF InOrder
<1> QED
  BY <1>6, <1>8, <1>9 DEF r

\* Appending an element.
LEMMA AppendSet ==
  ASSUME NEW T, NEW s \in Seq(T), NEW x \in T
  PROVE  /\ Append(s, x) \in Seq(T)
         /\ ToSet(Append(s, x)) = ToSet(s) \cup {x}
         /\ Distinct(s) /\ x \notin ToSet(s) => Distinct(Append(s, x))
<1>1. /\ Append(s, x) \in Seq(T) /\ Len(Append(s, x)) = Len(s) + 1
      /\ \A n \in 1..Len(s) : Append(s, x)[n] = s[n]
      /\ Append(s, x)[Len(s) + 1] = x
  BY AppendProperties
<1>2. /\ Len(s) \in Nat /\ DOMAIN s = 1..Len(s)
      /\ DOMAIN Append(s, x) = 1..(Len(s) + 1)
  BY <1>1, LenProperties
<1> DEFINE u == Append(s, x)
<1> HIDE DEF u
<1>3. /\ \A n \in 1..Len(s) : u[n] = s[n]
      /\ u[Len(s) + 1] = x /\ DOMAIN u = 1..(Len(s) + 1)
  BY <1>1, <1>2 DEF u
<1>4. ToSet(u) = ToSet(s) \cup {x}
  <2>1. \A n \in 1..(Len(s) + 1) : n \in 1..Len(s) \/ n = Len(s) + 1
    BY <1>2
  <2>2. 1..Len(s) \subseteq 1..(Len(s) + 1) /\ Len(s) + 1 \in 1..(Len(s) + 1)
    BY <1>2
  <2> QED
    BY <2>1, <2>2, <1>2, <1>3 DEF ToSet
<1>5. ASSUME Distinct(s), x \notin ToSet(s)
      PROVE  Distinct(u)
  <2> SUFFICES ASSUME NEW m \in DOMAIN u, NEW n \in DOMAIN u, u[m] = u[n]
               PROVE  m = n
    BY DEF Distinct
  <2>1. /\ m \in 1..Len(s) \/ m = Len(s) + 1
        /\ n \in 1..Len(s) \/ n = Len(s) + 1
    BY <1>2, <1>3
  <2> QED
    BY <2>1, <1>2, <1>3, <1>5 DEF Distinct, ToSet
<1> QED
  BY <1>1, <1>4, <1>5 DEF u

LEMMA AppendKeepsOrder ==
  ASSUME NEW T, NEW t \in Seq(T), NEW s \in Seq(T), NEW x \in T, InOrder(t, s)
  PROVE  InOrder(t, Append(s, x))
<1>1. /\ Len(s) \in Nat /\ DOMAIN s = 1..Len(s)
      /\ DOMAIN Append(s, x) = 1..(Len(s) + 1)
      /\ \A n \in 1..Len(s) : Append(s, x)[n] = s[n]
  BY LenProperties, AppendProperties
<1>2. DOMAIN s \subseteq DOMAIN Append(s, x)
  BY <1>1
<1> DEFINE u == Append(s, x)
<1> HIDE DEF u
<1>3. InOrder(t, u)
  BY <1>1, <1>2 DEF u, InOrder
<1> QED
  BY <1>3 DEF u

\* The newest element goes to the back.
LEMMA NewestAtBack ==
  ASSUME NEW T, NEW t \in Seq(T), NEW s \in Seq(T), s # <<>>, InOrder(t, s),
         ToSet(t) \subseteq ToSet(s), Last(s) \notin ToSet(t)
  PROVE  InOrder(Append(t, Last(s)), s)
<1> DEFINE x == Last(s)
           u == Append(t, x)
<1>1. Len(s) \in Nat \ {0} /\ DOMAIN s = 1..Len(s) /\ x = s[Len(s)] /\ x \in T
  BY EmptySeq, LenProperties, ElementOfSeq DEF Last
<1>2. /\ Len(t) \in Nat /\ DOMAIN t = 1..Len(t)
      /\ DOMAIN u = 1..(Len(t) + 1)
      /\ \A n \in 1..Len(t) : u[n] = t[n]
      /\ u[Len(t) + 1] = x
  BY <1>1, LenProperties, AppendProperties
<1> HIDE DEF u
<1>3. ASSUME NEW a \in DOMAIN u, NEW b \in DOMAIN u, a < b
      PROVE  \E m, n \in DOMAIN s : m < n /\ s[m] = u[a] /\ s[n] = u[b]
  <2>1. a \in DOMAIN t /\ u[a] = t[a]
    BY <1>2, <1>3
  <2>2. CASE b \in DOMAIN t
    BY <2>1, <2>2, <1>2, <1>3 DEF InOrder
  <2>3. CASE b \notin DOMAIN t
    <3>1. b = Len(t) + 1 /\ u[b] = s[Len(s)]
      BY <2>3, <1>1, <1>2
    <3>2. t[a] \in ToSet(s) /\ t[a] # s[Len(s)]
      BY <2>1, <1>1 DEF ToSet
    <3>3. PICK m \in DOMAIN s : s[m] = t[a] /\ m # Len(s)
      BY <3>2, <1>1 DEF ToSet
    <3>4. m < Len(s) /\ Len(s) \in DOMAIN s
      BY <3>3, <1>1
    <3> QED
      BY <3>1, <3>3, <3>4, <2>1
  <2> QED
    BY <2>2, <2>3
<1> QED
  BY <1>3 DEF u, InOrder

\* A sequence without duplicates is no longer than one that has all its elements.
LEMMA DistinctIsShort ==
  ASSUME NEW T, NEW s \in Seq(T), NEW u \in Seq(T), Distinct(s), ToSet(s) \subseteq ToSet(u)
  PROVE  Len(s) <= Len(u)
<1> DEFINE D == 1..Len(s)
           E == 1..Len(u)
           f == [n \in D |-> CHOOSE k \in E : u[k] = s[n]]
<1>1. /\ Len(s) \in Nat /\ DOMAIN s = D
      /\ Len(u) \in Nat /\ DOMAIN u = E
  BY LenProperties
<1>2. \A n \in D : \E k \in E : u[k] = s[n]
  BY <1>1 DEF ToSet
<1>3. \A n \in D : f[n] \in E /\ u[f[n]] = s[n]
  BY <1>2
<1>4. IsFiniteSet(D) /\ Cardinality(D) = Len(s) /\ IsFiniteSet(E) /\ Cardinality(E) = Len(u)
  <2>1. ASSUME NEW n \in Nat
        PROVE  IsFiniteSet(1..n) /\ Cardinality(1..n) = n
    <3>1. IsFiniteSet(1..n) /\ Cardinality(1..n) = IF 1 > n THEN 0 ELSE n - 1 + 1
      BY FS_Interval
    <3> QED
      BY <3>1
  <2> QED
    BY <2>1, <1>1
<1> HIDE DEF D, E
<1>5. f \in Injection(D, E)
  <2>1. f \in [D -> E]
    BY <1>3
  <2>2. \A a, b \in D : f[a] = f[b] => a = b
    BY <1>1, <1>3 DEF Distinct
  <2> HIDE DEF f
  <2> QED
    BY <2>1, <2>2 DEF Injection, IsInjective
<1> HIDE DEF f
<1> QED
  BY <1>4, <1>5, FS_Injection

-----------------------------------------------------------------------------
(* Types *)

Typed == TypeOK /\ IsFiniteSet(trades)

LEMMA LeastNat == \A x, y \in Nat : Least(x, y) \in Nat /\ Least(x, y) <= x /\ Least(x, y) <= y
  BY DEF Least

LEMMA EventTyped ==
  ASSUME NEW e \in Events
  PROVE  e.quantity \in Nat /\ e.orders \subseteq Orders /\ e.id \in Nat
  BY DEF Events

LEMMA OpenTyped ==
  ASSUME Typed, NEW o \in Orders, NEW rows \in Rows
  PROVE  Open(o, rows) \in Int /\ Open(o, rows) <= Quantity[o]
<1> DEFINE T == {t \in rows.handled : o \in t.orders}
           f == [t \in rows.handled |-> t.quantity]
<1>0. rows.handled \in SUBSET trades
  BY DEF Rows
<1>1. IsFiniteSet(T)
  BY <1>0, FS_Subset DEF Typed
<1>2. \A t \in T : t \in Events
  BY <1>0 DEF Typed, TypeOK
<1>3. \A t \in T : f[t] \in Nat
  BY <1>2, EventTyped
<1> HIDE DEF f, T
<1>4. SumFunctionOnSet(f, T) \in Nat
  BY <1>1, <1>3, SumNat
<1>5. Quantity[o] \in Nat
  BY OrderAssumption
<1>6. Open(o, rows) \in {0, Quantity[o] - SumFunctionOnSet(f, T)}
  BY DEF Open, f, T
<1> QED
  BY <1>4, <1>5, <1>6

LEMMA TradedInTyped ==
  ASSUME NEW events \in Seq(Events), NEW o \in Orders
  PROVE  TradedIn(events, o) \in Nat
<1> DEFINE T == {n \in DOMAIN events : IsTrade(events[n]) /\ o \in events[n].orders}
           f == [n \in DOMAIN events |-> events[n].quantity]
<1>1. IsFiniteSet(DOMAIN events)
  BY LenProperties, FS_Interval
<1>2. IsFiniteSet(T)
  BY <1>1, FS_Subset
<1>3. \A n \in T : f[n] \in Nat
  BY LenProperties, ElementOfSeq, EventTyped
<1> HIDE DEF f, T
<1>4. SumFunctionOnSet(f, T) \in Nat
  BY <1>2, <1>3, SumNat
<1> QED
  BY <1>4 DEF TradedIn, f, T

LEMMA EventIsTyped ==
  ASSUME Typed, NEW kind \in {"trade.executed", "order.cancelled", "order.cancel_rejected"},
         NEW orders \in SUBSET Orders, NEW q \in Nat
  PROVE  Event(kind, orders, q) \in Events
  BY DEF Typed, TypeOK, Event, Events

LEMMA TypeInit == Init => Typed
<1> SUFFICES ASSUME Init PROVE Typed
  OBVIOUS
<1>1. IsFiniteSet(trades)
  BY FS_EmptySet DEF Init
<1>2. /\ accepted \subseteq Messages /\ cancelRequests \in [Orders -> Nat]
      /\ inHand \in [Handlers -> Messages \cup {NoMessage}]
  BY DEF Init, Handlers
<1>3. /\ bids \in [Prices -> Seq(Orders)] /\ asks \in [Prices -> Seq(Orders)]
      /\ index \subseteq Orders /\ left \in [Orders -> Nat]
  BY EmptySeq DEF Init
<1>4. seen \in Seq(Orders) /\ Len(seen) <= SeenMax /\ placed \in Seq(Orders)
  BY EmptySeq, BoundsAssumption DEF Init
<1>5. outbox \in [Handlers -> Seq(Events)] /\ trades \subseteq Events
  BY EmptySeq DEF Init
<1>6. /\ cancelled \in [Orders -> Nat] /\ cancelRejected \in [Orders -> Nat]
      /\ cancelAsked \subseteq Orders /\ matching \in Orders \cup {NoOrder}
  BY DEF Init
<1>7. /\ traded \in [Orders -> Nat] /\ tradeCount \in Nat
      /\ lost \in [Orders -> Nat] /\ lostAnswers \subseteq Orders
  BY DEF Init
<1>8. restarted \in BOOLEAN
  BY DEF Init
<1>9. faults \in 0..MaxFaults
  BY BoundsAssumption DEF Init
<1> QED
  BY <1>1, <1>2, <1>3, <1>4, <1>5, <1>6, <1>7, <1>8, <1>9 DEF Typed, TypeOK

LEMMA RememberTyped ==
  ASSUME Typed, NEW o \in Orders
  PROVE  Remember(o) \in Seq(Orders) /\ Len(Remember(o)) <= SeenMax
<1>0. seen \in Seq(Orders) /\ Len(seen) <= SeenMax
  BY DEF Typed, TypeOK
<1>1. /\ Append(seen, o) \in Seq(Orders) /\ Append(seen, o) # <<>>
      /\ Len(Append(seen, o)) = Len(seen) + 1 /\ Len(seen) \in Nat /\ Len(seen) <= SeenMax
  BY <1>0, AppendProperties, LenProperties
<1>2. Tail(Append(seen, o)) \in Seq(Orders) /\ Len(Tail(Append(seen, o))) = Len(seen)
  BY <1>1, HeadTailProperties
<1> QED
  BY <1>1, <1>2, BoundsAssumption DEF Remember

-----------------------------------------------------------------------------
(* Levels *)

\* The levels of a side hold the resting orders of that side, each at its price and once.
Holds(levels, side, resting) ==
  \A p \in Prices :
    /\ Distinct(levels[p])
    /\ ToSet(levels[p]) = {o \in resting : Side[o] = side /\ Price[o] = p}

LEMMA PriceIsPrice == \A o \in Orders : Price[o] \in Prices
  BY DEF Prices

LEMMA RestHolds ==
  ASSUME NEW levels \in [Prices -> Seq(Orders)], NEW resting \in SUBSET Orders,
         NEW o \in Orders, o \notin resting, Holds(levels, Side[o], resting)
  PROVE  /\ RestOrder(levels, o) \in [Prices -> Seq(Orders)]
         /\ Holds(RestOrder(levels, o), Side[o], resting \cup {o})
<1> DEFINE after == RestOrder(levels, o)
           level == levels[Price[o]]
<1>1. Price[o] \in Prices /\ level \in Seq(Orders)
  BY PriceIsPrice
<1>2. Distinct(level) /\ ToSet(level) = {r \in resting : Side[r] = Side[o] /\ Price[r] = Price[o]}
  BY <1>1 DEF Holds
<1>3. o \notin ToSet(level)
  BY <1>2
<1>4. /\ Append(level, o) \in Seq(Orders) /\ Distinct(Append(level, o))
      /\ ToSet(Append(level, o)) = ToSet(level) \cup {o}
  BY <1>1, <1>2, <1>3, AppendSet
<1>5. /\ after \in [Prices -> Seq(Orders)]
      /\ \A p \in Prices : after[p] = IF p = Price[o] THEN Append(level, o) ELSE levels[p]
  BY <1>1, <1>4 DEF RestOrder, AtBack
<1> HIDE DEF after, level
<1>6. ASSUME NEW p \in Prices
      PROVE  /\ Distinct(after[p])
             /\ ToSet(after[p]) = {r \in resting \cup {o} : Side[r] = Side[o] /\ Price[r] = p}
  <2>1. CASE p = Price[o]
    BY <2>1, <1>2, <1>4, <1>5
  <2>2. CASE p # Price[o]
    <3>1. after[p] = levels[p]
      BY <2>2, <1>5
    <3>2. Distinct(levels[p]) /\ ToSet(levels[p]) = {r \in resting : Side[r] = Side[o] /\ Price[r] = p}
      BY DEF Holds
    <3> QED
      BY <2>2, <3>1, <3>2
  <2> QED
    BY <2>1, <2>2
<1> QED
  BY <1>5, <1>6 DEF Holds, after

LEMMA RemoveHolds ==
  ASSUME NEW levels \in [Prices -> Seq(Orders)], NEW resting \in SUBSET Orders,
         NEW o \in resting, Holds(levels, Side[o], resting)
  PROVE  /\ Removed(levels, o) \in [Prices -> Seq(Orders)]
         /\ Holds(Removed(levels, o), Side[o], resting \ {o})
         /\ \A p \in Prices : InOrder(Removed(levels, o)[p], levels[p])
<1> DEFINE after == Removed(levels, o)
           level == levels[Price[o]]
<1>1. Price[o] \in Prices /\ level \in Seq(Orders)
  BY PriceIsPrice
<1>2. Distinct(level) /\ ToSet(level) = {r \in resting : Side[r] = Side[o] /\ Price[r] = Price[o]}
  BY <1>1 DEF Holds
<1>3. o \in ToSet(level)
  BY <1>2
<1> DEFINE rest == RemoveFirst(level, o)
<1>4. rest \in Seq(Orders) /\ ToSet(rest) = ToSet(level) \ {o} /\ InOrder(rest, level)
  BY <1>1, <1>2, <1>3, RemoveProperties
<1>5. Distinct(rest)
  BY <1>1, <1>2, <1>4, InOrderDistinct
<1>6. /\ after \in [Prices -> Seq(Orders)]
      /\ \A p \in Prices : after[p] = IF p = Price[o] THEN rest ELSE levels[p]
  BY <1>1, <1>4 DEF Removed
<1>7. \A s : InOrder(s, s)
  BY DEF InOrder
<1> HIDE DEF after, rest
<1>8. ASSUME NEW p \in Prices
      PROVE  /\ Distinct(after[p]) /\ InOrder(after[p], levels[p])
             /\ ToSet(after[p]) = {r \in resting \ {o} : Side[r] = Side[o] /\ Price[r] = p}
  <2>1. CASE p = Price[o]
    BY <2>1, <1>2, <1>4, <1>5, <1>6
  <2>2. CASE p # Price[o]
    <3>1. after[p] = levels[p]
      BY <2>2, <1>6
    <3>2. Distinct(levels[p]) /\ ToSet(levels[p]) = {r \in resting : Side[r] = Side[o] /\ Price[r] = p}
      BY DEF Holds
    <3> QED
      BY <2>2, <3>1, <3>2, <1>7
  <2> QED
    BY <2>1, <2>2
<1> QED
  BY <1>6, <1>8 DEF Holds, after

\* The levels of the other side do not mind.
LEMMA OtherSideHolds ==
  ASSUME NEW levels, NEW resting, NEW side, NEW o, Side[o] # side, Holds(levels, side, resting)
  PROVE  Holds(levels, side, resting \cup {o}) /\ Holds(levels, side, resting \ {o})
  BY DEF Holds

LEMMA RebuildHolds ==
  ASSUME NEW orders \in Seq(Orders), Distinct(orders), NEW side
  PROVE  /\ LevelsOf(orders, side) \in [Prices -> Seq(Orders)]
         /\ Holds(LevelsOf(orders, side), side, ToSet(orders))
         /\ \A p \in Prices : InOrder(LevelsOf(orders, side)[p], orders)
<1> DEFINE S(p) == {o \in Orders : Side[o] = side /\ Price[o] = p}
           levels == LevelsOf(orders, side)
<1>1. \A p \in Prices : levels[p] = Those(S(p), orders)
  BY DEF LevelsOf
<1>2. ASSUME NEW p \in Prices
      PROVE  /\ levels[p] \in Seq(Orders) /\ InOrder(levels[p], orders)
             /\ ToSet(levels[p]) = ToSet(orders) \cap S(p)
    <2>1. levels[p] = Those(S(p), orders)
      BY <1>1
    <2> DEFINE Sp == S(p)
    <2> HIDE DEF Sp
    <2>2. /\ Those(Sp, orders) \in Seq(Orders) /\ ToSet(Those(Sp, orders)) = ToSet(orders) \cap Sp
          /\ InOrder(Those(Sp, orders), orders)
      BY ThoseProperties
    <2> QED
      BY <2>1, <2>2 DEF Sp
<1>3. \A p \in Prices : Distinct(levels[p])
  BY <1>2, InOrderDistinct
<1>4. ToSet(orders) \subseteq Orders
  BY LenProperties, ElementOfSeq DEF ToSet
<1>5. levels = [p \in Prices |-> Those(S(p), orders)]
  BY DEF LevelsOf
<1> HIDE DEF levels
<1>6. levels \in [Prices -> Seq(Orders)]
  BY <1>2, <1>5
<1>7. Holds(levels, side, ToSet(orders))
  BY <1>2, <1>3, <1>4 DEF Holds
<1> QED
  BY <1>2, <1>6, <1>7 DEF levels

-----------------------------------------------------------------------------
(* The inductive invariant *)

Book ==
  /\ Holds(bids, "BUY", index) /\ Holds(asks, "SELL", index)
  /\ matching \notin index
  /\ \A o \in index : left[o] > 0
  /\ \A o \in Orders : left[o] > 0 => o \in index \/ o = matching
  /\ NotCrossedBeforeRestart

\* An order.accepted message is about a placed order, for no more than its size.
Asked(m) == m.order \in ToSet(placed) /\ m.quantity \in 1..Quantity[m.order]

Requests ==
  /\ Distinct(placed) /\ Len(placed) <= MaxPlaced
  /\ \A m \in accepted : Asked(m)
  /\ inHand["accepted"] # NoMessage => Asked(inHand["accepted"])
  /\ Distinct(seen) /\ ToSet(seen) \subseteq ToSet(placed)
  /\ matching # NoOrder => seen # <<>> /\ Last(seen) = matching

\* The levels are in the order of arrival, which seen_orders records.
Arrivals ==
  /\ index \subseteq ToSet(seen)
  /\ \A p \in Prices : InOrder(bids[p], seen) /\ InOrder(asks[p], seen)

\* An order that was never seen has not traded.
Fills ==
  ~ restarted => \A o \in Orders :
    /\ traded[o] + left[o] <= Quantity[o]
    /\ o \notin ToSet(seen) => traded[o] = 0

\* The n-th event handler h has still to publish is order.cancelled about o.
CancelAt(h, n, o) ==
  n \in DOMAIN outbox[h] /\ IsCancel(outbox[h][n]) /\ o \in outbox[h][n].orders

\* The engine may still trade o, or hear of it for the first time.
MayTrade(o) == o \notin ToSet(seen) \/ o \in index \/ o = matching

Cancels ==
  ~ restarted => \A o \in Orders :
    /\ cancelled[o] <= 1 /\ (MayTrade(o) => cancelled[o] = 0)
    /\ cancelled[o] = 1 \/ MayTrade(o) => \A h \in Handlers, n \in Nat : ~ CancelAt(h, n, o)
    /\ \A g, h \in Handlers : \A m, n \in Nat :
         CancelAt(g, m, o) /\ CancelAt(h, n, o) => g = h /\ m = n

\* An answer is about one order.
Answers ==
  \A h \in Handlers : \A n \in DOMAIN outbox[h] :
    ~ IsTrade(outbox[h][n]) => \E o \in Orders : outbox[h][n].orders = {o}

-----------------------------------------------------------------------------
(* Every step keeps the types *)

InboxTyped ==
  /\ accepted \subseteq Messages /\ cancelRequests \in [Orders -> Nat]
  /\ inHand \in [Handlers -> Messages \cup {NoMessage}]
BookTyped ==
  /\ bids \in [Prices -> Seq(Orders)] /\ asks \in [Prices -> Seq(Orders)]
  /\ index \subseteq Orders /\ left \in [Orders -> Nat]
EngineTyped ==
  /\ seen \in Seq(Orders) /\ Len(seen) <= SeenMax /\ matching \in Orders \cup {NoOrder}
  /\ outbox \in [Handlers -> Seq(Events)]
BusTyped ==
  /\ trades \subseteq Events /\ IsFiniteSet(trades)
  /\ cancelled \in [Orders -> Nat] /\ cancelRejected \in [Orders -> Nat]
ServiceTyped == placed \in Seq(Orders) /\ cancelAsked \subseteq Orders
HistoryTyped ==
  /\ traded \in [Orders -> Nat] /\ tradeCount \in Nat
  /\ lost \in [Orders -> Nat] /\ lostAnswers \subseteq Orders /\ restarted \in BOOLEAN

Parts ==
  /\ InboxTyped /\ BookTyped /\ EngineTyped /\ BusTyped /\ ServiceTyped /\ HistoryTyped
  /\ faults \in 0..MaxFaults

LEMMA TypedIsParts == (Typed <=> Parts) /\ (Typed' <=> Parts')
  BY Zenon DEF Typed, TypeOK, Parts, InboxTyped, BookTyped, EngineTyped, BusTyped, ServiceTyped,
               HistoryTyped

\* What a step leaves alone stays typed.
LEMMA TypedFrame ==
  ASSUME Typed
  PROVE  /\ UNCHANGED inbox => InboxTyped'
         /\ UNCHANGED book => BookTyped'
         /\ UNCHANGED <<seen, matching, outbox>> => EngineTyped'
         /\ UNCHANGED bus => BusTyped'
         /\ UNCHANGED orderService => ServiceTyped'
         /\ UNCHANGED history => HistoryTyped'
         /\ UNCHANGED faults => faults' \in 0..MaxFaults
<1>1. Parts
  BY TypedIsParts
<1>2. UNCHANGED inbox => InboxTyped'
  BY <1>1 DEF Parts, InboxTyped, inbox
<1>3. UNCHANGED book => BookTyped'
  BY <1>1 DEF Parts, BookTyped, book
<1>4. UNCHANGED <<seen, matching, outbox>> => EngineTyped'
  BY <1>1 DEF Parts, EngineTyped
<1>5. UNCHANGED bus => BusTyped'
  BY <1>1 DEF Parts, BusTyped, bus
<1>6. UNCHANGED orderService => ServiceTyped'
  BY <1>1 DEF Parts, ServiceTyped, orderService
<1>7. UNCHANGED history => HistoryTyped'
  BY <1>1 DEF Parts, HistoryTyped, history
<1>8. UNCHANGED faults => faults' \in 0..MaxFaults
  BY <1>1 DEF Parts
<1> QED
  BY <1>2, <1>3, <1>4, <1>5, <1>6, <1>7, <1>8

LEMMA FaultTyped == ASSUME Typed, Fault PROVE faults' \in 0..MaxFaults
<1>1. faults \in 0..MaxFaults
  BY DEF Typed, TypeOK
<1> QED
  BY <1>1, BoundsAssumption DEF Fault

LEMMA MessageTyped == \A o \in Orders, q \in Nat : Message(o, q) \in Messages
  BY DEF Message, Messages

LEMMA MessageFields ==
  \A m \in Messages : m.order \in Orders /\ m.quantity \in Nat
  BY DEF Messages

LEMMA PlaceTyped ==
  ASSUME Typed, NEW o \in Orders, Place(o)
  PROVE  Typed'
<1>1. Quantity[o] \in Nat /\ Message(o, Quantity[o]) \in Messages
  BY OrderAssumption, MessageTyped
<1>2. InboxTyped'
  BY <1>1 DEF Place, Typed, TypeOK, InboxTyped
<1>3. ServiceTyped'
  BY AppendProperties DEF Place, Typed, TypeOK, ServiceTyped
<1> QED
  BY <1>2, <1>3, TypedFrame, TypedIsParts DEF Place, Parts

LEMMA RepublishTyped ==
  ASSUME Typed, NEW o \in Orders, Republish(o)
  PROVE  Typed'
<1>1. PICK rows \in Rows :
        Open(o, rows) > 0 /\ accepted' = accepted \cup {Message(o, Open(o, rows))}
  BY DEF Republish
<1>2. Open(o, rows) \in Nat
  BY <1>1, OpenTyped
<1>3. Message(o, Open(o, rows)) \in Messages
  BY <1>2, MessageTyped
<1>4. InboxTyped'
  BY <1>1, <1>3 DEF Republish, Typed, TypeOK, InboxTyped
<1> QED
  BY <1>4, FaultTyped, TypedFrame, TypedIsParts DEF Republish, Parts

LEMMA RequestCancelTyped ==
  ASSUME Typed, NEW o \in Orders, RequestCancel(o)
  PROVE  Typed'
<1>1. InboxTyped'
  <2>1. cancelRequests \in [Orders -> Nat]
    BY DEF Typed, TypeOK
  <2>2. cancelRequests' \in [Orders -> Nat]
    BY <2>1 DEF RequestCancel
  <2> QED
    BY <2>2 DEF RequestCancel, Typed, TypeOK, InboxTyped
<1>2. ServiceTyped'
  BY DEF RequestCancel, Typed, TypeOK, ServiceTyped
<1> QED
  BY <1>1, <1>2, TypedFrame, TypedIsParts DEF RequestCancel, Parts

LEMMA IgnoreDuplicateTyped ==
  ASSUME Typed, NEW m \in accepted, IgnoreDuplicate(m)
  PROVE  Typed'
<1>1. InboxTyped'
  BY DEF IgnoreDuplicate, Typed, TypeOK, InboxTyped
<1> QED
  BY <1>1, TypedFrame, TypedIsParts DEF IgnoreDuplicate, Parts

LEMMA BeginMatchTyped ==
  ASSUME Typed, NEW m \in accepted, BeginMatch(m)
  PROVE  Typed'
<1>1. m \in Messages /\ m.order \in Orders /\ m.quantity \in Nat
  BY MessageFields DEF Typed, TypeOK
<1>2. InboxTyped'
  BY <1>1 DEF BeginMatch, Typed, TypeOK, InboxTyped, Handlers
<1>3. EngineTyped'
  BY <1>1, RememberTyped DEF BeginMatch, Typed, TypeOK, EngineTyped
<1>4. BookTyped'
  BY <1>1 DEF BeginMatch, Typed, TypeOK, BookTyped
<1> QED
  BY <1>2, <1>3, <1>4, TypedFrame, TypedIsParts DEF BeginMatch, Parts

LEMMA RedeliverTyped ==
  ASSUME Typed, Redeliver
  PROVE  Typed'
<1>1. inHand["accepted"] \in Messages
  BY DEF Redeliver, Typed, TypeOK, Handlers
<1>2. InboxTyped'
  BY <1>1 DEF Redeliver, Typed, TypeOK, InboxTyped
<1> QED
  BY <1>2, FaultTyped, TypedFrame, TypedIsParts DEF Redeliver, Parts

LEMMA EmitTyped ==
  ASSUME Typed, NEW h \in Handlers, NEW events \in Seq(Events), Emit(h, events)
  PROVE  outbox' \in [Handlers -> Seq(Events)]
<1>1. outbox \in [Handlers -> Seq(Events)] /\ outbox[h] \in Seq(Events)
  BY DEF Typed, TypeOK
<1>2. outbox[h] \o events \in Seq(Events)
  BY <1>1, ConcatProperties
<1> QED
  BY <1>1, <1>2 DEF Emit

LEMMA OneEvent == \A e \in Events : <<e>> \in Seq(Events)
  OBVIOUS

\* The levels and the index after a step.
LevelsSound ==
  /\ bids \in [Prices -> Seq(Orders)] /\ asks \in [Prices -> Seq(Orders)]
  /\ index \subseteq Orders
  /\ Holds(bids, "BUY", index) /\ Holds(asks, "SELL", index)

LEMMA TakeOutSound ==
  ASSUME Typed, Book, NEW o \in index, TakeOut(o)
  PROVE  /\ LevelsSound' /\ index' = index \ {o}
         /\ \A p \in Prices : InOrder(bids'[p], bids[p]) /\ InOrder(asks'[p], asks[p])
<1>1. /\ bids \in [Prices -> Seq(Orders)] /\ asks \in [Prices -> Seq(Orders)]
      /\ index \in SUBSET Orders /\ o \in Orders
  BY DEF Typed, TypeOK
<1>2. Holds(bids, "BUY", index) /\ Holds(asks, "SELL", index)
  BY DEF Book
<1>3. index' = index \ {o}
  BY DEF TakeOut
<1>4. \A s : InOrder(s, s)
  BY DEF InOrder
<1>5. CASE Side[o] = "BUY"
  <2>1. bids' = Removed(bids, o) /\ asks' = asks
    BY <1>5 DEF TakeOut
  <2>2. /\ Removed(bids, o) \in [Prices -> Seq(Orders)]
        /\ Holds(Removed(bids, o), "BUY", index \ {o})
        /\ \A p \in Prices : InOrder(Removed(bids, o)[p], bids[p])
    BY <1>1, <1>2, <1>5, RemoveHolds
  <2>3. Holds(asks, "SELL", index \ {o})
    BY <1>2, <1>5, OtherSideHolds
  <2> QED
    BY <2>1, <2>2, <2>3, <1>1, <1>3, <1>4 DEF LevelsSound
<1>6. CASE Side[o] = "SELL"
  <2>1. asks' = Removed(asks, o) /\ bids' = bids
    BY <1>6 DEF TakeOut
  <2>2. /\ Removed(asks, o) \in [Prices -> Seq(Orders)]
        /\ Holds(Removed(asks, o), "SELL", index \ {o})
        /\ \A p \in Prices : InOrder(Removed(asks, o)[p], asks[p])
    BY <1>1, <1>2, <1>6, RemoveHolds
  <2>3. Holds(bids, "BUY", index \ {o})
    BY <1>2, <1>6, OtherSideHolds
  <2> QED
    BY <2>1, <2>2, <2>3, <1>1, <1>3, <1>4 DEF LevelsSound
<1> QED
  BY <1>1, <1>5, <1>6, OrderAssumption

\* What is left of o comes to rest.
Rests(o) ==
  /\ index' = index \cup {o}
  /\ bids' = IF Side[o] = "BUY" THEN RestOrder(bids, o) ELSE bids
  /\ asks' = IF Side[o] = "SELL" THEN RestOrder(asks, o) ELSE asks

LEMMA RestsSound ==
  ASSUME Typed, Book, NEW o \in Orders, o \notin index, Rests(o)
  PROVE  LevelsSound'
<1>1. /\ bids \in [Prices -> Seq(Orders)] /\ asks \in [Prices -> Seq(Orders)]
      /\ index \in SUBSET Orders
  BY DEF Typed, TypeOK
<1>2. Holds(bids, "BUY", index) /\ Holds(asks, "SELL", index)
  BY DEF Book
<1>3. index' = index \cup {o}
  BY DEF Rests
<1>4. CASE Side[o] = "BUY"
  <2>1. bids' = RestOrder(bids, o) /\ asks' = asks
    BY <1>4 DEF Rests
  <2>2. /\ RestOrder(bids, o) \in [Prices -> Seq(Orders)]
        /\ Holds(RestOrder(bids, o), "BUY", index \cup {o})
    <3>1. Holds(bids, Side[o], index) /\ o \notin index
      BY <1>2, <1>4
    <3>2. /\ RestOrder(bids, o) \in [Prices -> Seq(Orders)]
          /\ Holds(RestOrder(bids, o), Side[o], index \cup {o})
      BY <3>1, <1>1, RestHolds
    <3> QED
      BY <3>2, <1>4
  <2>3. Holds(asks, "SELL", index \cup {o})
    BY <1>2, <1>4, OtherSideHolds
  <2> QED
    BY <2>1, <2>2, <2>3, <1>1, <1>3 DEF LevelsSound
<1>5. CASE Side[o] = "SELL"
  <2>1. asks' = RestOrder(asks, o) /\ bids' = bids
    BY <1>5 DEF Rests
  <2>2. /\ RestOrder(asks, o) \in [Prices -> Seq(Orders)]
        /\ Holds(RestOrder(asks, o), "SELL", index \cup {o})
    <3>1. Holds(asks, Side[o], index) /\ o \notin index
      BY <1>2, <1>5
    <3>2. /\ RestOrder(asks, o) \in [Prices -> Seq(Orders)]
          /\ Holds(RestOrder(asks, o), Side[o], index \cup {o})
      BY <3>1, <1>1, RestHolds
    <3> QED
      BY <3>2, <1>5
  <2>3. Holds(bids, "BUY", index \cup {o})
    BY <1>2, <1>5, OtherSideHolds
  <2> QED
    BY <2>1, <2>2, <2>3, <1>1, <1>3 DEF LevelsSound
<1> QED
  BY <1>4, <1>5, OrderAssumption

LEMMA LevelsUnchanged ==
  ASSUME Typed, Book, UNCHANGED <<index, bids, asks>>
  PROVE  LevelsSound'
<1>1. LevelsSound
  BY DEF LevelsSound, Typed, TypeOK, Book
<1> QED
  BY <1>1 DEF LevelsSound

\* A trade: between the order under match and a resting one.
LEMMA MatchOneTrades ==
  ASSUME Typed, Book, NEW r \in Orders, MatchOne(r)
  PROVE  /\ matching \in Orders /\ r \in index /\ r # matching /\ r \in Candidates(matching)
         /\ LET q == TradeQuantity(matching, r)
            IN /\ q \in Nat \ {0} /\ q <= left[matching] /\ q <= left[r]
               /\ left' = [o \in Orders |-> IF o \in {matching, r} THEN left[o] - q ELSE left[o]]
               /\ traded' = [o \in Orders |-> IF o \in {matching, r} THEN traded[o] + q
                                                                     ELSE traded[o]]
               /\ left'[r] = 0 => TakeOut(r)
               /\ left'[r] # 0 => UNCHANGED <<index, bids, asks>>
<1> DEFINE i == matching
           q == TradeQuantity(i, r)
<1>1. i \in Orders /\ r \in Candidates(i) /\ left[i] > 0
  BY DEF MatchOne, IsFirst, Typed, TypeOK
<1>2. r \in index /\ r # i /\ left[r] > 0
  BY <1>1 DEF Candidates, Book
<1>3. left \in [Orders -> Nat] /\ traded \in [Orders -> Nat]
  BY DEF Typed, TypeOK
<1>4. left[i] \in Nat /\ left[r] \in Nat
  BY <1>1, <1>3
<1>5. q \in Nat \ {0} /\ q <= left[i] /\ q <= left[r]
  BY <1>1, <1>2, <1>4 DEF TradeQuantity, Least
<1>6. /\ left' = [left EXCEPT ![i] = @ - q, ![r] = @ - q]
      /\ traded' = [traded EXCEPT ![i] = @ + q, ![r] = @ + q]
      /\ IF left[r] = q THEN TakeOut(r) ELSE UNCHANGED <<index, bids, asks>>
  BY DEF MatchOne
<1> HIDE DEF i, q
<1>7. left' = [o \in Orders |-> IF o \in {i, r} THEN left[o] - q ELSE left[o]]
  BY <1>1, <1>2, <1>3, <1>6
<1>8. traded' = [o \in Orders |-> IF o \in {i, r} THEN traded[o] + q ELSE traded[o]]
  BY <1>1, <1>2, <1>3, <1>6
<1>9. left'[r] = left[r] - q
  BY <1>7
<1>10. left'[r] = 0 <=> left[r] = q
  BY <1>4, <1>5, <1>9
<1> QED
  BY <1>1, <1>2, <1>5, <1>6, <1>7, <1>8, <1>10 DEF i, q

LEMMA MatchOneSound ==
  ASSUME Typed, Book, NEW r \in Orders, MatchOne(r)
  PROVE  Typed' /\ Book'
<1> DEFINE q == TradeQuantity(matching, r)
<1>1. /\ matching \in Orders /\ r \in index /\ r # matching
      /\ q \in Nat \ {0} /\ q <= left[matching] /\ q <= left[r]
      /\ left' = [o \in Orders |-> IF o \in {matching, r} THEN left[o] - q ELSE left[o]]
      /\ traded' = [o \in Orders |-> IF o \in {matching, r} THEN traded[o] + q ELSE traded[o]]
      /\ left'[r] = 0 => TakeOut(r)
      /\ left'[r] # 0 => UNCHANGED <<index, bids, asks>>
  BY MatchOneTrades
<1> HIDE DEF q
<1>2. left \in [Orders -> Nat] /\ traded \in [Orders -> Nat] /\ tradeCount \in Nat
  BY DEF Typed, TypeOK
<1>3. LevelsSound' /\ (left'[r] = 0 => index' = index \ {r}) /\ (left'[r] # 0 => index' = index)
  BY <1>1, TakeOutSound, LevelsUnchanged
<1>4. left' \in [Orders -> Nat] /\ traded' \in [Orders -> Nat]
  BY <1>1, <1>2
<1>5. BookTyped'
  BY <1>3, <1>4 DEF BookTyped, LevelsSound
<1>6. HistoryTyped'
  <2>1. tradeCount' = tradeCount + 1
    BY DEF MatchOne
  <2>2. UNCHANGED <<lost, lostAnswers, restarted>>
    BY DEF MatchOne
  <2>3. tradeCount' \in Nat
    BY <2>1, <1>2
  <2>4. lost' \in [Orders -> Nat] /\ lostAnswers' \subseteq Orders /\ restarted' \in BOOLEAN
    BY <2>2, Zenon DEF Typed, TypeOK
  <2> QED
    BY <2>3, <2>4, <1>4, Zenon DEF HistoryTyped
<1>7. EngineTyped'
  <2>1. PICK e \in Events : Emit("accepted", <<e>>)
    BY <1>1, EventIsTyped DEF MatchOne, q
  <2>2. outbox' \in [Handlers -> Seq(Events)]
    BY <2>1, OneEvent, EmitTyped DEF Handlers
  <2> QED
    BY <2>2 DEF MatchOne, Typed, TypeOK, EngineTyped
<1>8. Typed'
  BY <1>5, <1>6, <1>7, TypedFrame, TypedIsParts DEF MatchOne, Parts
<1>9. matching' = matching /\ index' \subseteq index /\ restarted' = restarted
  BY <1>1, <1>3 DEF MatchOne
<1>10. ASSUME NEW o \in index'
       PROVE  left'[o] > 0
  <2>1. o \in Orders /\ left[o] > 0 /\ o # matching /\ left'[o] \in Nat
    BY <1>4, <1>9, <1>10 DEF Book, Typed, TypeOK
  <2> QED
    BY <2>1, <1>1, <1>3, <1>10
<1>11. ASSUME NEW o \in Orders, left'[o] > 0, o # matching
       PROVE  o \in index'
  <2>1. left[o] > 0
    BY <1>1, <1>2, <1>11
  <2> QED
    BY <2>1, <1>3, <1>4, <1>11 DEF Book
<1>12. NotCrossedBeforeRestart'
  BY <1>9 DEF Book, NotCrossedBeforeRestart, Crossed
<1> QED
  BY <1>3, <1>8, <1>9, <1>10, <1>11, <1>12 DEF Book, LevelsSound

\* The loop is over: what is left of the order rests, is cancelled, or there is none.
LEMMA EndMatchSound ==
  ASSUME Typed, Book, EndMatch
  PROVE  /\ Typed' /\ Book' /\ matching \in Orders
         /\ \/ UNCHANGED <<index, bids, asks>>
            \/ Rests(matching) /\ UNCHANGED <<left, outbox>>
<1> DEFINE i == matching
<1>1. i \in Orders /\ i \notin index
  BY DEF EndMatch, Book, Typed, TypeOK
<1>2. left \in [Orders -> Nat] /\ left[i] \in Nat
  BY <1>1 DEF Typed, TypeOK
<1>3. \/ /\ left[i] = 0 /\ UNCHANGED <<index, bids, asks, left, outbox>>
      \/ /\ left[i] > 0 /\ Type[i] = "LIMIT" /\ Candidates(i) = {}
         /\ Rests(i) /\ UNCHANGED <<left, outbox>>
      \/ /\ left[i] > 0 /\ UNCHANGED <<index, bids, asks>>
         /\ left' = [left EXCEPT ![i] = 0]
         /\ Emit("accepted", <<Event("order.cancelled", {i}, left[i])>>)
  <2>1. Type[i] \in {"LIMIT", "MARKET"}
    BY <1>1, OrderAssumption
  <2>2. left[i] = 0 \/ left[i] > 0
    BY <1>2
  <2>3. CASE left[i] = 0
    BY <2>3 DEF EndMatch
  <2>4. CASE left[i] > 0 /\ Type[i] = "LIMIT"
    BY <2>4 DEF EndMatch, Rests
  <2>5. CASE left[i] > 0 /\ Type[i] = "MARKET"
    BY <2>5 DEF EndMatch
  <2> QED
    BY <2>1, <2>2, <2>3, <2>4, <2>5
<1>4. matching' = NoOrder /\ restarted' = restarted
  BY DEF EndMatch, Unlock, history
<1>5. LevelsSound'
  <2>1. UNCHANGED <<index, bids, asks>> \/ Rests(i)
    BY <1>3
  <2> HIDE DEF i
  <2> QED
    BY <2>1, <1>1, RestsSound, LevelsUnchanged
<1>6. left' \in [Orders -> Nat]
  BY <1>1, <1>2, <1>3
<1>7. outbox' \in [Handlers -> Seq(Events)]
  <2>1. outbox \in [Handlers -> Seq(Events)]
    BY DEF Typed, TypeOK
  <2>2. <<Event("order.cancelled", {i}, left[i])>> \in Seq(Events)
    BY <1>1, <1>2, EventIsTyped, OneEvent
  <2> QED
    BY <1>3, <2>1, <2>2, EmitTyped DEF Handlers
<1>8. InboxTyped'
  BY DEF EndMatch, DoneWhenOut, Typed, TypeOK, InboxTyped, Handlers
<1>9. Typed'
  <2>1. BookTyped'
    BY <1>5, <1>6 DEF BookTyped, LevelsSound
  <2>2. EngineTyped'
    BY <1>4, <1>7 DEF EndMatch, Typed, TypeOK, EngineTyped
  <2> QED
    BY <1>8, <2>1, <2>2, TypedFrame, TypedIsParts DEF EndMatch, Parts
<1>10. /\ \A o \in index' : left'[o] > 0
       /\ \A o \in Orders : left'[o] > 0 => o \in index'
  <2>1. /\ \A o \in index : o \in Orders /\ o # i /\ left[o] > 0
        /\ \A o \in Orders : left[o] > 0 => o \in index \/ o = i
    BY <1>1 DEF Book, Typed, TypeOK
  <2> HIDE DEF i
  <2>2. CASE left[i] = 0 /\ UNCHANGED <<index, bids, asks, left, outbox>>
    BY <2>1, <2>2
  <2>3. CASE left[i] > 0 /\ Rests(i) /\ UNCHANGED left
    BY <2>1, <2>3 DEF Rests
  <2>4. CASE UNCHANGED index /\ left' = [left EXCEPT ![i] = 0]
    BY <2>1, <2>4, <1>1, <1>2
  <2> QED
    BY <1>3, <2>2, <2>3, <2>4
<1>11. NotCrossedBeforeRestart'
  <2> SUFFICES ASSUME ~ restarted, NEW b \in index', NEW a \in index',
                      Side[b] = "BUY", Side[a] = "SELL", Price[b] >= Price[a],
                      Owner[b] # Owner[a]
               PROVE  FALSE
    BY <1>4 DEF NotCrossedBeforeRestart, Crossed
  <2>1. ~ (b \in index /\ a \in index)
    BY DEF Book, NotCrossedBeforeRestart, Crossed
  <2>2. Candidates(i) = {} /\ index' = index \cup {i}
    BY <1>3, <2>1 DEF Rests
  <2>3. CASE b = i
    <3>1. a \in index
      BY <2>2, <2>3
    <3>2. a \in Candidates(i)
      BY <2>3, <3>1 DEF Candidates, Crosses, Opposite
    <3> QED
      BY <2>2, <3>2
  <2>4. CASE a = i
    <3>1. b \in index
      BY <2>2, <2>4
    <3>2. b \in Candidates(i)
      BY <2>4, <3>1 DEF Candidates, Crosses, Opposite
    <3> QED
      BY <2>2, <3>2
  <2> QED
    BY <2>1, <2>2, <2>3, <2>4
<1>12. NoOrder \notin index'
  BY <1>5, OrderAssumption DEF LevelsSound
<1>13. Book'
  BY <1>4, <1>5, <1>10, <1>11, <1>12 DEF Book, LevelsSound
<1> QED
  BY <1>1, <1>3, <1>9, <1>13

LEMMA CancelOrderSound ==
  ASSUME Typed, Book, NEW o \in Orders, CancelOrder(o)
  PROVE  /\ Typed' /\ Book' /\ matching = NoOrder
         /\ o \in index => TakeOut(o) /\ index' = index \ {o}
         /\ o \notin index => UNCHANGED book
<1>1. matching = NoOrder /\ UNCHANGED <<matching, seen, restarted>>
  BY DEF CancelOrder, Free, history
<1>2. left \in [Orders -> Nat] /\ left[o] \in Nat /\ index \subseteq Orders
  BY DEF Typed, TypeOK
<1>3. /\ o \in index => TakeOut(o) /\ left' = [left EXCEPT ![o] = 0]
      /\ o \notin index => UNCHANGED book
  BY DEF CancelOrder
<1>4. /\ LevelsSound'
      /\ o \in index => index' = index \ {o}
      /\ o \notin index => index' = index
  BY <1>3, TakeOutSound, LevelsUnchanged DEF book
<1>5. left' \in [Orders -> Nat]
  BY <1>2, <1>3 DEF book
<1>6. outbox' \in [Handlers -> Seq(Events)]
  <2>1. AnswerTo(o) \in Seq(Events)
    <3>1. /\ Event("order.cancelled", {o}, left[o]) \in Events
          /\ Event("order.cancel_rejected", {o}, 0) \in Events
      BY <1>2, EventIsTyped
    <3> QED
      BY <3>1, OneEvent DEF AnswerTo
  <2> QED
    BY <2>1, EmitTyped DEF CancelOrder, Handlers
<1>7. InboxTyped'
  <2>1. cancelRequests' \in [Orders -> Nat]
    <3>1. cancelRequests \in [Orders -> Nat] /\ cancelRequests[o] > 0 /\ cancelRequests[o] \in Nat
      BY DEF CancelOrder, Typed, TypeOK
    <3>2. \/ cancelRequests' = [cancelRequests EXCEPT ![o] = @ - 1]
          \/ cancelRequests' = cancelRequests
      BY DEF CancelOrder
    <3> QED
      BY <3>1, <3>2
  <2>2. inHand' \in [Handlers -> Messages \cup {NoMessage}]
    BY MessageTyped DEF CancelOrder, Typed, TypeOK, Handlers
  <2>3. accepted' \subseteq Messages
    BY DEF CancelOrder, Typed, TypeOK
  <2> QED
    BY <2>1, <2>2, <2>3 DEF InboxTyped
<1>8. faults' \in 0..MaxFaults
  BY FaultTyped, TypedFrame DEF CancelOrder
<1>9. Typed'
  <2>1. BookTyped'
    BY <1>4, <1>5 DEF BookTyped, LevelsSound
  <2>2. EngineTyped'
    BY <1>1, <1>6 DEF Typed, TypeOK, EngineTyped
  <2> QED
    BY <1>7, <1>8, <2>1, <2>2, TypedFrame, TypedIsParts DEF CancelOrder, Parts
<1>10. /\ \A r \in index' : left'[r] > 0
       /\ \A r \in Orders : left'[r] > 0 => r \in index'
  BY <1>1, <1>2, <1>3, <1>4, OrderAssumption DEF Book, book
<1>11. NotCrossedBeforeRestart' /\ index' \subseteq index
  BY <1>1, <1>4 DEF Book, NotCrossedBeforeRestart, Crossed
<1>12. Book'
  BY <1>1, <1>4, <1>10, <1>11 DEF Book, LevelsSound
<1> QED
  BY <1>1, <1>3, <1>4, <1>9, <1>12

LEMMA TakeNextTyped ==
  ASSUME Typed, NEW h \in Handlers, TakeNext(h), UNCHANGED <<accepted, cancelRequests, seen, matching>>
  PROVE  /\ InboxTyped' /\ EngineTyped'
         /\ outbox[h] \in Seq(Events) /\ outbox[h] # <<>> /\ NextOut(h) \in Events
         /\ outbox' = [outbox EXCEPT ![h] = Tail(@)]
<1>1. /\ outbox \in [Handlers -> Seq(Events)] /\ outbox[h] \in Seq(Events) /\ outbox[h] # <<>>
      /\ outbox' = [outbox EXCEPT ![h] = Tail(@)] /\ DoneWhenOut(h)
  BY DEF TakeNext, Typed, TypeOK
<1>2. Head(outbox[h]) \in Events /\ Tail(outbox[h]) \in Seq(Events)
  BY <1>1, HeadTailProperties
<1>3. outbox' \in [Handlers -> Seq(Events)]
  BY <1>1, <1>2
<1>4. InboxTyped'
  BY <1>1 DEF DoneWhenOut, Typed, TypeOK, InboxTyped, Handlers
<1>5. EngineTyped'
  BY <1>3 DEF Typed, TypeOK, EngineTyped
<1> QED
  BY <1>1, <1>2, <1>4, <1>5 DEF NextOut

LEMMA PublishTyped ==
  ASSUME Typed, NEW h \in Handlers, Publish(h)
  PROVE  Typed'
<1> DEFINE e == NextOut(h)
           add(counts) == [counts EXCEPT ![About(e)] = @ + 1]
<1>1. InboxTyped' /\ EngineTyped' /\ e \in Events
  BY TakeNextTyped DEF Publish
<1>2. /\ trades' = IF IsTrade(e) THEN trades \cup {e} ELSE trades
      /\ cancelled' = IF IsCancel(e) THEN add(cancelled) ELSE cancelled
      /\ cancelRejected' = IF IsTrade(e) \/ IsCancel(e) THEN cancelRejected
                                                        ELSE add(cancelRejected)
  BY DEF Publish
<1> HIDE DEF e
<1>3. trades \subseteq Events /\ IsFiniteSet(trades)
  BY DEF Typed, TypeOK
<1>4. trades' \subseteq Events /\ IsFiniteSet(trades')
  BY <1>1, <1>2, <1>3, FS_AddElement
<1>5. ASSUME NEW counts \in [Orders -> Nat]
      PROVE  add(counts) \in [Orders -> Nat]
  <2> DEFINE x == About(e)
  <2> HIDE DEF x
  <2>1. [counts EXCEPT ![x] = @ + 1] = [o \in Orders |-> IF o = x THEN counts[x] + 1 ELSE counts[o]]
    OBVIOUS
  <2>2. [counts EXCEPT ![x] = @ + 1] \in [Orders -> Nat]
    <3>1. \A o \in Orders : (IF o = x THEN counts[x] + 1 ELSE counts[o]) \in Nat
      OBVIOUS
    <3> QED
      BY <2>1, <3>1
  <2> QED
    BY <2>2 DEF x
<1>6. cancelled' \in [Orders -> Nat] /\ cancelRejected' \in [Orders -> Nat]
  BY <1>2, <1>5 DEF Typed, TypeOK
<1>7. BusTyped'
  BY <1>4, <1>6 DEF BusTyped
<1> QED
  BY <1>1, <1>7, TypedFrame, TypedIsParts DEF Publish, Parts

LEMMA PublishFailsTyped ==
  ASSUME Typed, NEW h \in Handlers, PublishFails(h)
  PROVE  Typed'
<1> DEFINE e == NextOut(h)
<1>1. InboxTyped' /\ EngineTyped' /\ e \in Events
  BY TakeNextTyped DEF PublishFails
<1>2. /\ lost' = [o \in Orders |-> lost[o] + TradedIn(<<e>>, o)]
      /\ lostAnswers' = IF IsTrade(e) THEN lostAnswers ELSE lostAnswers \cup e.orders
      /\ UNCHANGED <<traded, tradeCount, restarted>>
  BY DEF PublishFails
<1> HIDE DEF e
<1>3. lost' \in [Orders -> Nat]
  <2>1. \A o \in Orders : TradedIn(<<e>>, o) \in Nat
    BY <1>1, OneEvent, TradedInTyped
  <2>2. lost \in [Orders -> Nat]
    BY DEF Typed, TypeOK
  <2>3. \A o \in Orders : lost[o] + TradedIn(<<e>>, o) \in Nat
    BY <2>1, <2>2
  <2> QED
    BY <2>3, <1>2
<1>4. lostAnswers' \subseteq Orders
  BY <1>1, <1>2, EventTyped DEF Typed, TypeOK
<1>5. HistoryTyped'
  <2>1. traded' \in [Orders -> Nat] /\ tradeCount' \in Nat /\ restarted' \in BOOLEAN
    BY <1>2, Zenon DEF Typed, TypeOK
  <2> QED
    BY <2>1, <1>3, <1>4, Zenon DEF HistoryTyped
<1> QED
  BY <1>1, <1>5, FaultTyped, TypedFrame, TypedIsParts DEF PublishFails, Parts

\* What the rebuild rests.
LEMMA OpenOrdersSound ==
  ASSUME Typed, Distinct(placed), NEW rows \in Rows,
         NEW orders \in {OpenOrders(rows), <<>>}
  PROVE  /\ orders \in Seq(Orders) /\ Distinct(orders) /\ Len(orders) <= Len(placed)
         /\ ToSet(orders) \subseteq ToSet(placed)
         /\ \A o \in ToSet(orders) : o \in Orders /\ Open(o, rows) \in Nat \ {0}
                                                  /\ Type[o] = "LIMIT"
<1>1. placed \in Seq(Orders) /\ Len(placed) \in Nat
  BY LenProperties DEF Typed, TypeOK
<1>2. CASE orders = <<>>
  BY <1>1, <1>2, EmptySeq DEF Distinct, ToSet
<1>3. CASE orders = OpenOrders(rows)
  <2> DEFINE S == {o \in Orders : Open(o, rows) > 0 /\ Type[o] = "LIMIT"}
             t == Those(S, placed)
  <2>1. orders = t
    BY <1>3 DEF OpenOrders
  <2>2. \A o \in S : o \in Orders /\ Open(o, rows) \in Nat \ {0} /\ Type[o] = "LIMIT"
    BY OpenTyped
  <2> HIDE DEF S
  <2>3. /\ t \in Seq(Orders) /\ Len(t) <= Len(placed)
        /\ ToSet(t) = ToSet(placed) \cap S /\ InOrder(t, placed)
    BY <1>1, ThoseProperties
  <2>4. Distinct(t)
    BY <1>1, <2>3, InOrderDistinct
  <2> QED
    BY <2>1, <2>2, <2>3, <2>4
<1> QED
  BY <1>2, <1>3

LEMMA RestartSound ==
  ASSUME Typed, Distinct(placed), Restart
  PROVE  /\ Typed' /\ Book' /\ restarted'
         /\ \E rows \in Rows : \E orders \in {OpenOrders(rows), <<>>} :
              /\ bids' = LevelsOf(orders, "BUY") /\ asks' = LevelsOf(orders, "SELL")
              /\ index' = ToSet(orders)
              /\ seen' = SubSeq(orders, AtLeastZero(Len(orders) - SeenMax) + 1, Len(orders))
<1>1. PICK rows \in Rows : \E orders \in {OpenOrders(rows), <<>>} :
       /\ bids' = LevelsOf(orders, "BUY") /\ asks' = LevelsOf(orders, "SELL")
       /\ index' = ToSet(orders)
       /\ left' = [o \in Orders |-> IF Contains(orders, o) THEN Open(o, rows) ELSE 0]
       /\ seen' = SubSeq(orders, AtLeastZero(Len(orders) - SeenMax) + 1, Len(orders))
  BY DEF Restart
<1>2. PICK orders \in {OpenOrders(rows), <<>>} :
       /\ bids' = LevelsOf(orders, "BUY") /\ asks' = LevelsOf(orders, "SELL")
       /\ index' = ToSet(orders)
       /\ left' = [o \in Orders |-> IF Contains(orders, o) THEN Open(o, rows) ELSE 0]
       /\ seen' = SubSeq(orders, AtLeastZero(Len(orders) - SeenMax) + 1, Len(orders))
  BY <1>1
<1>3. /\ orders \in Seq(Orders) /\ Distinct(orders)
      /\ \A o \in ToSet(orders) : o \in Orders /\ Open(o, rows) \in Nat \ {0}
  BY OpenOrdersSound
<1>4. Len(orders) \in Nat /\ DOMAIN orders = 1..Len(orders)
      /\ \A n \in 1..Len(orders) : orders[n] \in Orders
  BY <1>3, LenProperties, ElementOfSeq
<1>5. LevelsSound'
  BY <1>2, <1>3, RebuildHolds DEF LevelsSound
<1>6. \A o : Contains(orders, o) <=> o \in ToSet(orders)
  BY <1>4 DEF Contains, ToSet
<1>7. left' \in [Orders -> Nat] /\ \A o \in Orders : left'[o] > 0 <=> o \in index'
  <2>1. \A o \in Orders : left'[o] = IF o \in ToSet(orders) THEN Open(o, rows) ELSE 0
    BY <1>2, <1>6
  <2>2. \A o \in Orders : left'[o] \in Nat /\ (left'[o] > 0 <=> o \in ToSet(orders))
    BY <2>1, <1>3
  <2>3. left' \in [Orders -> Nat]
    BY <1>2, <2>2
  <2> QED
    BY <2>2, <2>3, <1>2
<1>8. seen' \in Seq(Orders) /\ Len(seen') <= SeenMax
  <2> DEFINE k == AtLeastZero(Len(orders) - SeenMax)
  <2>1. SeenMax \in Nat \ {0}
    BY BoundsAssumption
  <2>2. k \in Nat /\ k >= Len(orders) - SeenMax /\ k <= Len(orders)
    BY <2>1, <1>4 DEF AtLeastZero
  <2>3. seen' = SubSeq(orders, k + 1, Len(orders))
    BY <1>2
  <2> HIDE DEF k
  <2>4. \A n \in (k + 1)..Len(orders) : orders[n] \in Orders
    BY <2>2, <1>4
  <2>5. /\ SubSeq(orders, k + 1, Len(orders)) \in Seq(Orders)
        /\ Len(SubSeq(orders, k + 1, Len(orders))) =
             IF k + 1 <= Len(orders) THEN Len(orders) - (k + 1) + 1 ELSE 0
    BY <2>2, <2>4, <1>4, SubSeqProperties
  <2> QED
    BY <2>1, <2>2, <2>3, <2>5, <1>4
<1>9. InboxTyped'
  <2>1. accepted' \subseteq Messages
    BY DEF Restart, Typed, TypeOK, Handlers
  <2>2. cancelRequests' \in [Orders -> Nat]
    <3>1. cancelRequests \in [Orders -> Nat]
      BY DEF Typed, TypeOK
    <3>2. cancelRequests' = [o \in Orders |->
                               cancelRequests[o] + IF Again("cancel", o) THEN 1 ELSE 0]
      BY DEF Restart
    <3>3. \A o \in Orders : (cancelRequests[o] + IF Again("cancel", o) THEN 1 ELSE 0) \in Nat
      BY <3>1
    <3> QED
      BY <3>2, <3>3
  <2>3. inHand' \in [Handlers -> Messages \cup {NoMessage}]
    BY DEF Restart
  <2> QED
    BY <2>1, <2>2, <2>3 DEF InboxTyped
<1>10. matching' = NoOrder /\ outbox' = [h \in Handlers |-> <<>>] /\ restarted'
  BY DEF Restart, Unlock
<1>11. EngineTyped'
  BY <1>8, <1>10, EmptySeq DEF EngineTyped
<1>12. HistoryTyped'
  <2>1. lost' \in [Orders -> Nat]
    <3>1. outbox["accepted"] \in Seq(Events) /\ outbox["cancel"] \in Seq(Events)
          /\ lost \in [Orders -> Nat]
      BY DEF Typed, TypeOK, Handlers
    <3>2. \A o \in Orders : /\ TradedIn(outbox["accepted"], o) \in Nat
                            /\ TradedIn(outbox["cancel"], o) \in Nat
                            /\ lost[o] \in Nat
      BY <3>1, TradedInTyped
    <3>3. \A o \in Orders : lost[o] + TradedIn(outbox["accepted"], o) + TradedIn(outbox["cancel"], o)
                              \in Nat
      BY <3>2
    <3>4. lost' = [o \in Orders |->
            lost[o] + TradedIn(outbox["accepted"], o) + TradedIn(outbox["cancel"], o)]
      BY DEF Restart
    <3> QED
      BY <3>3, <3>4
  <2>2. traded' \in [Orders -> Nat] /\ tradeCount' \in Nat
    BY DEF Restart, Typed, TypeOK
  <2>3. lostAnswers' \subseteq Orders /\ restarted' \in BOOLEAN
    BY DEF Restart, Typed, TypeOK
  <2> QED
    BY <2>1, <2>2, <2>3, Zenon DEF HistoryTyped
<1>13. Typed'
  <2>1. BookTyped'
    BY <1>5, <1>7 DEF BookTyped, LevelsSound
  <2> QED
    BY <2>1, <1>9, <1>11, <1>12, FaultTyped, TypedFrame, TypedIsParts DEF Restart, Parts
<1>14. Book'
  <2>1. NoOrder \notin index' /\ index' \subseteq Orders
    BY <1>5, OrderAssumption DEF LevelsSound
  <2> QED
    BY <2>1, <1>5, <1>7, <1>10 DEF Book, LevelsSound, NotCrossedBeforeRestart
<1> QED
  BY <1>2, <1>10, <1>13, <1>14

-----------------------------------------------------------------------------
(* The book and the messages at every step *)

LEMMA BookFrame ==
  ASSUME Book, UNCHANGED <<bids, asks, index, left, matching, restarted>>
  PROVE  Book'
<1>1. Holds(bids, "BUY", index)' /\ Holds(asks, "SELL", index)'
  BY DEF Book, Holds
<1>2. NotCrossedBeforeRestart'
  BY DEF Book, NotCrossedBeforeRestart, Crossed
<1> QED
  BY <1>1, <1>2 DEF Book

LEMMA KnownIsSeen ==
  ASSUME Typed, NEW o
  PROVE  Contains(seen, o) <=> o \in ToSet(seen)
  BY LenProperties DEF Typed, TypeOK, Contains, ToSet

LEMMA BeginMatchBook ==
  ASSUME Typed, Book, NEW m \in accepted, BeginMatch(m)
  PROVE  Book'
<1>1. /\ m.order \in Orders /\ m.quantity \in Nat
      /\ matching = NoOrder /\ matching' = m.order /\ m.order \notin index
      /\ left' = [left EXCEPT ![m.order] = m.quantity]
      /\ UNCHANGED <<bids, asks, index, restarted>>
  BY MessageFields DEF BeginMatch, IsKnown, Free, Typed, TypeOK, history
<1>2. left \in [Orders -> Nat] /\ index \subseteq Orders
  BY DEF Typed, TypeOK
<1>3. Holds(bids, "BUY", index)' /\ Holds(asks, "SELL", index)'
  BY <1>1 DEF Book, Holds
<1>4. NotCrossedBeforeRestart'
  BY <1>1 DEF Book, NotCrossedBeforeRestart, Crossed
<1>5. \A o \in index : left'[o] > 0
  BY <1>1, <1>2 DEF Book
<1>6. \A o \in Orders : left'[o] > 0 => o \in index \/ o = m.order
  BY <1>1, <1>2, OrderAssumption DEF Book
<1> QED
  BY <1>1, <1>3, <1>4, <1>5, <1>6 DEF Book

\* Reading the end of a sequence without duplicates.
LEMMA SuffixSound ==
  ASSUME NEW T, NEW s \in Seq(T), Distinct(s), NEW k \in Nat
  PROVE  /\ SubSeq(s, k + 1, Len(s)) \in Seq(T) /\ Distinct(SubSeq(s, k + 1, Len(s)))
         /\ ToSet(SubSeq(s, k + 1, Len(s))) \subseteq ToSet(s)
         /\ k < Len(s) => /\ SubSeq(s, k + 1, Len(s)) # <<>>
                          /\ Last(SubSeq(s, k + 1, Len(s))) = Last(s)
<1> DEFINE N == Len(s)
           u == SubSeq(s, k + 1, N)
<1>1. N \in Nat /\ DOMAIN s = 1..N /\ \A n \in 1..N : s[n] \in T
  BY LenProperties, ElementOfSeq
<1> HIDE DEF N
<1>2. \A n \in (k + 1)..N : s[n] \in T
  BY <1>1
<1>3. /\ u \in Seq(T) /\ Len(u) = IF k + 1 <= N THEN N - (k + 1) + 1 ELSE 0
      /\ \A n \in 1..(N - (k + 1) + 1) : u[n] = s[k + 1 + n - 1]
  BY <1>1, <1>2, SubSeqProperties
<1> HIDE DEF u
<1>4. Len(u) \in Nat /\ DOMAIN u = 1..Len(u)
  BY <1>3, LenProperties
<1>5. ASSUME NEW n \in DOMAIN u
      PROVE  n \in Nat /\ n + k \in DOMAIN s /\ u[n] = s[n + k]
  <2>1. n \in 1..(N - k) /\ k + 1 <= N
    BY <1>1, <1>3, <1>4
  <2>2. n \in 1..(N - (k + 1) + 1) /\ k + 1 + n - 1 = n + k
    BY <2>1, <1>1
  <2> QED
    BY <2>1, <2>2, <1>1, <1>3
<1>6. Distinct(u)
  <2> SUFFICES ASSUME NEW m \in DOMAIN u, NEW n \in DOMAIN u, u[m] = u[n]
               PROVE  m = n
    BY DEF Distinct
  <2>1. /\ m \in Nat /\ m + k \in DOMAIN s /\ u[m] = s[m + k]
        /\ n \in Nat /\ n + k \in DOMAIN s /\ u[n] = s[n + k]
    BY <1>5
  <2>2. m + k = n + k
    BY <2>1 DEF Distinct
  <2> QED
    BY <2>1, <2>2
<1>7. ToSet(u) \subseteq ToSet(s)
  BY <1>5 DEF ToSet
<1>8. ASSUME k < N
      PROVE  u # <<>> /\ Last(u) = Last(s)
  <2>1. Len(u) = N - k /\ N - k \in Nat \ {0}
    BY <1>1, <1>3, <1>8
  <2>2. u # <<>>
    BY <2>1, EmptySeq
  <2>3. N - k \in DOMAIN u /\ (N - k) + k = N
    BY <2>1, <1>4, <1>1
  <2>4. u[N - k] = s[N]
    BY <2>3, <1>5
  <2> QED
    BY <2>1, <2>2, <2>4 DEF Last, N
<1> QED
  BY <1>3, <1>6, <1>7, <1>8 DEF u, N

LEMMA RememberSound ==
  ASSUME Typed, Distinct(seen), NEW o \in Orders, o \notin ToSet(seen)
  PROVE  /\ Distinct(Remember(o)) /\ Remember(o) # <<>> /\ Last(Remember(o)) = o
         /\ ToSet(Remember(o)) \subseteq ToSet(seen) \cup {o}
         /\ Len(seen) < SeenMax => Remember(o) = Append(seen, o)
<1> DEFINE u == Append(seen, o)
<1>1. seen \in Seq(Orders) /\ Len(seen) \in Nat /\ SeenMax \in Nat \ {0}
  BY BoundsAssumption, LenProperties DEF Typed, TypeOK
<1>2. /\ u \in Seq(Orders) /\ Distinct(u) /\ ToSet(u) = ToSet(seen) \cup {o}
      /\ u # <<>> /\ Len(u) = Len(seen) + 1 /\ u[Len(seen) + 1] = o
  BY <1>1, AppendSet, AppendProperties
<1>3. Remember(o) = IF Len(u) > SeenMax THEN Tail(u) ELSE u
  BY DEF Remember
<1> HIDE DEF u
<1>4. Last(u) = o
  BY <1>2 DEF Last
<1>5. Tail(u) = SubSeq(u, 2, Len(u))
  BY <1>2, TailIsSubSeq
<1>6. /\ Distinct(Tail(u)) /\ ToSet(Tail(u)) \subseteq ToSet(u)
      /\ 1 < Len(u) => Tail(u) # <<>> /\ Last(Tail(u)) = Last(u)
  <2>1. \A k \in Nat :
          /\ Distinct(SubSeq(u, k + 1, Len(u))) /\ ToSet(SubSeq(u, k + 1, Len(u))) \subseteq ToSet(u)
          /\ k < Len(u) => /\ SubSeq(u, k + 1, Len(u)) # <<>>
                           /\ Last(SubSeq(u, k + 1, Len(u))) = Last(u)
    BY <1>2, SuffixSound
  <2>2. PICK k \in Nat : k = 1
    OBVIOUS
  <2>3. k + 1 = 2
    BY <2>2
  <2>4. Tail(u) = SubSeq(u, k + 1, Len(u))
    BY <2>3, <1>5
  <2> DEFINE tail == SubSeq(u, k + 1, Len(u))
  <2>5. /\ Distinct(tail) /\ ToSet(tail) \subseteq ToSet(u)
        /\ k < Len(u) => tail # <<>> /\ Last(tail) = Last(u)
    BY <2>1, Zenon
  <2>6. Tail(u) = tail
    BY <2>4
  <2> HIDE DEF tail
  <2> QED
    BY <2>2, <2>5, <2>6
<1>7. Len(u) > SeenMax => 1 < Len(u)
  BY <1>1, <1>2
<1>8. Len(seen) < SeenMax => ~ (Len(u) > SeenMax)
  BY <1>1, <1>2
<1> QED
  BY <1>2, <1>3, <1>4, <1>6, <1>7, <1>8 DEF u

LEMMA AskedStays ==
  ASSUME NEW m, Asked(m), ToSet(placed) \subseteq ToSet(placed')
  PROVE  Asked(m)'
  BY DEF Asked

\* A step that only lets messages go.
LEMMA RequestsFrame ==
  ASSUME Requests, UNCHANGED <<placed, seen>>, accepted' \subseteq accepted,
         inHand'["accepted"] \in {NoMessage, inHand["accepted"]},
         matching' \in {matching, NoOrder}
  PROVE  Requests'
  BY DEF Requests, Asked

\* A step that adds a message.
LEMMA RequestsAdded ==
  ASSUME Requests, NEW m, Asked(m), UNCHANGED <<placed, seen, inHand, matching>>,
         accepted' = accepted \cup {m}
  PROVE  Requests'
  BY DEF Requests, Asked

LEMMA DoneKeeps ==
  ASSUME Typed, NEW h \in Handlers, DoneWhenOut(h)
  PROVE  inHand'["accepted"] \in {NoMessage, inHand["accepted"]}
  BY DEF DoneWhenOut, Handlers, Typed, TypeOK

LEMMA ContainsPlaced ==
  ASSUME Typed, NEW o
  PROVE  Contains(placed, o) <=> o \in ToSet(placed)
  BY LenProperties DEF Typed, TypeOK, Contains, ToSet

Base == Typed /\ Book /\ Requests

LEMMA BaseInit == ASSUME Init PROVE Base
<1>1. Typed
  BY TypeInit
<1>2. Holds([p \in Prices |-> <<>>], "BUY", {}) /\ Holds([p \in Prices |-> <<>>], "SELL", {})
  BY EmptySeq DEF Holds, Distinct, ToSet
<1>3. Book
  BY <1>2 DEF Init, Book, NotCrossedBeforeRestart, Crossed
<1>4. Requests
  BY BoundsAssumption, EmptySeq DEF Init, Requests, Distinct, ToSet
<1> QED
  BY <1>1, <1>3, <1>4 DEF Base

LEMMA PlaceRequests ==
  ASSUME Base, NEW o \in Orders, Place(o)
  PROVE  Requests'
<1>1. /\ placed' = Append(placed, o) /\ Len(placed) < MaxPlaced /\ o \notin ToSet(placed)
      /\ accepted' = accepted \cup {Message(o, Quantity[o])}
      /\ UNCHANGED <<inHand, seen, matching>>
  BY ContainsPlaced DEF Place, Base
<1>2. placed \in Seq(Orders) /\ Len(placed) \in Nat /\ Distinct(placed)
  BY LenProperties DEF Base, Typed, TypeOK, Requests
<1>3. /\ Distinct(placed') /\ ToSet(placed') = ToSet(placed) \cup {o}
      /\ Len(placed') = Len(placed) + 1
  BY <1>1, <1>2, AppendSet, AppendProperties
<1>4. Asked(Message(o, Quantity[o]))'
  BY <1>3, OrderAssumption DEF Asked, Message
<1>5. \A m : Asked(m) => Asked(m)'
  BY <1>3, AskedStays
<1>6. Len(placed') <= MaxPlaced
  BY <1>1, <1>2, <1>3, BoundsAssumption
<1> QED
  BY <1>1, <1>3, <1>4, <1>5, <1>6 DEF Base, Requests

LEMMA RepublishRequests ==
  ASSUME Base, NEW o \in Orders, Republish(o)
  PROVE  Requests'
<1>1. PICK rows \in Rows :
        Open(o, rows) > 0 /\ accepted' = accepted \cup {Message(o, Open(o, rows))}
  BY DEF Republish
<1>2. Open(o, rows) \in Int /\ Open(o, rows) <= Quantity[o]
  BY OpenTyped DEF Base
<1>3. o \in ToSet(placed)
  BY <1>1, ContainsPlaced DEF Open, Base
<1>4. Open(o, rows) \in 1..Quantity[o]
  BY <1>1, <1>2, OrderAssumption
<1>5. Asked(Message(o, Open(o, rows)))
  BY <1>3, <1>4 DEF Asked, Message
<1> QED
  BY <1>1, <1>5, RequestsAdded DEF Republish, Base, orderService

LEMMA BeginMatchRequests ==
  ASSUME Base, NEW m \in accepted, BeginMatch(m)
  PROVE  Requests'
<1>1. m.order \in Orders /\ m.order \notin ToSet(seen) /\ Asked(m)
  BY MessageFields, KnownIsSeen DEF BeginMatch, IsKnown, Base, Typed, TypeOK, Requests
<1>2. /\ accepted' = accepted \ {m} /\ inHand'["accepted"] = m
      /\ seen' = Remember(m.order) /\ matching' = m.order /\ placed' = placed
  BY DEF BeginMatch, Base, Typed, TypeOK, Handlers, orderService
<1>3. /\ Distinct(seen') /\ seen' # <<>> /\ Last(seen') = m.order
      /\ ToSet(seen') \subseteq ToSet(seen) \cup {m.order}
  BY <1>1, <1>2, RememberSound DEF Base, Requests
<1>4. ToSet(seen') \subseteq ToSet(placed)
  BY <1>1, <1>3 DEF Base, Requests, Asked
<1> QED
  BY <1>1, <1>2, <1>3, <1>4 DEF Base, Requests, Asked

LEMMA RestartRequests ==
  ASSUME Base, Restart
  PROVE  Requests'
<1>1. PICK rows \in Rows : \E orders \in {OpenOrders(rows), <<>>} :
        seen' = SubSeq(orders, AtLeastZero(Len(orders) - SeenMax) + 1, Len(orders))
  BY RestartSound DEF Base, Requests
<1>2. PICK orders \in {OpenOrders(rows), <<>>} :
        seen' = SubSeq(orders, AtLeastZero(Len(orders) - SeenMax) + 1, Len(orders))
  BY <1>1
<1>3. /\ orders \in Seq(Orders) /\ Distinct(orders)
      /\ ToSet(orders) \subseteq ToSet(placed) /\ Len(orders) \in Nat
  BY OpenOrdersSound, LenProperties DEF Base, Requests
<1>4. AtLeastZero(Len(orders) - SeenMax) \in Nat
  BY <1>3, BoundsAssumption DEF AtLeastZero
<1>5. Distinct(seen') /\ ToSet(seen') \subseteq ToSet(orders)
  BY <1>2, <1>3, <1>4, SuffixSound
<1>6. /\ accepted' = accepted \cup ({inHand["accepted"]} \ {NoMessage})
      /\ inHand'["accepted"] = NoMessage /\ matching' = NoOrder /\ placed' = placed
  BY DEF Restart, Unlock, Handlers, orderService
<1> QED
  BY <1>3, <1>5, <1>6 DEF Base, Requests, Asked

LEMMA BaseNext == ASSUME Base, [Next]_vars PROVE Base'
<1> USE DEF Base
<1>1. ASSUME NEW m \in accepted, IgnoreDuplicate(m)
      PROVE  Base'
  <2>1. Typed'
    BY <1>1, IgnoreDuplicateTyped
  <2>2. Book'
    BY <1>1, BookFrame DEF IgnoreDuplicate, book, history
  <2>3. Requests'
    BY <1>1, RequestsFrame DEF IgnoreDuplicate, orderService
  <2> QED
    BY <2>1, <2>2, <2>3
<1>2. ASSUME NEW m \in accepted, BeginMatch(m)
      PROVE  Base'
  BY <1>2, BeginMatchTyped, BeginMatchBook, BeginMatchRequests
<1>3. ASSUME NEW r \in Orders, MatchOne(r)
      PROVE  Base'
  <2>1. Requests'
    BY <1>3, RequestsFrame DEF MatchOne, inbox, orderService
  <2> QED
    BY <1>3, <2>1, MatchOneSound
<1>4. ASSUME EndMatch
      PROVE  Base'
  <2>1. inHand'["accepted"] \in {NoMessage, inHand["accepted"]}
    BY <1>4, DoneKeeps DEF EndMatch, Handlers
  <2>2. Requests'
    BY <1>4, <2>1, RequestsFrame DEF EndMatch, Unlock, orderService
  <2> QED
    BY <1>4, <2>2, EndMatchSound
<1>5. ASSUME NEW o \in Orders, CancelOrder(o)
      PROVE  Base'
  <2>1. inHand'["accepted"] = inHand["accepted"]
    BY <1>5 DEF CancelOrder, Handlers, Typed, TypeOK
  <2>2. Requests'
    BY <1>5, <2>1, RequestsFrame DEF CancelOrder, orderService
  <2> QED
    BY <1>5, <2>2, CancelOrderSound
<1>6. ASSUME NEW h \in Handlers, Publish(h)
      PROVE  Base'
  <2>1. inHand'["accepted"] \in {NoMessage, inHand["accepted"]}
    BY <1>6, DoneKeeps DEF Publish, TakeNext
  <2>2. Requests'
    BY <1>6, <2>1, RequestsFrame DEF Publish, orderService
  <2>3. Book'
    BY <1>6, BookFrame DEF Publish, book, history
  <2> QED
    BY <1>6, <2>2, <2>3, PublishTyped
<1>7. ASSUME NEW h \in Handlers, PublishFails(h)
      PROVE  Base'
  <2>1. inHand'["accepted"] \in {NoMessage, inHand["accepted"]}
    BY <1>7, DoneKeeps DEF PublishFails, TakeNext
  <2>2. Requests'
    BY <1>7, <2>1, RequestsFrame DEF PublishFails, orderService
  <2>3. Book'
    BY <1>7, BookFrame DEF PublishFails, book
  <2> QED
    BY <1>7, <2>2, <2>3, PublishFailsTyped
<1>8. ASSUME NEW o \in Orders, Place(o)
      PROVE  Base'
  <2>1. Book'
    BY <1>8, BookFrame DEF Place, book, history
  <2> QED
    BY <1>8, <2>1, PlaceTyped, PlaceRequests
<1>9. ASSUME NEW o \in Orders, Republish(o)
      PROVE  Base'
  <2>1. Book'
    BY <1>9, BookFrame DEF Republish, book, history
  <2> QED
    BY <1>9, <2>1, RepublishTyped, RepublishRequests
<1>10. ASSUME NEW o \in Orders, RequestCancel(o)
       PROVE  Base'
  <2>1. Book'
    BY <1>10, BookFrame DEF RequestCancel, book, history
  <2>2. Requests'
    BY <1>10, RequestsFrame DEF RequestCancel
  <2> QED
    BY <1>10, <2>1, <2>2, RequestCancelTyped
<1>11. ASSUME Redeliver
       PROVE  Base'
  <2>1. Book'
    BY <1>11, BookFrame DEF Redeliver, book, history
  <2>2. Asked(inHand["accepted"])
    BY <1>11 DEF Redeliver, Requests
  <2>3. Requests'
    BY <1>11, <2>2, RequestsAdded DEF Redeliver, orderService
  <2> QED
    BY <1>11, <2>1, <2>3, RedeliverTyped
<1>12. ASSUME Restart
       PROVE  Base'
  BY <1>12, RestartSound, RestartRequests DEF Requests
<1>13. ASSUME UNCHANGED vars
       PROVE  Base'
  <2>1. Book'
    BY <1>13, BookFrame DEF vars, book, history
  <2>2. Requests'
    BY <1>13, RequestsFrame DEF vars, inbox, orderService
  <2>3. Typed'
    BY <1>13, TypedFrame, TypedIsParts DEF vars, Parts
  <2> QED
    BY <2>1, <2>2, <2>3
<1> QED
  BY <1>1, <1>2, <1>3, <1>4, <1>5, <1>6, <1>7, <1>8, <1>9, <1>10, <1>11, <1>12, <1>13
     DEF Next, AcceptStep, CancelStep, OrderServiceStep, Handlers

LEMMA BaseAlways == Spec => []Base
<1>1. Init => Base
  BY BaseInit
<1>2. Base /\ [Next]_vars => Base'
  BY BaseNext
<1> QED
  BY <1>1, <1>2, PTL DEF Spec

-----------------------------------------------------------------------------
(* The book is consistent *)

LEMMA BookIsConsistent ==
  ASSUME Typed, Book
  PROVE  BookConsistent
<1>1. /\ bids \in [Prices -> Seq(Orders)] /\ asks \in [Prices -> Seq(Orders)]
      /\ index \subseteq Orders /\ matching \in Orders \cup {NoOrder}
  BY DEF Typed, TypeOK
<1>2. ASSUME NEW o \in Orders
      PROVE  Occurrences(o) = IF o \in index THEN 1 ELSE 0
  <2> DEFINE level == Levels(Side[o])[Price[o]]
             at == {n \in DOMAIN level : level[n] = o}
  <2>1. Price[o] \in Prices /\ Side[o] \in {"BUY", "SELL"}
    BY PriceIsPrice, OrderAssumption
  <2>2. /\ Distinct(level)
        /\ ToSet(level) = {r \in index : Side[r] = Side[o] /\ Price[r] = Price[o]}
    BY <2>1 DEF Book, Holds, Levels
  <2>3. Occurrences(o) = Cardinality(at)
    BY DEF Occurrences
  <2> HIDE DEF level
  <2>4. CASE o \in index
    <3>1. PICK n \in DOMAIN level : level[n] = o
      BY <2>2, <2>4 DEF ToSet
    <3>2. at = {n}
      BY <3>1, <2>2 DEF Distinct
    <3> QED
      BY <3>2, <2>3, <2>4, FS_Singleton
  <2>5. CASE o \notin index
    <3>1. at = {}
      BY <2>2, <2>5 DEF ToSet
    <3> QED
      BY <3>1, <2>3, <2>5, FS_EmptySet
  <2> QED
    BY <2>4, <2>5
<1>3. \A p \in Prices : ToSet(bids[p]) \cup ToSet(asks[p]) \subseteq index
  BY DEF Book, Holds
<1>4. {o \in Orders : left[o] > 0} \in {index, index \cup {matching}}
  <2>1. CASE matching \in Orders /\ left[matching] > 0
    <3>1. {o \in Orders : left[o] > 0} = index \cup {matching}
      BY <2>1, <1>1 DEF Book
    <3> QED
      BY <3>1
  <2>2. CASE ~ (matching \in Orders /\ left[matching] > 0)
    <3>1. {o \in Orders : left[o] > 0} = index
      BY <2>2, <1>1 DEF Book
    <3> QED
      BY <3>1
  <2> QED
    BY <2>1, <2>2
<1> QED
  BY <1>2, <1>3, <1>4 DEF BookConsistent

\* Whatever is placed, redelivered, republished, cancelled or rebuilt, and in whatever
\* order: levels and index hold the same orders, each once and with something left, and
\* until a restart the book is not crossed.
THEOREM BookStaysConsistent == Spec => [](TypeOK /\ BookConsistent /\ NotCrossedBeforeRestart)
<1>1. Base => TypeOK /\ BookConsistent /\ NotCrossedBeforeRestart
  BY BookIsConsistent DEF Base, Typed, Book
<1> QED
  BY <1>1, BaseAlways, PTL

-----------------------------------------------------------------------------
(* As long as seen_orders forgets nobody *)

\* No more orders than seen_orders can hold.
NobodyForgotten == MaxPlaced <= SeenMax

LEMMA InOrderTransitive ==
  ASSUME NEW r, NEW s, NEW t, InOrder(r, s), InOrder(s, t)
  PROVE  InOrder(r, t)
  BY DEF InOrder

LEMMA RoomInSeen ==
  ASSUME NobodyForgotten, Base, NEW m \in accepted, m.order \notin ToSet(seen)
  PROVE  Len(seen) < SeenMax
<1>1. m.order \in ToSet(placed) /\ m.order \in Orders
  BY MessageFields DEF Base, Requests, Asked, Typed, TypeOK
<1>2. /\ seen \in Seq(Orders) /\ placed \in Seq(Orders) /\ Distinct(seen)
      /\ ToSet(seen) \subseteq ToSet(placed) /\ Len(placed) <= MaxPlaced
      /\ Len(seen) \in Nat /\ Len(placed) \in Nat
  BY LenProperties DEF Base, Requests, Typed, TypeOK
<1> DEFINE u == Append(seen, m.order)
<1>3. /\ u \in Seq(Orders) /\ Distinct(u) /\ ToSet(u) = ToSet(seen) \cup {m.order}
      /\ Len(u) = Len(seen) + 1
  BY <1>1, <1>2, AppendSet, AppendProperties
<1> HIDE DEF u
<1>4. Len(u) <= Len(placed)
  BY <1>1, <1>2, <1>3, DistinctIsShort
<1> QED
  BY <1>2, <1>3, <1>4, BoundsAssumption DEF NobodyForgotten

LEMMA ArrivalsFrame ==
  ASSUME Arrivals, UNCHANGED <<bids, asks, index, seen>>
  PROVE  Arrivals'
  BY DEF Arrivals

LEMMA TakeOutArrivals ==
  ASSUME Base, Arrivals, NEW o \in index, TakeOut(o), UNCHANGED seen
  PROVE  Arrivals'
<1>1. /\ index' = index \ {o}
      /\ \A p \in Prices : InOrder(bids'[p], bids[p]) /\ InOrder(asks'[p], asks[p])
  BY TakeOutSound DEF Base
<1>2. \A p \in Prices : InOrder(bids'[p], seen) /\ InOrder(asks'[p], seen)
  BY <1>1, InOrderTransitive DEF Arrivals
<1> QED
  BY <1>1, <1>2 DEF Arrivals

LEMMA RestsArrivals ==
  ASSUME Base, Arrivals, matching \in Orders, Rests(matching), UNCHANGED seen
  PROVE  Arrivals'
<1> DEFINE i == matching
<1>1. /\ i \in Orders /\ i \notin index /\ seen # <<>> /\ Last(seen) = i
      /\ seen \in Seq(Orders) /\ Price[i] \in Prices
  BY PriceIsPrice, OrderAssumption DEF Base, Book, Requests, Typed, TypeOK
<1>2. i \in ToSet(seen)
  BY <1>1, EmptySeq, LenProperties DEF Last, ToSet
<1>3. index' \subseteq ToSet(seen')
  BY <1>2 DEF Rests, Arrivals
<1>4. ASSUME NEW levels \in [Prices -> Seq(Orders)], NEW side, Holds(levels, side, index),
             \A p \in Prices : InOrder(levels[p], seen)
      PROVE  \A p \in Prices : InOrder(RestOrder(levels, i)[p], seen)
  <2> DEFINE level == levels[Price[i]]
  <2>1. level \in Seq(Orders) /\ InOrder(level, seen) /\ ToSet(level) \subseteq index
    BY <1>1, <1>4 DEF Holds
  <2>2. ToSet(level) \subseteq ToSet(seen) /\ Last(seen) \notin ToSet(level)
    BY <1>1, <2>1 DEF Arrivals
  <2>3. InOrder(Append(level, Last(seen)), seen)
    BY <1>1, <2>1, <2>2, NewestAtBack
  <2>4. \A p \in Prices : RestOrder(levels, i)[p] =
          IF p = Price[i] THEN Append(level, Last(seen)) ELSE levels[p]
    BY <1>1 DEF RestOrder, AtBack
  <2> QED
    BY <2>3, <2>4, <1>4
<1>5. /\ bids \in [Prices -> Seq(Orders)] /\ asks \in [Prices -> Seq(Orders)]
      /\ Holds(bids, "BUY", index) /\ Holds(asks, "SELL", index)
      /\ \A p \in Prices : InOrder(bids[p], seen) /\ InOrder(asks[p], seen)
  BY DEF Base, Typed, TypeOK, Book, Arrivals
<1>6. /\ \A p \in Prices : InOrder(RestOrder(bids, i)[p], seen)
      /\ \A p \in Prices : InOrder(RestOrder(asks, i)[p], seen)
  BY <1>4, <1>5
<1>7. \A p \in Prices : InOrder(bids'[p], seen') /\ InOrder(asks'[p], seen')
  BY <1>5, <1>6 DEF Rests
<1> QED
  BY <1>3, <1>7 DEF Arrivals

LEMMA BeginMatchArrivals ==
  ASSUME NobodyForgotten, Base, Arrivals, NEW m \in accepted, BeginMatch(m)
  PROVE  Arrivals' /\ m.order \in Orders /\ m.order \notin ToSet(seen)
                   /\ ToSet(seen') = ToSet(seen) \cup {m.order}
<1>1. m.order \in Orders /\ m.order \notin ToSet(seen) /\ seen \in Seq(Orders)
  BY MessageFields, KnownIsSeen DEF BeginMatch, IsKnown, Base, Typed, TypeOK
<1>2. seen' = Append(seen, m.order)
  BY <1>1, RoomInSeen, RememberSound DEF BeginMatch, Base, Requests
<1>3. ToSet(seen') = ToSet(seen) \cup {m.order}
  BY <1>1, <1>2, AppendSet
<1>4. ASSUME NEW p \in Prices
      PROVE  InOrder(bids[p], seen') /\ InOrder(asks[p], seen')
  <2>1. bids[p] \in Seq(Orders) /\ asks[p] \in Seq(Orders)
    BY DEF Base, Typed, TypeOK
  <2> QED
    BY <1>1, <1>2, <2>1, AppendKeepsOrder DEF Arrivals
<1>5. UNCHANGED <<bids, asks, index>>
  BY DEF BeginMatch
<1> QED
  BY <1>1, <1>3, <1>4, <1>5 DEF Arrivals

LEMMA RestartArrivals ==
  ASSUME NobodyForgotten, Base, Restart
  PROVE  Arrivals'
<1>1. PICK rows \in Rows : \E orders \in {OpenOrders(rows), <<>>} :
        /\ bids' = LevelsOf(orders, "BUY") /\ asks' = LevelsOf(orders, "SELL")
        /\ index' = ToSet(orders)
        /\ seen' = SubSeq(orders, AtLeastZero(Len(orders) - SeenMax) + 1, Len(orders))
  BY RestartSound DEF Base, Requests
<1>2. PICK orders \in {OpenOrders(rows), <<>>} :
        /\ bids' = LevelsOf(orders, "BUY") /\ asks' = LevelsOf(orders, "SELL")
        /\ index' = ToSet(orders)
        /\ seen' = SubSeq(orders, AtLeastZero(Len(orders) - SeenMax) + 1, Len(orders))
  BY <1>1
<1>3. /\ orders \in Seq(Orders) /\ Distinct(orders)
      /\ Len(orders) <= Len(placed) /\ Len(orders) \in Nat
  BY OpenOrdersSound, LenProperties DEF Base, Requests
<1>4. Len(placed) \in Nat /\ Len(placed) <= MaxPlaced
  BY LenProperties DEF Base, Requests, Typed, TypeOK
<1>5. Len(orders) - SeenMax <= 0 /\ Len(orders) - SeenMax \in Int
  BY <1>3, <1>4, BoundsAssumption DEF NobodyForgotten
<1>6. AtLeastZero(Len(orders) - SeenMax) + 1 = 1
  BY <1>5 DEF AtLeastZero
<1>7. seen' = orders
  BY <1>2, <1>3, <1>6, SubSeqFull
<1>8. \A p \in Prices : InOrder(bids'[p], orders) /\ InOrder(asks'[p], orders)
  BY <1>2, <1>3, RebuildHolds
<1> QED
  BY <1>2, <1>7, <1>8 DEF Arrivals

\* A step that trades nothing and gives nobody more to trade.
LEMMA FillsFrame ==
  ASSUME Base, Base', Fills, UNCHANGED <<traded, restarted>>,
         \A o \in Orders : left'[o] <= left[o], ToSet(seen) \subseteq ToSet(seen')
  PROVE  Fills'
<1>1. left \in [Orders -> Nat] /\ left' \in [Orders -> Nat] /\ traded \in [Orders -> Nat]
  BY DEF Base, Typed, TypeOK
<1> SUFFICES ASSUME ~ restarted', NEW o \in Orders
             PROVE  /\ traded'[o] + left'[o] <= Quantity[o]
                    /\ o \notin ToSet(seen') => traded'[o] = 0
  BY DEF Fills
<1>2. /\ traded[o] + left[o] <= Quantity[o]
      /\ o \notin ToSet(seen) => traded[o] = 0
  BY DEF Fills
<1>3. left'[o] <= left[o] /\ left'[o] \in Nat /\ left[o] \in Nat /\ traded[o] \in Nat
  BY <1>1
<1>4. Quantity[o] \in Nat
  BY OrderAssumption
<1> QED
  BY <1>2, <1>3, <1>4

LEMMA BeginMatchFills ==
  ASSUME NobodyForgotten, Base, Arrivals, Fills, NEW m \in accepted, BeginMatch(m)
  PROVE  Fills'
<1>1. /\ m.order \in Orders /\ m.order \notin ToSet(seen)
      /\ ToSet(seen') = ToSet(seen) \cup {m.order}
  BY BeginMatchArrivals
<1>2. /\ left' = [left EXCEPT ![m.order] = m.quantity] /\ UNCHANGED <<traded, restarted>>
      /\ m.quantity \in 1..Quantity[m.order]
  BY DEF BeginMatch, history, Base, Requests, Asked
<1>3. left \in [Orders -> Nat] /\ traded \in [Orders -> Nat]
  BY DEF Base, Typed, TypeOK
<1> SUFFICES ASSUME ~ restarted', NEW o \in Orders
             PROVE  /\ traded'[o] + left'[o] <= Quantity[o]
                    /\ o \notin ToSet(seen') => traded'[o] = 0
  BY DEF Fills
<1>4. /\ traded[o] + left[o] <= Quantity[o]
      /\ o \notin ToSet(seen) => traded[o] = 0
  BY <1>2 DEF Fills
<1>5. CASE o = m.order
  BY <1>1, <1>2, <1>3, <1>4, <1>5
<1>6. CASE o # m.order
  BY <1>1, <1>2, <1>3, <1>4, <1>6
<1> QED
  BY <1>5, <1>6

\* The order under match has been seen.
LEMMA MatchingIsSeen ==
  ASSUME Base, matching \in Orders
  PROVE  matching \in ToSet(seen)
<1>1. seen # <<>> /\ Last(seen) = matching /\ seen \in Seq(Orders)
  BY OrderAssumption DEF Base, Requests, Typed, TypeOK
<1> QED
  BY <1>1, EmptySeq, LenProperties DEF Last, ToSet

LEMMA MatchOneFills ==
  ASSUME Base, Arrivals, Fills, NEW r \in Orders, MatchOne(r)
  PROVE  Fills'
<1> DEFINE q == TradeQuantity(matching, r)
<1>1. /\ matching \in Orders /\ r \in index
      /\ q \in Nat \ {0} /\ q <= left[matching] /\ q <= left[r]
      /\ left' = [o \in Orders |-> IF o \in {matching, r} THEN left[o] - q ELSE left[o]]
      /\ traded' = [o \in Orders |-> IF o \in {matching, r} THEN traded[o] + q ELSE traded[o]]
  BY MatchOneTrades DEF Base
<1> HIDE DEF q
<1>2. UNCHANGED <<seen, restarted>>
  BY DEF MatchOne
<1>3. left \in [Orders -> Nat] /\ traded \in [Orders -> Nat]
  BY DEF Base, Typed, TypeOK
<1>4. matching \in ToSet(seen) /\ r \in ToSet(seen)
  BY <1>1, MatchingIsSeen DEF Arrivals
<1> SUFFICES ASSUME ~ restarted', NEW o \in Orders
             PROVE  /\ traded'[o] + left'[o] <= Quantity[o]
                    /\ o \notin ToSet(seen') => traded'[o] = 0
  BY DEF Fills
<1>5. /\ traded[o] + left[o] <= Quantity[o] /\ traded[o] \in Nat /\ left[o] \in Nat
      /\ o \notin ToSet(seen) => traded[o] = 0
  BY <1>2, <1>3 DEF Fills
<1>6. CASE o \in {matching, r}
  <2>1. traded'[o] = traded[o] + q /\ left'[o] = left[o] - q
    BY <1>1, <1>6
  <2>2. traded'[o] + left'[o] = traded[o] + left[o]
    BY <2>1, <1>1, <1>5
  <2> QED
    BY <2>2, <1>2, <1>4, <1>5, <1>6
<1>7. CASE o \notin {matching, r}
  BY <1>1, <1>2, <1>5, <1>7
<1> QED
  BY <1>6, <1>7

-----------------------------------------------------------------------------
(* Cancellations *)

\* What can be waiting to be published when h has one more event to publish.
LEMMA EmittedOne ==
  ASSUME Typed, NEW h \in Handlers, NEW e \in Events, Emit(h, <<e>>)
  PROVE  /\ outbox[h] \in Seq(Events)
         /\ \A g \in Handlers, n \in Nat :
              IF g = h
              THEN /\ n \in DOMAIN outbox'[h] <=> n \in DOMAIN outbox[h] \/ n = Len(outbox[h]) + 1
                   /\ n \in DOMAIN outbox[h] => outbox'[h][n] = outbox[h][n]
                   /\ outbox'[h][Len(outbox[h]) + 1] = e
                   /\ Len(outbox[h]) + 1 \notin DOMAIN outbox[h]
              ELSE outbox'[g] = outbox[g]
<1>1. outbox \in [Handlers -> Seq(Events)] /\ outbox[h] \in Seq(Events)
  BY DEF Typed, TypeOK
<1> DEFINE s == outbox[h]
           u == s \o <<e>>
<1>2. outbox'[h] = u /\ \A g \in Handlers : g # h => outbox'[g] = outbox[g]
  BY <1>1 DEF Emit
<1>3. s \in Seq(Events) /\ Len(s) \in Nat /\ DOMAIN s = 1..Len(s)
  BY <1>1, LenProperties
<1>4. u = Append(s, e)
  BY <1>3, AppendIsConcat
<1>5. /\ u \in Seq(Events) /\ Len(u) = Len(s) + 1
      /\ \A n \in 1..Len(s) : u[n] = s[n]
      /\ u[Len(s) + 1] = e
  BY <1>3, <1>4, AppendProperties
<1> HIDE DEF s, u
<1>6. DOMAIN u = 1..(Len(s) + 1)
  BY <1>5, LenProperties
<1>7. ASSUME NEW n \in Nat
      PROVE  /\ n \in DOMAIN u <=> n \in DOMAIN s \/ n = Len(s) + 1
             /\ n \in DOMAIN s => u[n] = s[n]
             /\ u[Len(s) + 1] = e
             /\ Len(s) + 1 \notin DOMAIN s
  BY <1>3, <1>5, <1>6
<1> QED
  BY <1>1, <1>2, <1>7 DEF s

LEMMA EmittedCancels ==
  ASSUME Typed, NEW h \in Handlers, NEW e \in Events, Emit(h, <<e>>)
  PROVE  \A g \in Handlers, n \in Nat, o \in Orders :
           CancelAt(g, n, o)' <=>
             \/ CancelAt(g, n, o)
             \/ g = h /\ n = Len(outbox[h]) + 1 /\ IsCancel(e) /\ o \in e.orders
<1> SUFFICES ASSUME NEW g \in Handlers, NEW n \in Nat, NEW o \in Orders
             PROVE  CancelAt(g, n, o)' <=>
                      \/ CancelAt(g, n, o)
                      \/ g = h /\ n = Len(outbox[h]) + 1 /\ IsCancel(e) /\ o \in e.orders
  OBVIOUS
<1>1. CASE g = h
  <2>1. /\ n \in DOMAIN outbox'[h] <=> n \in DOMAIN outbox[h] \/ n = Len(outbox[h]) + 1
        /\ n \in DOMAIN outbox[h] => outbox'[h][n] = outbox[h][n]
        /\ outbox'[h][Len(outbox[h]) + 1] = e
        /\ Len(outbox[h]) + 1 \notin DOMAIN outbox[h]
    BY <1>1, EmittedOne
  <2> QED
    BY <2>1, <1>1 DEF CancelAt, IsCancel
<1>2. CASE g # h
  <2>1. outbox'[g] = outbox[g]
    BY <1>2, EmittedOne
  <2> QED
    BY <2>1, <1>2 DEF CancelAt, IsCancel
<1> QED
  BY <1>1, <1>2

LEMMA EmittedAnswers ==
  ASSUME Typed, Answers, NEW h \in Handlers, NEW e \in Events, Emit(h, <<e>>),
         IsTrade(e) \/ \E o \in Orders : e.orders = {o}
  PROVE  Answers'
<1> SUFFICES ASSUME NEW g \in Handlers, NEW n \in DOMAIN outbox'[g], ~ IsTrade(outbox'[g][n])
             PROVE  \E o \in Orders : outbox'[g][n].orders = {o}
  BY DEF Answers, IsTrade
<1>1. n \in Nat
  <2>1. outbox'[g] \in Seq(Events)
    BY OneEvent, EmitTyped
  <2> QED
    BY <2>1, LenProperties
<1>2. CASE g = h
  <2>1. /\ n \in DOMAIN outbox[h] \/ n = Len(outbox[h]) + 1
        /\ n \in DOMAIN outbox[h] => outbox'[h][n] = outbox[h][n]
        /\ outbox'[h][Len(outbox[h]) + 1] = e
    BY <1>1, <1>2, EmittedOne
  <2> QED
    BY <2>1, <1>2 DEF Answers, IsTrade
<1>3. CASE g # h
  <2>1. outbox'[g] = outbox[g]
    BY <1>1, <1>3, EmittedOne
  <2> QED
    BY <2>1 DEF Answers, IsTrade
<1> QED
  BY <1>2, <1>3

\* The first event is out; the others move up.
LEMMA PoppedOne ==
  ASSUME Typed, NEW h \in Handlers, TakeNext(h)
  PROVE  /\ \A g \in Handlers, n \in Nat :
              n \in DOMAIN outbox'[g] =>
                LET k == IF g = h THEN n + 1 ELSE n
                IN k \in DOMAIN outbox[g] /\ outbox'[g][n] = outbox[g][k]
         /\ 1 \in DOMAIN outbox[h] /\ NextOut(h) = outbox[h][1]
<1>1. /\ outbox \in [Handlers -> Seq(Events)] /\ outbox[h] \in Seq(Events) /\ outbox[h] # <<>>
      /\ outbox' = [outbox EXCEPT ![h] = Tail(@)]
  BY DEF TakeNext, Typed, TypeOK
<1> DEFINE s == outbox[h]
<1>2. /\ Tail(s) \in Seq(Events) /\ Len(Tail(s)) = Len(s) - 1
      /\ \A n \in 1..Len(Tail(s)) : Tail(s)[n] = s[n + 1]
  BY <1>1, HeadTailProperties
<1>3. /\ Len(s) \in Nat \ {0} /\ DOMAIN s = 1..Len(s) /\ DOMAIN Tail(s) = 1..(Len(s) - 1)
      /\ Head(s) = s[1]
  BY <1>1, <1>2, LenProperties, EmptySeq
<1>4. outbox'[h] = Tail(s) /\ \A g \in Handlers : g # h => outbox'[g] = outbox[g]
  BY <1>1
<1> HIDE DEF s
<1>5. ASSUME NEW n \in Nat, n \in DOMAIN Tail(s)
      PROVE  n + 1 \in DOMAIN s /\ Tail(s)[n] = s[n + 1]
  BY <1>2, <1>3, <1>5
<1>6. 1 \in DOMAIN s /\ NextOut(h) = s[1]
  BY <1>3 DEF NextOut, s
<1> QED
  BY <1>4, <1>5, <1>6 DEF s

LEMMA PoppedAnswers ==
  ASSUME Typed, Typed', Answers, NEW h \in Handlers, TakeNext(h)
  PROVE  Answers'
<1> SUFFICES ASSUME NEW g \in Handlers, NEW n \in DOMAIN outbox'[g], ~ IsTrade(outbox'[g][n])
             PROVE  \E o \in Orders : outbox'[g][n].orders = {o}
  BY DEF Answers, IsTrade
<1>1. n \in Nat
  <2>1. outbox'[g] \in Seq(Events)
    BY DEF Typed, TypeOK
  <2> QED
    BY <2>1, LenProperties
<1>2. PICK k \in DOMAIN outbox[g] : outbox'[g][n] = outbox[g][k]
  BY <1>1, PoppedOne
<1> QED
  BY <1>2 DEF Answers, IsTrade

\* A step that changes nothing of this but perhaps lets an order no longer trade.
LEMMA CancelsFrame ==
  ASSUME Cancels, UNCHANGED <<cancelled, restarted>>,
         \A o \in Orders : MayTrade(o)' => MayTrade(o),
         \A h \in Handlers, n \in Nat, o \in Orders : CancelAt(h, n, o)' => CancelAt(h, n, o)
  PROVE  Cancels'
<1> SUFFICES ASSUME ~ restarted', NEW o \in Orders
             PROVE  /\ cancelled'[o] <= 1 /\ (MayTrade(o)' => cancelled'[o] = 0)
                    /\ cancelled'[o] = 1 \/ MayTrade(o)' =>
                         \A h \in Handlers, n \in Nat : ~ CancelAt(h, n, o)'
                    /\ \A g, h \in Handlers : \A m, n \in Nat :
                         CancelAt(g, m, o)' /\ CancelAt(h, n, o)' => g = h /\ m = n
  BY DEF Cancels
<1>1. /\ cancelled[o] <= 1 /\ (MayTrade(o) => cancelled[o] = 0)
      /\ cancelled[o] = 1 \/ MayTrade(o) => \A h \in Handlers, n \in Nat : ~ CancelAt(h, n, o)
      /\ \A g, h \in Handlers : \A m, n \in Nat :
           CancelAt(g, m, o) /\ CancelAt(h, n, o) => g = h /\ m = n
  BY DEF Cancels
<1> QED
  BY <1>1

\* The order that is cancelled could trade until now.
LEMMA CancelsOne ==
  ASSUME Typed, Cancels, UNCHANGED <<cancelled, restarted>>,
         NEW h \in Handlers, NEW e \in Events, Emit(h, <<e>>),
         NEW i \in Orders, e.orders = {i}, MayTrade(i), ~ MayTrade(i)',
         \A o \in Orders : MayTrade(o)' => MayTrade(o)
  PROVE  Cancels'
<1> SUFFICES ASSUME ~ restarted', NEW o \in Orders
             PROVE  /\ cancelled'[o] <= 1 /\ (MayTrade(o)' => cancelled'[o] = 0)
                    /\ cancelled'[o] = 1 \/ MayTrade(o)' =>
                         \A g \in Handlers, n \in Nat : ~ CancelAt(g, n, o)'
                    /\ \A f, g \in Handlers : \A m, n \in Nat :
                         CancelAt(f, m, o)' /\ CancelAt(g, n, o)' => f = g /\ m = n
  BY DEF Cancels
<1>1. /\ cancelled[o] <= 1 /\ (MayTrade(o) => cancelled[o] = 0)
      /\ cancelled[o] = 1 \/ MayTrade(o) => \A g \in Handlers, n \in Nat : ~ CancelAt(g, n, o)
      /\ \A f, g \in Handlers : \A m, n \in Nat :
           CancelAt(f, m, o) /\ CancelAt(g, n, o) => f = g /\ m = n
  BY DEF Cancels
<1>2. ASSUME NEW g \in Handlers, NEW n \in Nat
      PROVE  CancelAt(g, n, o)' =>
               CancelAt(g, n, o) \/ (o = i /\ g = h /\ n = Len(outbox[h]) + 1)
  BY <1>2, EmittedCancels
<1>3. CASE o = i
  BY <1>1, <1>2, <1>3
<1>4. CASE o # i
  BY <1>1, <1>2, <1>4
<1> QED
  BY <1>3, <1>4

\* An event goes out.
LEMMA PopCancels ==
  ASSUME Typed, Typed', Cancels, Answers, NEW h \in Handlers, TakeNext(h),
         UNCHANGED <<seen, index, matching, restarted>>,
         \A o \in Orders :
           cancelled'[o] = cancelled[o] \/ (cancelled'[o] = cancelled[o] + 1 /\ CancelAt(h, 1, o))
  PROVE  Cancels'
<1> SUFFICES ASSUME ~ restarted', NEW o \in Orders
             PROVE  /\ cancelled'[o] <= 1 /\ (MayTrade(o)' => cancelled'[o] = 0)
                    /\ cancelled'[o] = 1 \/ MayTrade(o)' =>
                         \A g \in Handlers, n \in Nat : ~ CancelAt(g, n, o)'
                    /\ \A f, g \in Handlers : \A m, n \in Nat :
                         CancelAt(f, m, o)' /\ CancelAt(g, n, o)' => f = g /\ m = n
  BY DEF Cancels
<1>1. /\ cancelled[o] <= 1 /\ (MayTrade(o) => cancelled[o] = 0)
      /\ cancelled[o] = 1 \/ MayTrade(o) => \A g \in Handlers, n \in Nat : ~ CancelAt(g, n, o)
      /\ \A f, g \in Handlers : \A m, n \in Nat :
           CancelAt(f, m, o) /\ CancelAt(g, n, o) => f = g /\ m = n
  BY DEF Cancels
<1>2. MayTrade(o)' <=> MayTrade(o)
  BY DEF MayTrade
<1>3. cancelled[o] \in Nat
  BY DEF Typed, TypeOK
<1> DEFINE k(g, n) == IF g = h THEN n + 1 ELSE n
<1>4. ASSUME NEW g \in Handlers, NEW n \in Nat, CancelAt(g, n, o)'
      PROVE  CancelAt(g, k(g, n), o)
  <2>1. n \in DOMAIN outbox'[g] /\ IsCancel(outbox'[g][n]) /\ o \in outbox'[g][n].orders
    BY <1>4 DEF CancelAt, IsCancel
  <2>2. k(g, n) \in DOMAIN outbox[g] /\ outbox'[g][n] = outbox[g][k(g, n)]
    BY <2>1, PoppedOne
  <2> QED
    BY <2>1, <2>2 DEF CancelAt, IsCancel
<1>5. \A g \in Handlers, n \in Nat : k(g, n) \in Nat
  OBVIOUS
<1>6. ASSUME NEW f \in Handlers, NEW g \in Handlers, NEW m \in Nat, NEW n \in Nat,
             CancelAt(f, m, o)', CancelAt(g, n, o)'
      PROVE  f = g /\ m = n
  <2>1. CancelAt(f, k(f, m), o) /\ CancelAt(g, k(g, n), o) /\ k(f, m) \in Nat /\ k(g, n) \in Nat
    BY <1>4, <1>5, <1>6
  <2>2. f = g /\ k(f, m) = k(g, n)
    BY <2>1, <1>1
  <2> QED
    BY <2>2
<1>7. CASE cancelled'[o] = cancelled[o]
  <2>1. ASSUME cancelled'[o] = 1 \/ MayTrade(o)', NEW g \in Handlers, NEW n \in Nat
        PROVE  ~ CancelAt(g, n, o)'
    BY <2>1, <1>1, <1>2, <1>4, <1>5, <1>7
  <2> QED
    BY <2>1, <1>1, <1>2, <1>6, <1>7
<1>8. CASE cancelled'[o] = cancelled[o] + 1 /\ CancelAt(h, 1, o)
  <2>1. cancelled[o] = 0 /\ ~ MayTrade(o)
    BY <1>1, <1>3, <1>8
  <2>2. ASSUME NEW g \in Handlers, NEW n \in Nat, CancelAt(g, n, o)'
        PROVE  FALSE
    <3>1. CancelAt(g, k(g, n), o) /\ k(g, n) \in Nat
      BY <1>4, <1>5, <2>2
    <3>2. g = h /\ k(g, n) = 1
      BY <3>1, <1>1, <1>8
    <3>3. n \in DOMAIN outbox'[g] /\ n = 0
      BY <3>2, <2>2 DEF CancelAt
    <3>4. outbox'[g] \in Seq(Events)
      BY DEF Typed, TypeOK
    <3> QED
      BY <3>3, <3>4, LenProperties
  <2> QED
    BY <2>1, <2>2, <1>2, <1>8
<1> QED
  BY <1>7, <1>8

-----------------------------------------------------------------------------
(* Every step, as long as nobody is forgotten *)

Live == Arrivals /\ Fills /\ Cancels /\ Answers
Sound == Base /\ Live

LEMMA SoundInit == ASSUME Init PROVE Sound
<1>1. Base
  BY BaseInit
<1>2. /\ outbox \in [Handlers -> Seq(Events)] /\ seen = <<>> /\ index = {}
      /\ \A h \in Handlers : outbox[h] = <<>>
      /\ \A h \in Handlers : DOMAIN outbox[h] = {}
  BY <1>1, EmptySeq, LenProperties DEF Init, Base, Typed, TypeOK
<1>3. \A p \in Prices : bids[p] = <<>> /\ asks[p] = <<>>
  BY DEF Init
<1>4. InOrder(<<>>, <<>>)
  BY EmptySeq DEF InOrder
<1>5. Arrivals
  BY <1>2, <1>3, <1>4 DEF Arrivals
<1>6. Fills
  <2>1. \A o \in Orders : traded[o] = 0 /\ left[o] = 0 /\ Quantity[o] \in Nat
    BY OrderAssumption DEF Init
  <2> QED
    BY <2>1 DEF Fills
<1>7. Answers
  BY <1>2 DEF Answers
<1>8. \A h \in Handlers, n \in Nat, o \in Orders : ~ CancelAt(h, n, o)
  BY <1>2 DEF CancelAt
<1>9. Cancels
  BY <1>8 DEF Cancels, Init
<1> QED
  BY <1>1, <1>5, <1>6, <1>7, <1>9 DEF Sound, Live

\* A step outside the engine.
LEMMA LiveFrame ==
  ASSUME Sound, Base',
         UNCHANGED <<bids, asks, index, left, seen, matching, outbox, cancelled, traded, restarted>>
  PROVE  Live'
<1>1. Arrivals'
  BY ArrivalsFrame DEF Sound, Live
<1>2. left \in [Orders -> Nat]
  BY DEF Sound, Base, Typed, TypeOK
<1>3. Fills'
  BY <1>2, FillsFrame DEF Sound, Live
<1>4. Cancels'
  BY CancelsFrame DEF Sound, Live, MayTrade, CancelAt
<1>5. Answers'
  BY DEF Sound, Live, Answers, IsTrade
<1> QED
  BY <1>1, <1>3, <1>4, <1>5 DEF Live

LEMMA BeginMatchLive ==
  ASSUME NobodyForgotten, Sound, NEW m \in accepted, BeginMatch(m)
  PROVE  Live'
<1>1. /\ Arrivals' /\ m.order \in Orders /\ m.order \notin ToSet(seen)
      /\ ToSet(seen') = ToSet(seen) \cup {m.order}
  BY BeginMatchArrivals DEF Sound, Live
<1>2. Fills'
  BY BeginMatchFills DEF Sound, Live
<1>3. matching' = m.order /\ UNCHANGED <<index, outbox, cancelled, restarted>>
  BY DEF BeginMatch, bus, history
<1>4. Cancels'
  BY <1>1, <1>3, CancelsFrame DEF Sound, Live, MayTrade, CancelAt
<1>5. Answers'
  BY <1>3 DEF Sound, Live, Answers, IsTrade
<1> QED
  BY <1>1, <1>2, <1>4, <1>5 DEF Live

LEMMA MatchOneLive ==
  ASSUME Sound, NEW r \in Orders, MatchOne(r)
  PROVE  Live'
<1> DEFINE q == TradeQuantity(matching, r)
           e == Event("trade.executed", {matching, r}, q)
<1>1. /\ matching \in Orders /\ r \in index /\ q \in Nat
      /\ left'[r] = 0 => TakeOut(r)
      /\ left'[r] # 0 => UNCHANGED <<index, bids, asks>>
  BY MatchOneTrades DEF Sound, Base
<1>2. Emit("accepted", <<e>>) /\ UNCHANGED <<seen, matching, cancelled, restarted>>
  BY DEF MatchOne, bus
<1>3. e \in Events /\ IsTrade(e) /\ ~ IsCancel(e)
  <2>1. e \in Events
    BY <1>1, EventIsTyped DEF Sound, Base
  <2> QED
    BY <2>1 DEF Event, IsTrade, IsCancel
<1> HIDE DEF e, q
<1>4. Arrivals' /\ index' \subseteq index
  BY <1>1, <1>2, TakeOutArrivals, ArrivalsFrame DEF Sound, Live, TakeOut
<1>5. Fills'
  BY MatchOneFills DEF Sound, Live
<1>6. Cancels'
  <2>1. \A g \in Handlers, n \in Nat, o \in Orders : CancelAt(g, n, o)' => CancelAt(g, n, o)
    BY <1>2, <1>3, EmittedCancels DEF Sound, Base, Handlers
  <2>2. \A o \in Orders : MayTrade(o)' => MayTrade(o)
    BY <1>2, <1>4 DEF MayTrade
  <2> QED
    BY <2>1, <2>2, <1>2, CancelsFrame DEF Sound, Live
<1>7. Answers'
  BY <1>2, <1>3, EmittedAnswers DEF Sound, Live, Base, Handlers
<1> QED
  BY <1>4, <1>5, <1>6, <1>7 DEF Live

\* The rest of a market order is cancelled; nothing else is.
LEMMA EndMatchOutcome ==
  ASSUME Typed, EndMatch, matching \in Orders
  PROVE  \/ UNCHANGED <<left, outbox>>
         \/ /\ UNCHANGED <<index, bids, asks>> /\ left' = [left EXCEPT ![matching] = 0]
            /\ Emit("accepted", <<Event("order.cancelled", {matching}, left[matching])>>)
  BY DEF EndMatch

LEMMA EndMatchLive ==
  ASSUME Sound, EndMatch
  PROVE  Live'
<1>0. PICK i \in Orders : i = matching
  BY EndMatchSound DEF Sound, Base
<1> DEFINE e == Event("order.cancelled", {i}, left[i])
<1>1. /\ Base' /\ i \in Orders /\ i \notin index
      /\ UNCHANGED <<index, bids, asks>> \/ (Rests(i) /\ UNCHANGED <<left, outbox>>)
  BY <1>0, EndMatchSound, BaseNext DEF Sound, Base, Book, Next, AcceptStep
<1>2. \/ UNCHANGED <<left, outbox>>
      \/ /\ UNCHANGED <<index, bids, asks>> /\ left' = [left EXCEPT ![i] = 0]
         /\ Emit("accepted", <<e>>)
  BY <1>0, <1>1, EndMatchOutcome DEF Sound, Base
<1>3. matching' = NoOrder /\ UNCHANGED <<seen, cancelled, traded, restarted>>
  BY DEF EndMatch, Unlock, bus, history
<1>4. left \in [Orders -> Nat] /\ e \in Events /\ IsCancel(e) /\ e.orders = {i}
  <2>1. left \in [Orders -> Nat] /\ left[i] \in Nat
    BY <1>1 DEF Sound, Base, Typed, TypeOK
  <2>2. e \in Events
    BY <1>1, <2>1, EventIsTyped DEF Sound, Base
  <2> QED
    BY <2>1, <2>2 DEF Event, IsCancel
<1>5. i \in ToSet(seen) /\ i # NoOrder
  BY <1>0, <1>1, MatchingIsSeen, OrderAssumption DEF Sound
<1> HIDE DEF e
<1>6. Arrivals'
  BY <1>0, <1>1, <1>3, ArrivalsFrame, RestsArrivals DEF Sound, Live
<1>7. Fills'
  <2>1. \A o \in Orders : left'[o] <= left[o]
    BY <1>1, <1>2, <1>4
  <2> QED
    BY <2>1, <1>1, <1>3, FillsFrame DEF Sound, Live
<1>8. \A o \in Orders : MayTrade(o)' => MayTrade(o)
  BY <1>0, <1>1, <1>3, OrderAssumption DEF MayTrade, Rests
<1>9. CASE UNCHANGED <<left, outbox>>
  <2>1. Cancels'
    BY <1>3, <1>8, <1>9, CancelsFrame DEF Sound, Live, CancelAt
  <2>2. Answers'
    BY <1>9 DEF Sound, Live, Answers, IsTrade
  <2> QED
    BY <2>1, <2>2, <1>6, <1>7 DEF Live
<1>10. CASE UNCHANGED <<index, bids, asks>> /\ Emit("accepted", <<e>>)
  <2>1. MayTrade(i) /\ ~ MayTrade(i)'
    BY <1>0, <1>1, <1>3, <1>5, <1>10 DEF MayTrade
  <2>2. "accepted" \in Handlers
    BY DEF Handlers
  <2>3. Cancels'
    BY <2>1, <2>2, <1>1, <1>3, <1>4, <1>8, <1>10, CancelsOne DEF Sound, Live, Base
  <2>4. Answers'
    BY <2>2, <1>1, <1>4, <1>10, EmittedAnswers DEF Sound, Live, Base
  <2> QED
    BY <2>3, <2>4, <1>6, <1>7 DEF Live
<1> QED
  BY <1>2, <1>9, <1>10

LEMMA CancelOrderLive ==
  ASSUME Sound, NEW o \in Orders, CancelOrder(o)
  PROVE  Live'
<1> DEFINE c == Event("order.cancelled", {o}, left[o])
           d == Event("order.cancel_rejected", {o}, 0)
<1>1. /\ Base' /\ matching = NoOrder
      /\ o \in index => TakeOut(o) /\ index' = index \ {o}
      /\ o \notin index => UNCHANGED book
  BY CancelOrderSound, BaseNext DEF Sound, Base, Next, CancelStep
<1>2. /\ UNCHANGED <<seen, matching, cancelled, traded, restarted>>
      /\ o \in index => left' = [left EXCEPT ![o] = 0] /\ Emit("cancel", <<c>>)
      /\ o \notin index => Emit("cancel", <<d>>)
  BY DEF CancelOrder, AnswerTo, bus, history
<1>3. /\ left \in [Orders -> Nat] /\ left[o] \in Nat /\ "cancel" \in Handlers
      /\ index \subseteq Orders
  BY DEF Sound, Base, Typed, TypeOK, Handlers
<1>4. /\ c \in Events /\ IsCancel(c) /\ c.orders = {o}
      /\ d \in Events /\ ~ IsCancel(d) /\ d.orders = {o}
  <2>1. c \in Events /\ d \in Events
    BY <1>3, EventIsTyped DEF Sound, Base
  <2> QED
    BY <2>1 DEF Event, IsCancel
<1> HIDE DEF c, d
<1>5. Arrivals'
  BY <1>1, <1>2, ArrivalsFrame, TakeOutArrivals DEF Sound, Live, book
<1>6. Fills'
  <2>1. \A r \in Orders : left'[r] <= left[r]
    BY <1>1, <1>2, <1>3 DEF book
  <2> QED
    BY <2>1, <1>1, <1>2, FillsFrame DEF Sound, Live
<1>7. index' \subseteq index
  BY <1>1 DEF book
<1>8. \A r \in Orders : MayTrade(r)' => MayTrade(r)
  BY <1>2, <1>7 DEF MayTrade
<1>9. CASE o \in index
  <2>1. o \in ToSet(seen) /\ o # NoOrder
    BY <1>9, OrderAssumption DEF Sound, Live, Arrivals
  <2>2. MayTrade(o) /\ ~ MayTrade(o)'
    BY <2>1, <1>1, <1>2, <1>9 DEF MayTrade
  <2>3. Cancels'
    BY <2>2, <1>2, <1>3, <1>4, <1>8, <1>9, CancelsOne DEF Sound, Live, Base
  <2>4. Answers'
    BY <1>2, <1>3, <1>4, <1>9, EmittedAnswers DEF Sound, Live, Base
  <2> QED
    BY <2>3, <2>4, <1>5, <1>6 DEF Live
<1>10. CASE o \notin index
  <2>1. \A g \in Handlers, n \in Nat, r \in Orders : CancelAt(g, n, r)' => CancelAt(g, n, r)
    BY <1>2, <1>3, <1>4, <1>10, EmittedCancels DEF Sound, Base
  <2>2. Cancels'
    BY <2>1, <1>2, <1>8, CancelsFrame DEF Sound, Live
  <2>3. Answers'
    BY <1>2, <1>3, <1>4, <1>10, EmittedAnswers DEF Sound, Live, Base
  <2> QED
    BY <2>2, <2>3, <1>5, <1>6 DEF Live
<1> QED
  BY <1>9, <1>10

\* A step that takes an event out of the outbox, and counts it if it went out.
LEMMA TakeNextLive ==
  ASSUME Sound, Base', NEW h \in Handlers, TakeNext(h),
         UNCHANGED <<bids, asks, index, left, seen, matching, traded, restarted>>,
         \/ cancelled' = cancelled
         \/ /\ IsCancel(NextOut(h))
            /\ cancelled' = [cancelled EXCEPT ![About(NextOut(h))] = @ + 1]
  PROVE  Live'
<1> DEFINE e == NextOut(h)
<1>1. Arrivals'
  BY ArrivalsFrame DEF Sound, Live
<1>2. Fills'
  <2>1. left \in [Orders -> Nat]
    BY DEF Sound, Base, Typed, TypeOK
  <2> QED
    BY <2>1, FillsFrame DEF Sound, Live
<1>3. Answers'
  BY PoppedAnswers DEF Sound, Live, Base
<1>4. 1 \in DOMAIN outbox[h] /\ e = outbox[h][1]
  BY PoppedOne DEF Sound, Base
<1>5. ASSUME NEW o \in Orders
      PROVE  cancelled'[o] = cancelled[o] \/ (cancelled'[o] = cancelled[o] + 1 /\ CancelAt(h, 1, o))
  <2>1. cancelled \in [Orders -> Nat]
    BY DEF Sound, Base, Typed, TypeOK
  <2>2. CASE cancelled' = cancelled
    BY <2>2
  <2>3. CASE IsCancel(e) /\ cancelled' = [cancelled EXCEPT ![About(e)] = @ + 1]
    <3>1. ~ IsTrade(e)
      BY <2>3 DEF IsTrade, IsCancel
    <3>2. PICK r \in Orders : e.orders = {r}
      BY <3>1, <1>4 DEF Sound, Live, Answers
    <3>3. About(e) = r
      BY <3>2 DEF About
    <3>4. CancelAt(h, 1, r)
      BY <3>2, <1>4, <2>3 DEF CancelAt
    <3> HIDE DEF e
    <3> QED
      BY <2>1, <2>3, <3>3, <3>4
  <2> QED
    BY <2>2, <2>3
<1>6. Cancels'
  BY <1>5, PopCancels DEF Sound, Live, Base
<1> QED
  BY <1>1, <1>2, <1>3, <1>6 DEF Live

LEMMA RestartLive ==
  ASSUME NobodyForgotten, Sound, Restart
  PROVE  Live'
<1>1. Arrivals'
  BY RestartArrivals DEF Sound
<1>2. restarted' = TRUE /\ outbox' = [h \in Handlers |-> <<>>]
  BY DEF Restart
<1>3. Fills' /\ Cancels'
  BY <1>2, Zenon DEF Fills, Cancels
<1>4. \A h \in Handlers : DOMAIN outbox'[h] = {}
  <2>1. \A h \in Handlers : outbox'[h] = <<>>
    BY <1>2
  <2> QED
    BY <2>1, EmptySeq, LenProperties
<1>5. Answers'
  BY <1>4 DEF Answers
<1> QED
  BY <1>1, <1>3, <1>5 DEF Live

LEMMA SoundNext == ASSUME NobodyForgotten, Sound, [Next]_vars PROVE Sound'
<1>1. Base'
  BY BaseNext DEF Sound
<1> USE DEF Sound
<1>2. ASSUME NEW m \in accepted, IgnoreDuplicate(m)
      PROVE  Live'
  BY <1>1, <1>2, LiveFrame DEF IgnoreDuplicate, book, bus, history
<1>3. ASSUME NEW m \in accepted, BeginMatch(m)
      PROVE  Live'
  BY <1>3, BeginMatchLive
<1>4. ASSUME NEW r \in Orders, MatchOne(r)
      PROVE  Live'
  BY <1>4, MatchOneLive
<1>5. ASSUME EndMatch
      PROVE  Live'
  BY <1>5, EndMatchLive
<1>6. ASSUME NEW o \in Orders, CancelOrder(o)
      PROVE  Live'
  BY <1>6, CancelOrderLive
<1>7. ASSUME NEW h \in Handlers, Publish(h)
      PROVE  Live'
  <2>1. /\ TakeNext(h)
        /\ UNCHANGED <<bids, asks, index, left, seen, matching, traded, restarted>>
        /\ \/ cancelled' = cancelled
           \/ /\ IsCancel(NextOut(h))
              /\ cancelled' = [cancelled EXCEPT ![About(NextOut(h))] = @ + 1]
    BY <1>7 DEF Publish, book, history
  <2> QED
    BY <2>1, <1>1, TakeNextLive
<1>8. ASSUME NEW h \in Handlers, PublishFails(h)
      PROVE  Live'
  <2>1. /\ TakeNext(h)
        /\ UNCHANGED <<bids, asks, index, left, seen, matching, traded, restarted, cancelled>>
    BY <1>8 DEF PublishFails, book, bus
  <2> QED
    BY <2>1, <1>1, TakeNextLive
<1>9. ASSUME NEW o \in Orders, Place(o) \/ Republish(o) \/ RequestCancel(o)
      PROVE  Live'
  BY <1>1, <1>9, LiveFrame DEF Place, Republish, RequestCancel, book, bus, history
<1>10. ASSUME Redeliver
       PROVE  Live'
  BY <1>1, <1>10, LiveFrame DEF Redeliver, book, bus, history
<1>11. ASSUME Restart
       PROVE  Live'
  BY <1>11, RestartLive
<1>12. ASSUME UNCHANGED vars
       PROVE  Live'
  BY <1>1, <1>12, LiveFrame DEF vars, book, bus, history
<1> QED
  BY <1>1, <1>2, <1>3, <1>4, <1>5, <1>6, <1>7, <1>8, <1>9, <1>10, <1>11, <1>12
     DEF Next, AcceptStep, CancelStep, OrderServiceStep, Handlers

LEMMA SoundAlways == ASSUME NobodyForgotten PROVE Spec => []Sound
<1>1. Init => Sound
  BY SoundInit
<1>2. Sound /\ [Next]_vars => Sound'
  BY SoundNext
<1> QED
  BY <1>1, <1>2, PTL DEF Spec

-----------------------------------------------------------------------------
(* The book is sound *)

LEMMA NothingOverfilled == ASSUME Sound PROVE NoOverfill
  BY DEF Sound, Live, Fills, NoOverfill

LEMMA CancelledAtMostOnce == ASSUME Sound PROVE CancelledOnce
<1> SUFFICES ASSUME NEW o \in Orders, ~ restarted
             PROVE  cancelled[o] + OnTheWay("order.cancelled", o) <= 1
  BY DEF CancelledOnce
<1> DEFINE S == {e \in ToPublish("order.cancelled") : o \in e.orders}
<1>1. /\ cancelled[o] <= 1
      /\ cancelled[o] = 1 => \A h \in Handlers, n \in Nat : ~ CancelAt(h, n, o)
      /\ \A g, h \in Handlers : \A m, n \in Nat :
           CancelAt(g, m, o) /\ CancelAt(h, n, o) => g = h /\ m = n
  BY DEF Sound, Live, Cancels
<1>2. cancelled[o] \in Nat
  BY DEF Sound, Base, Typed, TypeOK
<1>3. ASSUME NEW e \in S
      PROVE  \E h \in Handlers, n \in Nat : CancelAt(h, n, o) /\ e = outbox[h][n]
  <2>1. PICK h \in Handlers : \E n \in {n \in DOMAIN outbox[h] : outbox[h][n].kind = "order.cancelled"} :
          e = outbox[h][n]
    BY DEF ToPublish
  <2>2. PICK n \in DOMAIN outbox[h] : outbox[h][n].kind = "order.cancelled" /\ e = outbox[h][n]
    BY <2>1
  <2>3. outbox[h] \in Seq(Events)
    BY DEF Sound, Base, Typed, TypeOK
  <2>4. n \in Nat
    BY <2>2, <2>3, LenProperties
  <2>5. CancelAt(h, n, o)
    BY <2>2 DEF CancelAt, IsCancel
  <2> QED
    BY <2>2, <2>4, <2>5
<1>4. OnTheWay("order.cancelled", o) = Cardinality(S)
  BY DEF OnTheWay
<1> HIDE DEF S
<1> DEFINE waiting == OnTheWay("order.cancelled", o)
<1> HIDE DEF waiting
<1> SUFFICES cancelled[o] + waiting <= 1
  BY DEF waiting
<1>5. CASE S = {}
  <2>1. waiting = 0
    BY <1>4, <1>5, FS_EmptySet, Zenon DEF waiting
  <2> QED
    BY <2>1, <1>1, <1>2
<1>6. CASE S # {}
  <2>1. PICK e \in S : TRUE
    BY <1>6
  <2>2. PICK h \in Handlers, n \in Nat : CancelAt(h, n, o) /\ e = outbox[h][n]
    BY <1>3
  <2>3. S = {e}
    <3>1. ASSUME NEW d \in S
          PROVE  d = e
      <4>1. PICK g \in Handlers, m \in Nat : CancelAt(g, m, o) /\ d = outbox[g][m]
        BY <1>3
      <4> QED
        BY <4>1, <2>2, <1>1
    <3> QED
      BY <3>1
  <2>4. cancelled[o] = 0
    BY <2>2, <1>1, <1>2
  <2>5. Cardinality({e}) = 1
    BY FS_Singleton
  <2>6. waiting = 1
    BY <2>3, <2>5, <1>4, Zenon DEF waiting
  <2> QED
    BY <2>4, <2>6
<1> QED
  BY <1>5, <1>6

\* The book through placements, partial fills, cancels within a level, redeliveries,
\* republished orders, failed publishes and rebuilds.  Until a restart no order trades
\* more than its size and none is cancelled twice.
THEOREM BookIsSound == ASSUME NobodyForgotten PROVE Spec => []BookSound
<1>1. Sound => BookSound
  BY BookIsConsistent, NothingOverfilled, CancelledAtMostOnce
     DEF Sound, Base, Typed, Book, BookSound
<1> QED
  BY <1>1, SoundAlways, PTL

-----------------------------------------------------------------------------
(* Price-time priority *)

LEMMA FrontArrivedFirst ==
  ASSUME Sound, NEW r \in index, NEW s \in index, Price[s] = Price[r], InFrontOf(r, s)
  PROVE  SeenBefore(r, s)
<1> DEFINE level == Levels(Side[r])[Price[r]]
<1>1. Price[r] \in Prices /\ level \in {bids[Price[r]], asks[Price[r]]}
  BY PriceIsPrice DEF Levels, Sound, Base, Typed, TypeOK
<1>2. InOrder(level, seen)
  BY <1>1 DEF Sound, Live, Arrivals
<1>3. PICK a, b \in DOMAIN level : a < b /\ level[a] = r /\ level[b] = s
  BY DEF InFrontOf
<1> HIDE DEF level
<1> QED
  BY <1>2, <1>3 DEF InOrder, SeenBefore

Fairly ==
  \A r \in index : traded'[r] > traded[r] =>
    \A s \in Candidates(matching) \ {r} :
      BetterPrice(r, s) \/ (Price[r] = Price[s] /\ SeenBefore(r, s))

LEMMA StepsAreFair == ASSUME Sound, [Next]_vars PROVE Fairly
<1>1. traded \in [Orders -> Nat] /\ index \subseteq Orders
  BY DEF Sound, Base, Typed, TypeOK
<1>2. CASE traded' = traded
  BY <1>1, <1>2 DEF Fairly
<1>3. ASSUME NEW t \in Orders, MatchOne(t)
      PROVE  Fairly
  <2> DEFINE q == TradeQuantity(matching, t)
  <2>1. /\ IsFirst(t, Candidates(matching)) /\ t \in index
        /\ traded' = [o \in Orders |-> IF o \in {matching, t} THEN traded[o] + q ELSE traded[o]]
    BY <1>3, MatchOneTrades DEF MatchOne, Sound, Base
  <2>2. matching \notin index
    BY DEF Sound, Base, Book
  <2> HIDE DEF q
  <2> SUFFICES ASSUME NEW r \in index, traded'[r] > traded[r], NEW s \in Candidates(matching) \ {r}
               PROVE  BetterPrice(r, s) \/ (Price[r] = Price[s] /\ SeenBefore(r, s))
    BY DEF Fairly
  <2>3. r = t
    BY <1>1, <2>1, <2>2
  <2>4. s \in index /\ (BetterPrice(r, s) \/ (Price[r] = Price[s] /\ InFrontOf(r, s)))
    BY <2>1, <2>3 DEF IsFirst, Candidates
  <2> QED
    BY <2>4, FrontArrivedFirst
<1> QED
  BY <1>2, <1>3 DEF Next, AcceptStep, CancelStep, OrderServiceStep, IgnoreDuplicate, BeginMatch,
       EndMatch, Publish, CancelOrder, Place, Republish, RequestCancel, Redeliver, Restart,
       PublishFails, history, vars

\* Whatever was cancelled, partly filled, skipped or rebuilt before, a resting order
\* trades only when no order the aggressor may trade with has a better price, or the
\* same price and an earlier place in seen_orders.
THEOREM TradesInPriority == ASSUME NobodyForgotten PROVE Spec => PriceTimePriority
<1>1. Sound /\ [Next]_vars => [Fairly]_vars
  BY StepsAreFair
<1> QED
  BY <1>1, SoundAlways, PTL DEF Spec, PriceTimePriority, Fairly

-----------------------------------------------------------------------------
(* What waits to be published *)

\* The shape of the state between a message and its events.
Shape ==
  /\ \A o \in index : Type[o] = "LIMIT"
  /\ \A o \in Orders : left[o] <= Quantity[o]
  /\ inHand["accepted"] # NoMessage => inHand["accepted"].order \in ToSet(seen)
  /\ matching # NoOrder => inHand["accepted"] # NoMessage
  /\ \A h \in Handlers : inHand[h] = NoMessage => outbox[h] = <<>>

\* The cancel handler has at most one event to publish, its answer; the accepted handler
\* cancels only the rest of a market order, as its last event.
Waiting ==
  /\ \A n \in DOMAIN outbox["cancel"] :
       /\ n = 1 /\ ~ IsTrade(outbox["cancel"][n])
       /\ IsCancel(outbox["cancel"][n]) => \A o \in outbox["cancel"][n].orders : Type[o] = "LIMIT"
  /\ \A n \in DOMAIN outbox["accepted"] : ~ IsTrade(outbox["accepted"][n]) =>
       /\ IsCancel(outbox["accepted"][n])
       /\ n = Len(outbox["accepted"]) /\ matching = NoOrder
       /\ \A o \in outbox["accepted"][n].orders : Type[o] = "MARKET"

\* The n-th event the accepted handler has still to publish is a trade.
TradeAt(n) == n \in DOMAIN outbox["accepted"] /\ IsTrade(outbox["accepted"][n])

\* No two trades, published or not, have the same id.
TradeIds ==
  /\ \A t \in trades : t.id < tradeCount
  /\ \A n \in Nat : TradeAt(n) =>
       /\ outbox["accepted"][n].id < tradeCount
       /\ \A t \in trades : t.id # outbox["accepted"][n].id
  /\ \A m, n \in Nat : TradeAt(m) /\ TradeAt(n)
       /\ outbox["accepted"][m].id = outbox["accepted"][n].id => m = n

Told == Shape /\ Waiting /\ TradeIds

LEMMA EmptyDomain == DOMAIN <<>> = {}
  BY EmptySeq, LenProperties

LEMMA ToldInit == ASSUME Init PROVE Told
<1>1. \A h \in Handlers : outbox[h] = <<>> /\ DOMAIN outbox[h] = {}
  BY EmptyDomain DEF Init
<1>2. DOMAIN outbox["cancel"] = {} /\ DOMAIN outbox["accepted"] = {}
  BY <1>1 DEF Handlers
<1>3. \A o \in Orders : left[o] <= Quantity[o]
  BY OrderAssumption DEF Init
<1>4. index = {} /\ matching = NoOrder /\ trades = {} /\ inHand["accepted"] = NoMessage
  BY DEF Init
<1>5. Shape
  BY <1>1, <1>3, <1>4 DEF Shape
<1>6. Waiting
  BY <1>2 DEF Waiting
<1>7. TradeIds
  BY <1>2, <1>4 DEF TradeIds, TradeAt
<1> QED
  BY <1>5, <1>6, <1>7 DEF Told

\* A step outside the engine.
LEMMA ToldFrame ==
  ASSUME Told, UNCHANGED <<index, left, inHand, seen, outbox, matching, trades, tradeCount>>
  PROVE  Told'
<1>1. Shape'
  BY DEF Told, Shape
<1>2. Waiting'
  BY DEF Told, Waiting, IsTrade, IsCancel
<1>3. TradeIds'
  BY DEF Told, TradeIds, TradeAt, IsTrade
<1> QED
  BY <1>1, <1>2, <1>3 DEF Told

LEMMA HandlerNames == "accepted" \in Handlers /\ "cancel" \in Handlers /\ "accepted" # "cancel"
  BY DEF Handlers

LEMMA BeginMatchTold ==
  ASSUME Sound, Told, NEW m \in accepted, BeginMatch(m)
  PROVE  Told'
<1>1. /\ Typed /\ m \in Messages /\ m # NoMessage /\ m.order \in Orders
      /\ inHand["accepted"] = NoMessage /\ matching = NoOrder
      /\ inHand' = [inHand EXCEPT !["accepted"] = m] /\ matching' = m.order
      /\ seen' = Remember(m.order) /\ left' = [left EXCEPT ![m.order] = m.quantity]
      /\ m.order \notin ToSet(seen)
      /\ UNCHANGED <<index, outbox, trades, tradeCount>>
  <2>1. Typed /\ m \in Messages
    BY DEF Sound, Base, Typed, TypeOK
  <2>2. m # NoMessage /\ m.order \in Orders
    BY <2>1, MessageFields, OrderAssumption DEF Messages
  <2>3. m.order \notin ToSet(seen)
    BY <2>1, KnownIsSeen DEF BeginMatch, IsKnown
  <2> QED
    BY <2>1, <2>2, <2>3 DEF BeginMatch, Free, history, bus
<1>2. /\ inHand \in [Handlers -> Messages \cup {NoMessage}] /\ left \in [Orders -> Nat]
      /\ m.quantity <= Quantity[m.order] /\ Distinct(seen)
      /\ Quantity \in [Orders -> 1..MaxQuantity] /\ MaxQuantity \in Nat
      /\ Quantity[m.order] \in Nat
  <2>1. Asked(m) /\ Distinct(seen)
    BY DEF Sound, Base, Requests
  <2>2. Quantity \in [Orders -> 1..MaxQuantity] /\ MaxQuantity \in Nat
    BY OrderAssumption
  <2>3. Quantity[m.order] \in 1..MaxQuantity /\ m.quantity \in 1..Quantity[m.order]
    BY <1>1, <2>1, <2>2 DEF Asked
  <2>4. inHand \in [Handlers -> Messages \cup {NoMessage}] /\ left \in [Orders -> Nat]
    BY <1>1 DEF Typed, TypeOK
  <2>5. m.quantity <= Quantity[m.order] /\ Quantity[m.order] \in Nat
    BY <2>2, <2>3
  <2> QED
    BY <2>1, <2>2, <2>4, <2>5
<1>3. outbox["accepted"] = <<>> /\ DOMAIN outbox["accepted"] = {}
  BY <1>1, HandlerNames, EmptyDomain DEF Told, Shape
<1>4. inHand'["accepted"] = m /\ \A h \in Handlers : h # "accepted" => inHand'[h] = inHand[h]
  BY <1>1, <1>2, HandlerNames
<1>5. m.order \in ToSet(seen')
  <2>1. seen' # <<>> /\ Last(seen') = m.order /\ seen' \in Seq(Orders)
    BY <1>1, <1>2, RememberSound, RememberTyped
  <2> QED
    BY <2>1, LenProperties, EmptySeq DEF Last, ToSet
<1>6. Shape'
  <2>1. \A o \in Orders : left'[o] <= Quantity[o]
    BY <1>1, <1>2 DEF Told, Shape
  <2>2. \A h \in Handlers : inHand'[h] = NoMessage => outbox'[h] = <<>>
    BY <1>1, <1>4 DEF Told, Shape
  <2> QED
    BY <2>1, <2>2, <1>1, <1>4, <1>5 DEF Told, Shape
<1>7. Waiting'
  BY <1>1, <1>3 DEF Told, Waiting, IsTrade, IsCancel
<1>8. TradeIds'
  BY <1>1 DEF Told, TradeIds, TradeAt, IsTrade
<1> QED
  BY <1>6, <1>7, <1>8 DEF Told

\* A trade more to publish.
LEMMA MatchOneTold ==
  ASSUME Sound, Told, NEW r \in Orders, MatchOne(r)
  PROVE  Told'
<1> DEFINE q == TradeQuantity(matching, r)
           e == Event("trade.executed", {matching, r}, q)
<1>1. /\ Typed /\ matching \in Orders /\ r \in index /\ q \in Nat
      /\ left' = [o \in Orders |-> IF o \in {matching, r} THEN left[o] - q ELSE left[o]]
      /\ left'[r] = 0 => TakeOut(r)
      /\ left'[r] # 0 => UNCHANGED <<index, bids, asks>>
  BY MatchOneTrades DEF Sound, Base
<1>2. /\ Emit("accepted", <<e>>) /\ tradeCount' = tradeCount + 1
      /\ UNCHANGED <<seen, matching, inHand, trades>> /\ matching # NoOrder
  BY DEF MatchOne, bus, inbox
<1>3. e \in Events /\ IsTrade(e) /\ e.id = tradeCount
  <2>1. e \in Events
    BY <1>1, EventIsTyped
  <2> QED
    BY <2>1 DEF Event, IsTrade
<1>4. left \in [Orders -> Nat] /\ tradeCount \in Nat
  BY <1>1 DEF Typed, TypeOK
<1>5. \A o \in Orders : left'[o] <= left[o] /\ left[o] \in Nat /\ left'[o] \in Int
  <2> HIDE DEF q, e
  <2>1. \A o \in Orders : left'[o] = IF o \in {matching, r} THEN left[o] - q ELSE left[o]
    BY <1>1
  <2> QED
    BY <2>1, <1>1, <1>4
<1> DEFINE last == Len(outbox["accepted"]) + 1
<1>6. /\ outbox["accepted"] \in Seq(Events)
      /\ \A n \in Nat :
           /\ n \in DOMAIN outbox'["accepted"] <=> n \in DOMAIN outbox["accepted"] \/ n = last
           /\ n \in DOMAIN outbox["accepted"] => outbox'["accepted"][n] = outbox["accepted"][n]
           /\ outbox'["accepted"][last] = e
           /\ last \notin DOMAIN outbox["accepted"]
      /\ outbox'["cancel"] = outbox["cancel"]
  <2> HIDE DEF e
  <2>1. 0 \in Nat
    OBVIOUS
  <2> QED
    BY <2>1, <1>1, <1>2, <1>3, EmittedOne, HandlerNames
<1>7. outbox'["accepted"] \in Seq(Events)
  <2>1. Typed'
    BY MatchOneSound DEF Sound, Base
  <2> QED
    BY <2>1, HandlerNames DEF Typed, TypeOK
<1>8. \A n \in DOMAIN outbox'["accepted"] : n \in Nat
  BY <1>7, LenProperties
<1>9. index' \subseteq index
  BY <1>1 DEF TakeOut
<1> HIDE DEF e, q, last
<1>10. Shape'
  <2>1. \A o \in Orders : left'[o] <= Quantity[o]
    <3>1. \A o \in Orders : Quantity[o] \in Int /\ left[o] <= Quantity[o]
      BY OrderAssumption DEF Told, Shape
    <3> QED
      BY <3>1, <1>5
  <2>2. \A h \in Handlers : inHand'[h] = NoMessage => outbox'[h] = <<>>
    BY <1>2, <1>6, HandlerNames DEF Told, Shape, Handlers
  <2> QED
    BY <2>1, <2>2, <1>2, <1>9 DEF Told, Shape
<1>11. Waiting'
  <2>1. ASSUME NEW n \in DOMAIN outbox'["accepted"]
        PROVE  IsTrade(outbox'["accepted"][n])
    <3>1. n \in DOMAIN outbox["accepted"] => IsTrade(outbox["accepted"][n])
      BY <1>2 DEF Told, Waiting
    <3> QED
      BY <3>1, <1>3, <1>6, <1>8 DEF IsTrade
  <2> QED
    BY <2>1, <1>6 DEF Told, Waiting, IsTrade, IsCancel
<1>12. TradeIds'
  <2>0. \A t \in trades : t.id \in Nat
    BY <1>1, EventTyped DEF Typed, TypeOK
  <2>00. \A n \in Nat : TradeAt(n) => outbox["accepted"][n].id \in Nat
    <3>1. \A n \in DOMAIN outbox["accepted"] : outbox["accepted"][n] \in Events
      BY <1>6, LenProperties, ElementOfSeq
    <3> QED
      BY <3>1, EventTyped DEF TradeAt
  <2>1. ASSUME NEW n \in Nat, TradeAt(n)'
        PROVE  \/ n = last /\ outbox'["accepted"][n].id = tradeCount
               \/ /\ n # last /\ TradeAt(n) /\ outbox'["accepted"][n] = outbox["accepted"][n]
                  /\ outbox["accepted"][n].id < tradeCount
                  /\ \A t \in trades : t.id # outbox["accepted"][n].id
    BY <2>1, <1>3, <1>6 DEF Told, TradeIds, TradeAt, IsTrade
  <2>2. \A t \in trades' : t.id < tradeCount'
    BY <2>0, <1>2, <1>4 DEF Told, TradeIds
  <2>3. \A t \in trades : t.id < tradeCount
    BY DEF Told, TradeIds
  <2>4. \A n \in Nat : TradeAt(n)' =>
          /\ outbox'["accepted"][n].id < tradeCount'
          /\ \A t \in trades' : t.id # outbox'["accepted"][n].id
    BY <2>0, <2>00, <2>1, <2>3, <1>2, <1>4
  <2>5. \A m, n \in Nat : TradeAt(m)' /\ TradeAt(n)'
          /\ outbox'["accepted"][m].id = outbox'["accepted"][n].id => m = n
    <3> SUFFICES ASSUME NEW m \in Nat, NEW n \in Nat, TradeAt(m)', TradeAt(n)',
                        outbox'["accepted"][m].id = outbox'["accepted"][n].id
                 PROVE  m = n
      OBVIOUS
    <3>1. CASE m = last /\ n = last
      BY <3>1
    <3>2. CASE m # last /\ n # last
      BY <2>1, <3>2 DEF Told, TradeIds
    <3>3. CASE m = last /\ n # last
      BY <2>1, <2>00, <3>3, <1>4
    <3>4. CASE m # last /\ n = last
      BY <2>1, <2>00, <3>4, <1>4
    <3> QED
      BY <3>1, <3>2, <3>3, <3>4
  <2> QED
    BY <2>2, <2>4, <2>5 DEF TradeIds
<1> QED
  BY <1>10, <1>11, <1>12 DEF Told


LEMMA EndMatchTold ==
  ASSUME Sound, Told, EndMatch
  PROVE  Told'
<1>0. PICK i \in Orders : i = matching
  BY EndMatchSound DEF Sound, Base
<1> DEFINE e == Event("order.cancelled", {i}, left[i])
<1>1. /\ Typed /\ Typed' /\ i # NoOrder /\ matching' = NoOrder
      /\ UNCHANGED <<seen, trades, tradeCount>> /\ DoneWhenOut("accepted")
  BY EndMatchSound, OrderAssumption DEF Sound, Base, EndMatch, Unlock, bus, history
<1>2. \/ UNCHANGED <<left, outbox>>
      \/ /\ Type[i] = "MARKET" /\ left' = [left EXCEPT ![i] = 0]
         /\ Emit("accepted", <<e>>)
  BY <1>0 DEF EndMatch
<1>3. index' = index \/ (index' = index \cup {i} /\ Type[i] = "LIMIT")
  BY <1>0 DEF EndMatch
<1>4. left \in [Orders -> Nat] /\ outbox \in [Handlers -> Seq(Events)]
  BY <1>1 DEF Typed, TypeOK
<1>5. e \in Events /\ IsCancel(e) /\ ~ IsTrade(e) /\ e.orders = {i}
  <2>1. e \in Events
    BY <1>1, <1>4, EventIsTyped
  <2> QED
    BY <2>1 DEF Event, IsCancel, IsTrade
<1> HIDE DEF e
<1>6. \A n \in DOMAIN outbox["accepted"] : IsTrade(outbox["accepted"][n])
  BY <1>0, <1>1 DEF Told, Waiting
<1>7. inHand'["accepted"] \in {NoMessage, inHand["accepted"]}
  BY <1>1, DoneKeeps, HandlerNames
<1>8. outbox'["cancel"] = outbox["cancel"]
  <2>1. CASE Emit("accepted", <<e>>)
    BY <2>1, <1>4, HandlerNames DEF Emit
  <2> QED
    BY <2>1, <1>2
<1>9. Shape'
  <2>1. \A o \in index' : Type[o] = "LIMIT"
    BY <1>3 DEF Told, Shape
  <2>2. \A o \in Orders : left'[o] <= Quantity[o]
    <3>1. \A o \in Orders : left'[o] = left[o] \/ left'[o] = 0
      BY <1>2, <1>4
    <3>2. \A o \in Orders : left[o] <= Quantity[o] /\ 0 <= Quantity[o]
      BY OrderAssumption DEF Told, Shape
    <3> QED
      BY <3>1, <3>2
  <2>3. inHand'["accepted"] # NoMessage => inHand'["accepted"].order \in ToSet(seen')
    BY <1>1, <1>7 DEF Told, Shape
  <2>4. \A h \in Handlers : inHand'[h] = NoMessage => outbox'[h] = <<>>
    <3>1. CASE outbox'["accepted"] = <<>>
      <4>1. inHand'["cancel"] = inHand["cancel"]
        BY <1>1, HandlerNames DEF DoneWhenOut, Typed, TypeOK
      <4> QED
        BY <3>1, <4>1, <1>8 DEF Told, Shape, Handlers
    <3>2. CASE outbox'["accepted"] # <<>>
      <4>1. inHand' = inHand
        BY <3>2, <1>1 DEF DoneWhenOut
      <4>2. inHand["accepted"] # NoMessage
        BY <1>0, <1>1 DEF Told, Shape
      <4> QED
        BY <4>1, <4>2, <1>8 DEF Told, Shape, Handlers
    <3> QED
      BY <3>1, <3>2
  <2> QED
    BY <2>1, <2>2, <2>3, <2>4, <1>1 DEF Shape
<1>10. Waiting' /\ TradeIds'
  <2>1. CASE outbox' = outbox
    <3>1. Waiting'
      BY <2>1, <1>1, <1>6 DEF Told, Waiting, IsTrade, IsCancel
    <3>2. TradeIds'
      BY <2>1, <1>1 DEF Told, TradeIds, TradeAt, IsTrade
    <3> QED
      BY <3>1, <3>2
  <2>2. CASE Emit("accepted", <<e>>) /\ Type[i] = "MARKET"
    <3> DEFINE last == Len(outbox["accepted"]) + 1
    <3>1. /\ outbox["accepted"] \in Seq(Events)
          /\ \A n \in Nat :
               /\ n \in DOMAIN outbox'["accepted"] <=> n \in DOMAIN outbox["accepted"] \/ n = last
               /\ n \in DOMAIN outbox["accepted"] => outbox'["accepted"][n] = outbox["accepted"][n]
               /\ outbox'["accepted"][last] = e
               /\ last \notin DOMAIN outbox["accepted"]
      BY <2>2, <1>1, <1>5, EmittedOne, HandlerNames
    <3>2. outbox'["accepted"] \in Seq(Events)
      BY <1>1, HandlerNames DEF Typed, TypeOK
    <3>3. Len(outbox'["accepted"]) = last /\ \A n \in DOMAIN outbox'["accepted"] : n \in Nat
      <4>1. outbox'["accepted"] = outbox["accepted"] \o <<e>>
        BY <2>2, <1>4, HandlerNames DEF Emit
      <4>2. outbox'["accepted"] = Append(outbox["accepted"], e)
        BY <4>1, <3>1, <1>5, AppendIsConcat
      <4> QED
        BY <4>2, <3>1, <3>2, <1>5, AppendProperties, LenProperties
    <3> HIDE DEF last
    <3>4. ASSUME NEW n \in DOMAIN outbox'["accepted"], ~ IsTrade(outbox'["accepted"][n])
          PROVE  n = last /\ outbox'["accepted"][n] = e
      BY <3>1, <3>3, <3>4, <1>6 DEF IsTrade
    <3>5. Waiting'
      BY <3>3, <3>4, <2>2, <1>1, <1>5, <1>8 DEF Told, Waiting, IsTrade, IsCancel
    <3>6. \A n \in Nat : TradeAt(n)' => TradeAt(n) /\ outbox'["accepted"][n] = outbox["accepted"][n]
      BY <3>1, <1>5 DEF TradeAt, IsTrade
    <3>7. TradeIds'
      BY <3>6, <1>1 DEF Told, TradeIds
    <3> QED
      BY <3>5, <3>7
  <2> QED
    BY <2>1, <2>2, <1>2
<1> QED
  BY <1>9, <1>10 DEF Told

LEMMA CancelOrderTold ==
  ASSUME Sound, Told, NEW o \in Orders, CancelOrder(o)
  PROVE  Told'
<1> DEFINE c == Event("order.cancelled", {o}, left[o])
           d == Event("order.cancel_rejected", {o}, 0)
<1>1. /\ Typed /\ Typed' /\ index' \subseteq index /\ inHand["cancel"] = NoMessage
      /\ UNCHANGED <<seen, matching, trades, tradeCount>>
      /\ inHand' = [inHand EXCEPT !["cancel"] = Message(o, 0)]
  <2>1. index' \subseteq index
    BY CancelOrderSound DEF Sound, Base, book
  <2>2. Typed /\ Typed'
    BY CancelOrderSound DEF Sound, Base
  <2> QED
    BY <2>1, <2>2 DEF CancelOrder, Free, bus, history
<1>2. /\ left' = left \/ left' = [left EXCEPT ![o] = 0]
      /\ \/ o \in index /\ Emit("cancel", <<c>>)
         \/ o \notin index /\ Emit("cancel", <<d>>)
  BY DEF CancelOrder, AnswerTo, book
<1>3. left \in [Orders -> Nat] /\ outbox \in [Handlers -> Seq(Events)]
      /\ inHand \in [Handlers -> Messages \cup {NoMessage}]
  BY <1>1 DEF Typed, TypeOK
<1>4. /\ c \in Events /\ IsCancel(c) /\ ~ IsTrade(c) /\ c.orders = {o}
      /\ d \in Events /\ ~ IsCancel(d) /\ ~ IsTrade(d) /\ d.orders = {o}
  <2>1. c \in Events /\ d \in Events
    BY <1>1, <1>3, EventIsTyped
  <2> QED
    BY <2>1 DEF Event, IsCancel, IsTrade
<1> HIDE DEF c, d
<1>5. outbox["cancel"] = <<>>
  BY <1>1, HandlerNames DEF Told, Shape
<1>6. /\ outbox'["accepted"] = outbox["accepted"]
      /\ \/ o \in index /\ outbox'["cancel"] = <<c>>
         \/ outbox'["cancel"] = <<d>>
  <2>1. ASSUME NEW x, Emit("cancel", <<x>>)
        PROVE  outbox'["accepted"] = outbox["accepted"] /\ outbox'["cancel"] = <<x>>
    BY <2>1, <1>3, <1>5, HandlerNames DEF Emit
  <2> QED
    BY <2>1, <1>2
<1>7. Shape'
  <2>1. \A r \in Orders : left'[r] <= Quantity[r]
    <3>1. \A r \in Orders : left'[r] = left[r] \/ left'[r] = 0
      BY <1>2, <1>3
    <3>2. \A r \in Orders : left[r] <= Quantity[r] /\ 0 <= Quantity[r]
      BY OrderAssumption DEF Told, Shape
    <3> QED
      BY <3>1, <3>2
  <2>2. inHand'["accepted"] = inHand["accepted"] /\ inHand'["cancel"] # NoMessage
    <3>1. Message(o, 0) # NoMessage
      BY MessageTyped, OrderAssumption DEF Messages
    <3> QED
      BY <3>1, <1>1, <1>3, HandlerNames
  <2> QED
    BY <2>1, <2>2, <1>1, <1>6 DEF Told, Shape, Handlers
<1>8. Waiting'
  <2>1. ASSUME NEW n \in DOMAIN outbox'["cancel"]
        PROVE  n = 1 /\ ~ IsTrade(outbox'["cancel"][n])
               /\ (IsCancel(outbox'["cancel"][n]) =>
                     \A r \in outbox'["cancel"][n].orders : Type[r] = "LIMIT")
    <3>1. n = 1
      BY <1>6
    <3>2. CASE o \in index /\ outbox'["cancel"] = <<c>>
      <4>1. Type[o] = "LIMIT"
        BY <3>2 DEF Told, Shape
      <4> QED
        BY <3>1, <3>2, <4>1, <1>4
    <3>3. CASE outbox'["cancel"] = <<d>>
      BY <3>1, <3>3, <1>4
    <3> QED
      BY <3>2, <3>3, <1>6
  <2> QED
    BY <2>1, <1>1, <1>6 DEF Told, Waiting, IsTrade, IsCancel
<1>9. TradeIds'
  BY <1>1, <1>6 DEF Told, TradeIds, TradeAt, IsTrade
<1> QED
  BY <1>7, <1>8, <1>9 DEF Told


\* An event is taken out of the outbox; a trade that goes out keeps its id.
LEMMA TakeNextTold ==
  ASSUME Sound, Told, Typed', NEW h \in Handlers, TakeNext(h),
         UNCHANGED <<index, left, seen, matching, tradeCount>>,
         trades' = trades \/ (IsTrade(NextOut(h)) /\ trades' = trades \cup {NextOut(h)})
  PROVE  Told'
<1>1. /\ Typed /\ outbox[h] # <<>> /\ DoneWhenOut(h)
      /\ h = "accepted" => matching = NoOrder
      /\ outbox' = [outbox EXCEPT ![h] = Tail(@)]
  BY DEF Sound, Base, TakeNext
<1>2. /\ outbox \in [Handlers -> Seq(Events)] /\ outbox' \in [Handlers -> Seq(Events)]
      /\ inHand \in [Handlers -> Messages \cup {NoMessage}]
  BY <1>1 DEF Typed, TypeOK
<1>3. \A g \in Handlers : \A n \in DOMAIN outbox'[g] :
        LET k == IF g = h THEN n + 1 ELSE n
        IN /\ n \in Nat /\ k \in Nat
           /\ k \in DOMAIN outbox[g] /\ outbox'[g][n] = outbox[g][k]
  <2>1. \A g \in Handlers : \A n \in DOMAIN outbox'[g] : n \in Nat
    BY <1>2, LenProperties
  <2>2. \A g \in Handlers, n \in Nat :
              n \in DOMAIN outbox'[g] =>
                LET k == IF g = h THEN n + 1 ELSE n
                IN k \in DOMAIN outbox[g] /\ outbox'[g][n] = outbox[g][k]
    BY <1>1, PoppedOne
  <2> QED
    BY <2>1, <2>2
<1>4. 1 \in DOMAIN outbox[h] /\ NextOut(h) = outbox[h][1]
  BY <1>1, PoppedOne
<1>5. Shape'
  <2>1. \A g \in Handlers : g # h => inHand'[g] = inHand[g] /\ outbox'[g] = outbox[g]
    BY <1>1, <1>2 DEF DoneWhenOut
  <2>2. inHand'[h] = NoMessage => outbox'[h] = <<>>
    <3> SUFFICES ASSUME outbox'[h] # <<>>
                 PROVE  inHand'[h] # NoMessage
      OBVIOUS
    <3>1. inHand' = inHand
      BY <1>1 DEF DoneWhenOut
    <3> QED
      BY <3>1, <1>1 DEF Told, Shape
  <2>3. \A g \in Handlers : inHand'[g] = NoMessage => outbox'[g] = <<>>
    BY <2>1, <2>2 DEF Told, Shape
  <2>4. inHand'["accepted"] \in {NoMessage, inHand["accepted"]}
    BY <1>1, DoneKeeps
  <2>5. matching' # NoOrder => inHand'["accepted"] # NoMessage
    BY <1>1, <2>1, HandlerNames DEF Told, Shape
  <2> QED
    BY <2>3, <2>4, <2>5 DEF Told, Shape
<1>6. Waiting'
  <2>1. ASSUME NEW n \in DOMAIN outbox'["cancel"]
        PROVE  /\ n = 1 /\ ~ IsTrade(outbox'["cancel"][n])
               /\ IsCancel(outbox'["cancel"][n]) =>
                    \A o \in outbox'["cancel"][n].orders : Type[o] = "LIMIT"
    <3>1. PICK k \in DOMAIN outbox["cancel"] :
            /\ outbox'["cancel"][n] = outbox["cancel"][k]
            /\ k = (IF "cancel" = h THEN n + 1 ELSE n) /\ n \in Nat
      BY <1>3, HandlerNames
    <3>2. k = 1
      BY DEF Told, Waiting
    <3>3. n = 1
      <4>1. n # 0
        <5>1. outbox'["cancel"] \in Seq(Events)
          BY <1>2, HandlerNames
        <5> QED
          BY <5>1, LenProperties
      <4> QED
        BY <3>1, <3>2, <4>1
    <3> QED
      BY <3>1, <3>3 DEF Told, Waiting
  <2>2. ASSUME NEW n \in DOMAIN outbox'["accepted"], ~ IsTrade(outbox'["accepted"][n])
        PROVE  /\ IsCancel(outbox'["accepted"][n])
               /\ n = Len(outbox'["accepted"]) /\ matching' = NoOrder
               /\ \A o \in outbox'["accepted"][n].orders : Type[o] = "MARKET"
    <3>1. PICK k \in DOMAIN outbox["accepted"] :
            /\ outbox'["accepted"][n] = outbox["accepted"][k]
            /\ k = (IF "accepted" = h THEN n + 1 ELSE n) /\ n \in Nat
      BY <1>3, HandlerNames
    <3>2. /\ IsCancel(outbox["accepted"][k]) /\ k = Len(outbox["accepted"]) /\ matching = NoOrder
          /\ \A o \in outbox["accepted"][k].orders : Type[o] = "MARKET"
      BY <3>1, <2>2 DEF Told, Waiting, IsTrade
    <3>3. n = Len(outbox'["accepted"])
      <4>1. CASE "accepted" = h
        <5>1. outbox["accepted"] \in Seq(Events) /\ outbox["accepted"] # <<>>
          BY <4>1, <1>1, <1>2
        <5>2. outbox'["accepted"] = Tail(outbox["accepted"])
          BY <4>1, <1>1, <1>2
        <5>3. Len(outbox'["accepted"]) = Len(outbox["accepted"]) - 1 /\ Len(outbox["accepted"]) \in Nat
          BY <5>1, <5>2, HeadTailProperties, LenProperties
        <5> QED
          BY <5>3, <4>1, <3>1, <3>2
      <4>2. CASE "accepted" # h
        <5>1. outbox'["accepted"] = outbox["accepted"]
          BY <4>2, <1>1, <1>2, HandlerNames
        <5> QED
          BY <5>1, <4>2, <3>1, <3>2
      <4> QED
        BY <4>1, <4>2
    <3> QED
      BY <3>1, <3>2, <3>3 DEF IsCancel
  <2> QED
    BY <2>1, <2>2 DEF Waiting, IsTrade, IsCancel
<1>7. TradeIds'
  <2>1. ASSUME NEW n \in Nat, TradeAt(n)'
        PROVE  LET k == IF "accepted" = h THEN n + 1 ELSE n
               IN k \in Nat /\ TradeAt(k) /\ outbox'["accepted"][n] = outbox["accepted"][k]
    BY <2>1, <1>3, HandlerNames DEF TradeAt, IsTrade
  <2>2. CASE trades' = trades
    <3>1. \A n \in Nat : TradeAt(n)' => outbox'["accepted"][n].id < tradeCount
                                       /\ \A t \in trades : t.id # outbox'["accepted"][n].id
      BY <2>1 DEF Told, TradeIds
    <3>2. \A m, n \in Nat : TradeAt(m)' /\ TradeAt(n)'
            /\ outbox'["accepted"][m].id = outbox'["accepted"][n].id => m = n
      BY <2>1 DEF Told, TradeIds
    <3> QED
      BY <3>1, <3>2, <2>2 DEF Told, TradeIds
  <2>3. CASE IsTrade(NextOut(h)) /\ trades' = trades \cup {NextOut(h)}
    <3>1. h = "accepted"
      BY <2>3, <1>4 DEF Told, Waiting, Handlers
    <3>2. TradeAt(1) /\ NextOut(h) = outbox["accepted"][1]
      BY <2>3, <3>1, <1>4 DEF TradeAt
    <3>3. NextOut(h).id < tradeCount
      BY <3>2 DEF Told, TradeIds
    <3>4. ASSUME NEW n \in Nat, TradeAt(n)'
          PROVE  /\ outbox'["accepted"][n] = outbox["accepted"][n + 1] /\ TradeAt(n + 1)
                 /\ n + 1 \in Nat /\ n \in Nat \ {0}
      <4>1. outbox'["accepted"] \in Seq(Events)
        BY <1>2, HandlerNames
      <4>2. n # 0
        BY <3>4, <4>1, LenProperties DEF TradeAt
      <4> QED
        BY <4>2, <3>4, <3>1, <2>1
    <3>5. \A n \in Nat : TradeAt(n)' => outbox'["accepted"][n].id < tradeCount
                                       /\ \A t \in trades : t.id # outbox'["accepted"][n].id
      BY <3>4 DEF Told, TradeIds
    <3>6. \A n \in Nat : TradeAt(n)' => NextOut(h).id # outbox'["accepted"][n].id
      <4> SUFFICES ASSUME NEW n \in Nat, TradeAt(n)', NextOut(h).id = outbox'["accepted"][n].id
                   PROVE  FALSE
        OBVIOUS
      <4>1. TradeAt(n + 1) /\ n + 1 \in Nat /\ n # 0
            /\ outbox["accepted"][n + 1].id = outbox["accepted"][1].id
        BY <3>2, <3>4
      <4>2. n + 1 = 1
        BY <4>1, <3>2 DEF Told, TradeIds
      <4> QED
        BY <4>1, <4>2
    <3>7. \A m, n \in Nat : TradeAt(m)' /\ TradeAt(n)'
            /\ outbox'["accepted"][m].id = outbox'["accepted"][n].id => m = n
      <4> SUFFICES ASSUME NEW m \in Nat, NEW n \in Nat, TradeAt(m)', TradeAt(n)',
                          outbox'["accepted"][m].id = outbox'["accepted"][n].id
                   PROVE  m = n
        OBVIOUS
      <4>1. m + 1 = n + 1
        BY <3>4 DEF Told, TradeIds
      <4> QED
        BY <4>1
    <3> QED
      BY <3>3, <3>5, <3>6, <3>7, <2>3 DEF Told, TradeIds
  <2> QED
    BY <2>2, <2>3
<1> QED
  BY <1>5, <1>6, <1>7 DEF Told

LEMMA RestartTold ==
  ASSUME Sound, Told, Restart
  PROVE  Told'
<1>1. PICK rows \in Rows : \E os \in {OpenOrders(rows), <<>>} :
        /\ index' = ToSet(os)
        /\ left' = [o \in Orders |-> IF Contains(os, o) THEN Open(o, rows) ELSE 0]
  BY DEF Restart
<1>2. PICK os \in {OpenOrders(rows), <<>>} :
        /\ index' = ToSet(os)
        /\ left' = [o \in Orders |-> IF Contains(os, o) THEN Open(o, rows) ELSE 0]
  BY <1>1
<1>3. /\ inHand' = [h \in Handlers |-> NoMessage] /\ matching' = NoOrder
      /\ outbox' = [h \in Handlers |-> <<>>] /\ UNCHANGED <<trades, tradeCount>>
  BY DEF Restart, Unlock, bus
<1>4. Typed /\ Distinct(placed)
  BY DEF Sound, Base, Requests
<1>5. \A o \in index' : Type[o] = "LIMIT"
  BY <1>2, <1>4, OpenOrdersSound
<1>6. \A o \in Orders : left'[o] <= Quantity[o]
  <2>1. \A o \in Orders : Open(o, rows) <= Quantity[o] /\ 0 <= Quantity[o]
    BY <1>4, OpenTyped, OrderAssumption
  <2> QED
    BY <2>1, <1>2
<1>7. DOMAIN outbox'["accepted"] = {} /\ DOMAIN outbox'["cancel"] = {}
  BY <1>3, EmptyDomain, HandlerNames
<1>8. Shape'
  BY <1>3, <1>5, <1>6, HandlerNames DEF Shape
<1>9. Waiting'
  BY <1>7 DEF Waiting
<1>10. TradeIds'
  BY <1>3, <1>7 DEF Told, TradeIds, TradeAt
<1> QED
  BY <1>8, <1>9, <1>10 DEF Told

LEMMA ToldNext == ASSUME NobodyForgotten, Sound, Told, [Next]_vars PROVE Told'
<1>1. Typed'
  BY BaseNext DEF Sound, Base
<1>2. ASSUME NEW m \in accepted, IgnoreDuplicate(m)
      PROVE  Told'
  BY <1>2, ToldFrame DEF IgnoreDuplicate, book, bus, history
<1>3. ASSUME NEW m \in accepted, BeginMatch(m)
      PROVE  Told'
  BY <1>3, BeginMatchTold
<1>4. ASSUME NEW r \in Orders, MatchOne(r)
      PROVE  Told'
  BY <1>4, MatchOneTold
<1>5. ASSUME EndMatch
      PROVE  Told'
  BY <1>5, EndMatchTold
<1>6. ASSUME NEW o \in Orders, CancelOrder(o)
      PROVE  Told'
  BY <1>6, CancelOrderTold
<1>7. ASSUME NEW h \in Handlers, Publish(h)
      PROVE  Told'
  <2>1. /\ TakeNext(h) /\ UNCHANGED <<index, left, seen, matching, tradeCount>>
        /\ trades' = trades \/ (IsTrade(NextOut(h)) /\ trades' = trades \cup {NextOut(h)})
    BY <1>7 DEF Publish, book, history
  <2> QED
    BY <2>1, <1>1, TakeNextTold
<1>8. ASSUME NEW h \in Handlers, PublishFails(h)
      PROVE  Told'
  <2>1. /\ TakeNext(h) /\ UNCHANGED <<index, left, seen, matching, tradeCount>>
        /\ trades' = trades
    BY <1>8 DEF PublishFails, book, bus
  <2> QED
    BY <2>1, <1>1, TakeNextTold
<1>9. ASSUME NEW o \in Orders, Place(o) \/ Republish(o) \/ RequestCancel(o)
      PROVE  Told'
  BY <1>9, ToldFrame DEF Place, Republish, RequestCancel, book, bus, history
<1>10. ASSUME Redeliver
       PROVE  Told'
  BY <1>10, ToldFrame DEF Redeliver, book, bus, history
<1>11. ASSUME Restart
       PROVE  Told'
  BY <1>11, RestartTold
<1>12. ASSUME UNCHANGED vars
       PROVE  Told'
  BY <1>12, ToldFrame DEF vars, inbox, book, bus, history
<1> QED
  BY <1>2, <1>3, <1>4, <1>5, <1>6, <1>7, <1>8, <1>9, <1>10, <1>11, <1>12
     DEF Next, AcceptStep, CancelStep, OrderServiceStep, Handlers


-----------------------------------------------------------------------------
(* The events on their way *)

AnswerKinds == {"order.cancelled", "order.cancel_rejected"}

\* The n-th event handler h has still to publish is an answer of this kind about o.
AnswerAt(kind, h, n, o) ==
  n \in DOMAIN outbox[h] /\ outbox[h][n].kind = kind /\ o \in outbox[h][n].orders

Waits(kind, o) == \E h \in Handlers, n \in Nat : AnswerAt(kind, h, n, o)

\* No two answers of a kind about the same order wait.
LEMMA AnswerUnique ==
  ASSUME Told, NEW kind \in AnswerKinds, NEW o,
         NEW g \in Handlers, NEW m, NEW h \in Handlers, NEW n,
         AnswerAt(kind, g, m, o), AnswerAt(kind, h, n, o)
  PROVE  g = h /\ m = n
<1>1. ~ IsTrade(outbox[g][m]) /\ ~ IsTrade(outbox[h][n])
  BY DEF AnswerAt, AnswerKinds, IsTrade
<1>2. kind = "order.cancelled" \/ (g = "cancel" /\ h = "cancel")
  BY <1>1 DEF AnswerAt, AnswerKinds, Told, Waiting, IsCancel, Handlers
<1>3. g = h
  <2>1. ASSUME NEW k, NEW l, AnswerAt("order.cancelled", "accepted", k, o),
               AnswerAt("order.cancelled", "cancel", l, o)
        PROVE  FALSE
    BY <2>1 DEF AnswerAt, Told, Waiting, IsCancel, IsTrade
  <2> QED
    BY <2>1, <1>2 DEF Handlers
<1>4. CASE g = "cancel"
  BY <1>3, <1>4 DEF AnswerAt, Told, Waiting
<1>5. CASE g = "accepted"
  BY <1>1, <1>3, <1>5 DEF AnswerAt, Told, Waiting
<1> QED
  BY <1>3, <1>4, <1>5 DEF Handlers

\* What is to be published, by its place.
LEMMA PlaceInOutbox ==
  ASSUME Typed, NEW kind, NEW e
  PROVE  e \in ToPublish(kind) <=>
           \E h \in Handlers, n \in Nat : n \in DOMAIN outbox[h] /\ e = outbox[h][n] /\ e.kind = kind
<1>1. \A h \in Handlers : \A n \in DOMAIN outbox[h] : n \in Nat
  <2>1. \A h \in Handlers : outbox[h] \in Seq(Events)
    BY DEF Typed, TypeOK
  <2> QED
    BY <2>1, LenProperties
<1>2. e \in ToPublish(kind) <=>
        \E h \in Handlers : e \in {outbox[h][n] : n \in {n \in DOMAIN outbox[h] : outbox[h][n].kind = kind}}
  BY DEF ToPublish
<1> QED
  BY <1>1, <1>2

\* It holds after a step as well.
Placing ==
  Typed => \A kind, e :
    e \in ToPublish(kind) <=>
      \E h \in Handlers, n \in Nat : n \in DOMAIN outbox[h] /\ e = outbox[h][n] /\ e.kind = kind

LEMMA PlaceInOutboxNext == Placing'
<1>1. Placing
  BY PlaceInOutbox DEF Placing
<1> QED
  BY <1>1, PTL

LEMMA OnTheWayIs ==
  ASSUME Typed, Told, NEW kind \in AnswerKinds, NEW o
  PROVE  OnTheWay(kind, o) = IF Waits(kind, o) THEN 1 ELSE 0
<1> DEFINE S == {e \in ToPublish(kind) : o \in e.orders}
<1>1. \A e \in S : \E h \in Handlers, n \in Nat : AnswerAt(kind, h, n, o) /\ e = outbox[h][n]
  BY PlaceInOutbox DEF AnswerAt
<1>2. \A h \in Handlers, n \in Nat : AnswerAt(kind, h, n, o) => outbox[h][n] \in S
  BY PlaceInOutbox DEF AnswerAt
<1>3. OnTheWay(kind, o) = Cardinality(S)
  BY DEF OnTheWay
<1> HIDE DEF S
<1> DEFINE count == OnTheWay(kind, o)
<1> HIDE DEF count
<1>4. CASE Waits(kind, o)
  <2>1. PICK h \in Handlers, n \in Nat : AnswerAt(kind, h, n, o)
    BY <1>4 DEF Waits
  <2>2. S = {outbox[h][n]}
    <3>1. ASSUME NEW d \in S
          PROVE  d = outbox[h][n]
      <4>1. PICK g \in Handlers, m \in Nat : AnswerAt(kind, g, m, o) /\ d = outbox[g][m]
        BY <1>1
      <4>2. g = h /\ m = n
        BY <2>1, <4>1, AnswerUnique
      <4> QED
        BY <4>1, <4>2
    <3> QED
      BY <3>1, <2>1, <1>2
  <2>3. Cardinality({outbox[h][n]}) = 1
    BY FS_Singleton
  <2>4. count = 1
    BY <2>2, <2>3, <1>3, Zenon DEF count
  <2> QED
    BY <2>4, <1>4 DEF count
<1>5. CASE ~ Waits(kind, o)
  <2>1. S = {}
    BY <1>1, <1>5 DEF Waits
  <2>2. count = 0
    BY <2>1, <1>3, FS_EmptySet, Zenon DEF count
  <2> QED
    BY <2>2, <1>5 DEF count
<1> QED
  BY <1>4, <1>5

Counting ==
  Typed /\ Told => \A kind \in AnswerKinds : \A o :
    OnTheWay(kind, o) = IF Waits(kind, o) THEN 1 ELSE 0

LEMMA OnTheWayIsNext == Counting'
<1>1. Counting
  BY OnTheWayIs DEF Counting
<1> QED
  BY <1>1, PTL

\* The events that were not taken out are still there.
LEMMA PoppedBack ==
  ASSUME Typed, NEW h \in Handlers, TakeNext(h), NEW g \in Handlers, NEW k \in Nat,
         k \in DOMAIN outbox[g], g = h => k # 1
  PROVE  \E n \in Nat : /\ n \in DOMAIN outbox'[g] /\ outbox'[g][n] = outbox[g][k]
                        /\ n = IF g = h THEN k - 1 ELSE k
<1>1. /\ outbox \in [Handlers -> Seq(Events)] /\ outbox[h] \in Seq(Events) /\ outbox[h] # <<>>
      /\ outbox' = [outbox EXCEPT ![h] = Tail(@)]
  BY DEF TakeNext, Typed, TypeOK
<1>2. CASE g # h
  BY <1>1, <1>2
<1>3. CASE g = h
  <2> DEFINE s == outbox[h]
  <2>1. /\ Tail(s) \in Seq(Events) /\ Len(Tail(s)) = Len(s) - 1
        /\ \A n \in 1..Len(Tail(s)) : Tail(s)[n] = s[n + 1]
    BY <1>1, HeadTailProperties
  <2>2. Len(s) \in Nat \ {0} /\ DOMAIN s = 1..Len(s) /\ DOMAIN Tail(s) = 1..(Len(s) - 1)
    BY <1>1, <2>1, LenProperties, EmptySeq
  <2>3. outbox'[h] = Tail(s)
    BY <1>1
  <2>4. k \in DOMAIN s
    BY <1>3
  <2> HIDE DEF s
  <2>5. /\ k - 1 \in Nat /\ k - 1 \in DOMAIN Tail(s) /\ k - 1 \in 1..Len(Tail(s))
        /\ (k - 1) + 1 = k
    BY <2>1, <2>2, <2>4, <1>3
  <2>6. Tail(s)[k - 1] = s[k]
    BY <2>1, <2>5
  <2> QED
    BY <2>3, <2>5, <2>6, <1>3 DEF s
<1> QED
  BY <1>2, <1>3

LEMMA EmitWaits ==
  ASSUME Typed, NEW h \in Handlers, NEW e \in Events, Emit(h, <<e>>), NEW kind, NEW o
  PROVE  Waits(kind, o)' <=> Waits(kind, o) \/ (e.kind = kind /\ o \in e.orders)
<1> DEFINE last == Len(outbox[h]) + 1
<1>1. \A g \in Handlers, n \in Nat :
        IF g = h
        THEN /\ n \in DOMAIN outbox'[h] <=> n \in DOMAIN outbox[h] \/ n = last
             /\ n \in DOMAIN outbox[h] => outbox'[h][n] = outbox[h][n]
             /\ outbox'[h][last] = e
             /\ last \notin DOMAIN outbox[h]
        ELSE outbox'[g] = outbox[g]
  BY EmittedOne
<1>2. last \in Nat
  BY EmittedOne, LenProperties DEF Typed, TypeOK
<1> HIDE DEF last
<1>3. ASSUME Waits(kind, o)'
      PROVE  Waits(kind, o) \/ (e.kind = kind /\ o \in e.orders)
  <2>1. PICK g \in Handlers, n \in Nat : AnswerAt(kind, g, n, o)'
    BY <1>3 DEF Waits
  <2>2. CASE g = h /\ n = last
    BY <2>1, <2>2, <1>1 DEF AnswerAt
  <2>3. CASE ~ (g = h /\ n = last)
    <3>1. AnswerAt(kind, g, n, o)
      BY <2>1, <2>3, <1>1 DEF AnswerAt
    <3> QED
      BY <3>1 DEF Waits
  <2> QED
    BY <2>2, <2>3
<1>4. ASSUME Waits(kind, o)
      PROVE  Waits(kind, o)'
  <2>1. PICK g \in Handlers, n \in Nat : AnswerAt(kind, g, n, o)
    BY <1>4 DEF Waits
  <2>2. AnswerAt(kind, g, n, o)'
    BY <2>1, <1>1 DEF AnswerAt
  <2> QED
    BY <2>1, <2>2 DEF Waits
<1>5. ASSUME e.kind = kind, o \in e.orders
      PROVE  Waits(kind, o)'
  <2>1. PICK l \in Nat : l = last
    BY <1>2
  <2>2. AnswerAt(kind, h, l, o)'
    BY <2>1, <1>1, <1>5 DEF AnswerAt
  <2> QED
    BY <2>2 DEF Waits
<1> QED
  BY <1>3, <1>4, <1>5

LEMMA TakeWaits ==
  ASSUME Typed, Typed', Told, NEW h \in Handlers, TakeNext(h), NEW kind \in AnswerKinds, NEW o
  PROVE  LET out == NextOut(h).kind = kind /\ o \in NextOut(h).orders
         IN /\ out => Waits(kind, o)
            /\ Waits(kind, o)' <=> Waits(kind, o) /\ ~ out
<1> DEFINE e == NextOut(h)
<1>1. /\ 1 \in DOMAIN outbox[h] /\ e = outbox[h][1]
      /\ \A g \in Handlers, n \in Nat :
              n \in DOMAIN outbox'[g] =>
                LET k == IF g = h THEN n + 1 ELSE n
                IN k \in DOMAIN outbox[g] /\ outbox'[g][n] = outbox[g][k]
  BY PoppedOne
<1> HIDE DEF e
<1>2. (e.kind = kind /\ o \in e.orders) => AnswerAt(kind, h, 1, o)
  BY <1>1 DEF AnswerAt
<1>3. ASSUME Waits(kind, o)'
      PROVE  Waits(kind, o) /\ ~ (e.kind = kind /\ o \in e.orders)
  <2>1. PICK g \in Handlers, n \in Nat : AnswerAt(kind, g, n, o)'
    BY <1>3 DEF Waits
  <2> DEFINE k == IF g = h THEN n + 1 ELSE n
  <2>2. k \in Nat /\ AnswerAt(kind, g, k, o)
    BY <2>1, <1>1 DEF AnswerAt
  <2>3. n # 0
    <3>1. outbox'[g] \in Seq(Events)
      BY DEF Typed, TypeOK
    <3> QED
      BY <3>1, <2>1, LenProperties DEF AnswerAt
  <2>4. g = h => k # 1
    BY <2>3
  <2> HIDE DEF k
  <2>5. ~ AnswerAt(kind, h, 1, o)
    BY <2>2, <2>4, AnswerUnique
  <2> QED
    BY <2>2, <2>5, <1>2 DEF Waits
<1>4. ASSUME Waits(kind, o), ~ (e.kind = kind /\ o \in e.orders)
      PROVE  Waits(kind, o)'
  <2>1. PICK g \in Handlers, k \in Nat : AnswerAt(kind, g, k, o)
    BY <1>4 DEF Waits
  <2>2. g = h => k # 1
    BY <2>1, <1>1, <1>4 DEF AnswerAt
  <2>3. PICK n \in Nat : n \in DOMAIN outbox'[g] /\ outbox'[g][n] = outbox[g][k]
    BY <2>1, <2>2, PoppedBack DEF AnswerAt
  <2>4. AnswerAt(kind, g, n, o)'
    BY <2>1, <2>3 DEF AnswerAt
  <2> QED
    BY <2>4 DEF Waits
<1>5. (e.kind = kind /\ o \in e.orders) => Waits(kind, o)
  BY <1>2 DEF Waits
<1> QED
  BY <1>3, <1>4, <1>5 DEF e


-----------------------------------------------------------------------------
(* What the contract says of it *)

AsTrade(e) == [id |-> e.id, legs |-> e.orders, quantity |-> e.quantity]
Made == {AsTrade(e) : e \in trades \cup ToPublish("trade.executed")}
CancelledSoFar == [o \in Orders |-> cancelled[o] + OnTheWay("order.cancelled", o)]
RejectedSoFar == [o \in Orders |-> cancelRejected[o] + OnTheWay("order.cancel_rejected", o)]

\* A step that sends and publishes nothing.
LEMMA BusFrame ==
  ASSUME UNCHANGED <<outbox, bus>>
  PROVE  UNCHANGED <<Made, CancelledSoFar, RejectedSoFar>>
<1>1. \A kind : UNCHANGED ToPublish(kind)
  BY DEF ToPublish
<1>2. \A kind, o : UNCHANGED OnTheWay(kind, o)
  BY <1>1 DEF OnTheWay
<1>3. Made' = Made
  BY <1>1 DEF Made, bus
<1> HIDE DEF bus
<1>4. cancelled' = cancelled /\ cancelRejected' = cancelRejected
  BY DEF bus
<1>5. CancelledSoFar' = CancelledSoFar
  BY <1>2, <1>4, Zenon DEF CancelledSoFar
<1>6. RejectedSoFar' = RejectedSoFar
  BY <1>2, <1>4, Zenon DEF RejectedSoFar
<1> QED
  BY <1>3, <1>5, <1>6

\* What one more event to publish adds.
LEMMA EmitMade ==
  ASSUME Typed, Typed', NEW h \in Handlers, NEW e \in Events, Emit(h, <<e>>), UNCHANGED trades
  PROVE  Made' = IF IsTrade(e) THEN Made \cup {AsTrade(e)} ELSE Made
<1> DEFINE last == Len(outbox[h]) + 1
<1>1. \A g \in Handlers, n \in Nat :
        IF g = h
        THEN /\ n \in DOMAIN outbox'[h] <=> n \in DOMAIN outbox[h] \/ n = last
             /\ n \in DOMAIN outbox[h] => outbox'[h][n] = outbox[h][n]
             /\ outbox'[h][last] = e
             /\ last \notin DOMAIN outbox[h]
        ELSE outbox'[g] = outbox[g]
  BY EmittedOne
<1>2. last \in Nat
  BY EmittedOne, LenProperties DEF Typed, TypeOK
<1> HIDE DEF last
<1> DEFINE kind == "trade.executed"
<1>3. ASSUME NEW x
      PROVE  x \in ToPublish(kind)' <=> x \in ToPublish(kind) \/ (x = e /\ IsTrade(e))
  <2>1. x \in ToPublish(kind) <=>
          \E g \in Handlers, n \in Nat : n \in DOMAIN outbox[g] /\ x = outbox[g][n] /\ x.kind = kind
    BY PlaceInOutbox
  <2>2. x \in ToPublish(kind)' <=>
          \E g \in Handlers, n \in Nat : n \in DOMAIN outbox'[g] /\ x = outbox'[g][n] /\ x.kind = kind
    BY PlaceInOutboxNext DEF Placing
  <2>3. ASSUME NEW g \in Handlers, NEW n \in Nat, n \in DOMAIN outbox'[g], x = outbox'[g][n], x.kind = kind
        PROVE  x \in ToPublish(kind) \/ (x = e /\ IsTrade(e))
    <3>1. CASE g = h /\ n = last
      BY <2>3, <3>1, <1>1 DEF IsTrade
    <3>2. CASE ~ (g = h /\ n = last)
      <4>1. n \in DOMAIN outbox[g] /\ x = outbox[g][n]
        BY <2>3, <3>2, <1>1
      <4> QED
        BY <4>1, <2>1, <2>3
    <3> QED
      BY <3>1, <3>2
  <2>4. ASSUME NEW g \in Handlers, NEW n \in Nat, n \in DOMAIN outbox[g], x = outbox[g][n], x.kind = kind
        PROVE  x \in ToPublish(kind)'
    <3>1. n \in DOMAIN outbox'[g] /\ x = outbox'[g][n]
      BY <2>4, <1>1
    <3> QED
      BY <3>1, <2>2, <2>4
  <2>5. (x = e /\ IsTrade(e)) => x \in ToPublish(kind)'
    BY <1>1, <1>2, <2>2 DEF IsTrade
  <2> QED
    BY <2>1, <2>2, <2>3, <2>4, <2>5
<1> DEFINE P == ToPublish("trade.executed")
           Q == ToPublish("trade.executed")'
<1>4. Q = IF IsTrade(e) THEN P \cup {e} ELSE P
  BY <1>3
<1>5. Made = {AsTrade(x) : x \in trades \cup P} /\ Made' = {AsTrade(x) : x \in trades \cup Q}
  BY DEF Made, AsTrade
<1> HIDE DEF P, Q, kind, AsTrade
<1>6. CASE IsTrade(e)
  <2>1. Q = P \cup {e}
    BY <1>4, <1>6
  <2> QED
    BY <2>1, <1>5, <1>6
<1>7. CASE ~ IsTrade(e)
  BY <1>4, <1>5, <1>7
<1> QED
  BY <1>6, <1>7

LEMMA EmitAnswered ==
  ASSUME Typed, Typed', Told, Told', NEW h \in Handlers, NEW e \in Events, Emit(h, <<e>>),
         UNCHANGED <<cancelled, cancelRejected>>,
         \A kind \in AnswerKinds : e.kind = kind => \A o \in e.orders : ~ Waits(kind, o)
  PROVE  \A o \in Orders :
           /\ CancelledSoFar'[o] = CancelledSoFar[o] + IF IsCancel(e) /\ o \in e.orders THEN 1 ELSE 0
           /\ RejectedSoFar'[o] = RejectedSoFar[o]
                + IF e.kind = "order.cancel_rejected" /\ o \in e.orders THEN 1 ELSE 0
<1> SUFFICES ASSUME NEW o \in Orders
             PROVE  /\ CancelledSoFar'[o] = CancelledSoFar[o] + IF IsCancel(e) /\ o \in e.orders THEN 1 ELSE 0
                    /\ RejectedSoFar'[o] = RejectedSoFar[o]
                         + IF e.kind = "order.cancel_rejected" /\ o \in e.orders THEN 1 ELSE 0
  OBVIOUS
<1>1. ASSUME NEW kind \in AnswerKinds
      PROVE  OnTheWay(kind, o)' = OnTheWay(kind, o) + IF e.kind = kind /\ o \in e.orders THEN 1 ELSE 0
  <2> DEFINE now == OnTheWay(kind, o)
             then == OnTheWay(kind, o)'
             was == Waits(kind, o)
             is == Waits(kind, o)'
             new == e.kind = kind /\ o \in e.orders
  <2>1. now = IF was THEN 1 ELSE 0
    BY OnTheWayIs
  <2>2. then = IF is THEN 1 ELSE 0
    BY OnTheWayIsNext DEF Counting
  <2>3. is <=> was \/ new
    BY EmitWaits
  <2>4. ~ (was /\ new)
    OBVIOUS
  <2> HIDE DEF now, then, was, is, new
  <2>5. then = now + IF new THEN 1 ELSE 0
    BY <2>1, <2>2, <2>3, <2>4
  <2> QED
    BY <2>5 DEF now, then, new
<1>2. /\ CancelledSoFar[o] = cancelled[o] + OnTheWay("order.cancelled", o)
      /\ CancelledSoFar'[o] = cancelled'[o] + OnTheWay("order.cancelled", o)'
      /\ RejectedSoFar[o] = cancelRejected[o] + OnTheWay("order.cancel_rejected", o)
      /\ RejectedSoFar'[o] = cancelRejected'[o] + OnTheWay("order.cancel_rejected", o)'
  BY DEF CancelledSoFar, RejectedSoFar
<1>3. /\ cancelled[o] \in Nat /\ cancelRejected[o] \in Nat
      /\ \A kind \in AnswerKinds : OnTheWay(kind, o) \in Nat
  <2>1. \A kind \in AnswerKinds : OnTheWay(kind, o) \in {0, 1}
    BY OnTheWayIs
  <2>2. cancelled[o] \in Nat /\ cancelRejected[o] \in Nat
    BY DEF Typed, TypeOK
  <2>3. {0, 1} \subseteq Nat
    OBVIOUS
  <2> QED
    BY <2>1, <2>2, <2>3, Zenon
<1>4. "order.cancelled" \in AnswerKinds /\ "order.cancel_rejected" \in AnswerKinds
  BY DEF AnswerKinds
<1> DEFINE c == OnTheWay("order.cancelled", o)
           d == OnTheWay("order.cancelled", o)'
           a == OnTheWay("order.cancel_rejected", o)
           b == OnTheWay("order.cancel_rejected", o)'
<1>5. /\ d = c + IF e.kind = "order.cancelled" /\ o \in e.orders THEN 1 ELSE 0
      /\ b = a + IF e.kind = "order.cancel_rejected" /\ o \in e.orders THEN 1 ELSE 0
      /\ a \in Nat /\ c \in Nat
  BY <1>1, <1>3, <1>4
<1> HIDE DEF a, b, c, d
<1>6. /\ CancelledSoFar[o] = cancelled[o] + c /\ CancelledSoFar'[o] = cancelled[o] + d
      /\ RejectedSoFar[o] = cancelRejected[o] + a /\ RejectedSoFar'[o] = cancelRejected[o] + b
  BY <1>2 DEF a, b, c, d
<1> QED
  BY <1>3, <1>5, <1>6 DEF IsCancel

\* What an event that is taken out of the outbox leaves.
LEMMA TakeMade ==
  ASSUME Typed, Typed', Told, NEW h \in Handlers, TakeNext(h)
  PROVE  LET e == NextOut(h)
         IN /\ trades' = (IF IsTrade(e) THEN trades \cup {e} ELSE trades) => Made' = Made
            /\ trades' = trades => Made' = IF IsTrade(e) THEN Made \ {AsTrade(e)} ELSE Made
            /\ IsTrade(e) => AsTrade(e) \in Made
<1> DEFINE e == NextOut(h)
           P == ToPublish("trade.executed")
           Q == ToPublish("trade.executed")'
<1>1. /\ 1 \in DOMAIN outbox[h] /\ e = outbox[h][1]
      /\ \A g \in Handlers, n \in Nat :
              n \in DOMAIN outbox'[g] =>
                LET k == IF g = h THEN n + 1 ELSE n
                IN k \in DOMAIN outbox[g] /\ outbox'[g][n] = outbox[g][k]
  BY PoppedOne
<1>2. \A x : /\ x \in P <=> \E g \in Handlers, n \in Nat :
                              n \in DOMAIN outbox[g] /\ x = outbox[g][n] /\ IsTrade(x)
             /\ x \in Q <=> \E g \in Handlers, n \in Nat :
                              n \in DOMAIN outbox'[g] /\ x = outbox'[g][n] /\ IsTrade(x)
  BY PlaceInOutbox, PlaceInOutboxNext DEF Placing, IsTrade
<1> HIDE DEF e, P, Q
<1>3. ASSUME NEW x \in Q
      PROVE  x \in P /\ (IsTrade(e) => x.id # e.id)
  <2>1. PICK g \in Handlers, n \in Nat : n \in DOMAIN outbox'[g] /\ x = outbox'[g][n] /\ IsTrade(x)
    BY <1>2
  <2> DEFINE k == IF g = h THEN n + 1 ELSE n
  <2>2. k \in Nat /\ k \in DOMAIN outbox[g] /\ x = outbox[g][k]
    BY <2>1, <1>1
  <2>3. n # 0
    <3>1. outbox'[g] \in Seq(Events)
      BY DEF Typed, TypeOK
    <3> QED
      BY <3>1, <2>1, LenProperties
  <2>4. g = h => k # 1
    BY <2>3
  <2> HIDE DEF k
  <2>5. x \in P
    BY <1>2, <2>1, <2>2
  <2>6. ASSUME IsTrade(e), x.id = e.id
        PROVE  FALSE
    <3>1. g = "accepted" /\ h = "accepted"
      BY <2>1, <2>2, <2>6, <1>1 DEF Told, Waiting, Handlers
    <3>2. TradeAt(k) /\ TradeAt(1) /\ outbox["accepted"][k].id = outbox["accepted"][1].id
      BY <3>1, <2>1, <2>2, <2>6, <1>1 DEF TradeAt
    <3>3. k = 1
      BY <3>2, <2>2 DEF Told, TradeIds
    <3> QED
      BY <3>1, <3>3, <2>4
  <2> QED
    BY <2>5, <2>6
<1>4. IsTrade(e) => e \in P
  BY <1>1, <1>2
<1>5. ASSUME IsTrade(e), NEW t \in trades
      PROVE  t.id # e.id
  <2>1. h = "accepted"
    BY <1>1, <1>5 DEF Told, Waiting, Handlers
  <2>2. TradeAt(1) /\ e = outbox["accepted"][1]
    BY <2>1, <1>1, <1>5 DEF TradeAt
  <2> QED
    BY <2>2 DEF Told, TradeIds
<1>6. ASSUME NEW x \in P
      PROVE  x \in Q \/ (x = e /\ IsTrade(e))
  <2>1. PICK g \in Handlers, k \in Nat : k \in DOMAIN outbox[g] /\ x = outbox[g][k] /\ IsTrade(x)
    BY <1>2
  <2>2. CASE g = h /\ k = 1
    BY <2>1, <2>2, <1>1
  <2>3. CASE ~ (g = h /\ k = 1)
    <3>1. PICK n \in Nat : n \in DOMAIN outbox'[g] /\ outbox'[g][n] = outbox[g][k]
      BY <2>1, <2>3, PoppedBack
    <3> QED
      BY <3>1, <2>1, <1>2
  <2> QED
    BY <2>2, <2>3
<1>7. Made = {AsTrade(x) : x \in trades \cup P} /\ Made' = {AsTrade(x) : x \in trades' \cup Q}
  BY DEF Made, AsTrade, P, Q
<1>8. \A x : AsTrade(x) = AsTrade(e) => x.id = e.id
  BY DEF AsTrade
<1> HIDE DEF AsTrade
<1>9. P = IF IsTrade(e) THEN Q \cup {e} ELSE Q
  BY <1>3, <1>4, <1>6
<1>10. trades' = (IF IsTrade(e) THEN trades \cup {e} ELSE trades) => Made' = Made
  <2>1. ASSUME trades' = (IF IsTrade(e) THEN trades \cup {e} ELSE trades)
        PROVE  trades' \cup Q = trades \cup P
    BY <2>1, <1>9
  <2> QED
    BY <2>1, <1>7
<1>11. trades' = trades => Made' = IF IsTrade(e) THEN Made \ {AsTrade(e)} ELSE Made
  <2> SUFFICES ASSUME trades' = trades
               PROVE  Made' = IF IsTrade(e) THEN Made \ {AsTrade(e)} ELSE Made
    OBVIOUS
  <2>1. CASE ~ IsTrade(e)
    <3>1. P = Q
      BY <2>1, <1>9
    <3> QED
      BY <3>1, <2>1, <1>7
  <2>2. CASE IsTrade(e)
    <3>1. P = Q \cup {e}
      BY <2>2, <1>9
    <3>2. Made = Made' \cup {AsTrade(e)}
      BY <3>1, <1>7
    <3>3. AsTrade(e) \notin Made'
      <4>1. \A x \in trades \cup Q : x.id # e.id
        BY <2>2, <1>3, <1>5
      <4> QED
        BY <4>1, <1>7, <1>8
    <3>4. Made' = Made \ {AsTrade(e)}
      BY <3>2, <3>3
    <3> QED
      BY <3>4, <2>2
  <2> QED
    BY <2>1, <2>2
<1>12. IsTrade(e) => AsTrade(e) \in Made
  BY <1>4, <1>7
<1> QED
  BY <1>10, <1>11, <1>12 DEF e

LEMMA TakeAnswered ==
  ASSUME Typed, Typed', Told, Told', NEW h \in Handlers, TakeNext(h), NEW o \in Orders
  PROVE  LET e == NextOut(h)
             outCancel == IsCancel(e) /\ o \in e.orders
             outReject == e.kind = "order.cancel_rejected" /\ o \in e.orders
         IN /\ CancelledSoFar[o] \in Nat /\ RejectedSoFar[o] \in Nat
            /\ CancelledSoFar'[o] =
                 CancelledSoFar[o] + (cancelled'[o] - cancelled[o]) - IF outCancel THEN 1 ELSE 0
            /\ RejectedSoFar'[o] =
                 RejectedSoFar[o] + (cancelRejected'[o] - cancelRejected[o]) - IF outReject THEN 1 ELSE 0
            /\ outCancel => CancelledSoFar[o] > 0
            /\ outReject => RejectedSoFar[o] > 0
<1> DEFINE e == NextOut(h)
<1>1. ASSUME NEW kind \in AnswerKinds
      PROVE  LET new == e.kind = kind /\ o \in e.orders
             IN /\ OnTheWay(kind, o)' = OnTheWay(kind, o) - IF new THEN 1 ELSE 0
                /\ OnTheWay(kind, o) \in Nat
                /\ new => OnTheWay(kind, o) = 1
  <2> DEFINE now == OnTheWay(kind, o)
             then == OnTheWay(kind, o)'
             was == Waits(kind, o)
             is == Waits(kind, o)'
             new == e.kind = kind /\ o \in e.orders
  <2>1. now = IF was THEN 1 ELSE 0
    BY OnTheWayIs
  <2>2. then = IF is THEN 1 ELSE 0
    BY OnTheWayIsNext DEF Counting
  <2>3. (is <=> was /\ ~ new) /\ (new => was)
    BY TakeWaits
  <2> HIDE DEF now, then, was, is, new
  <2>4. then = (now - IF new THEN 1 ELSE 0) /\ now \in Nat /\ (new => now = 1)
    BY <2>1, <2>2, <2>3
  <2> QED
    BY <2>4 DEF now, then, new
<1>2. /\ CancelledSoFar[o] = cancelled[o] + OnTheWay("order.cancelled", o)
      /\ CancelledSoFar'[o] = cancelled'[o] + OnTheWay("order.cancelled", o)'
      /\ RejectedSoFar[o] = cancelRejected[o] + OnTheWay("order.cancel_rejected", o)
      /\ RejectedSoFar'[o] = cancelRejected'[o] + OnTheWay("order.cancel_rejected", o)'
  BY DEF CancelledSoFar, RejectedSoFar
<1>3. /\ cancelled[o] \in Nat /\ cancelRejected[o] \in Nat
      /\ cancelled'[o] \in Nat /\ cancelRejected'[o] \in Nat
  BY DEF Typed, TypeOK
<1>4. "order.cancelled" \in AnswerKinds /\ "order.cancel_rejected" \in AnswerKinds
  BY DEF AnswerKinds
<1> DEFINE c == OnTheWay("order.cancelled", o)
           d == OnTheWay("order.cancelled", o)'
           a == OnTheWay("order.cancel_rejected", o)
           b == OnTheWay("order.cancel_rejected", o)'
           outCancel == IsCancel(e) /\ o \in e.orders
           outReject == e.kind = "order.cancel_rejected" /\ o \in e.orders
<1>5. /\ d = (c - IF outCancel THEN 1 ELSE 0) /\ c \in Nat /\ (outCancel => c = 1)
      /\ b = (a - IF outReject THEN 1 ELSE 0) /\ a \in Nat /\ (outReject => a = 1)
  BY <1>1, <1>4 DEF IsCancel
<1> HIDE DEF a, b, c, d, outCancel, outReject
<1>6. /\ CancelledSoFar[o] = cancelled[o] + c /\ CancelledSoFar'[o] = cancelled'[o] + d
      /\ RejectedSoFar[o] = cancelRejected[o] + a /\ RejectedSoFar'[o] = cancelRejected'[o] + b
  BY <1>2 DEF a, b, c, d
<1>7. /\ CancelledSoFar[o] \in Nat /\ RejectedSoFar[o] \in Nat
      /\ CancelledSoFar'[o] =
           CancelledSoFar[o] + (cancelled'[o] - cancelled[o]) - IF outCancel THEN 1 ELSE 0
      /\ RejectedSoFar'[o] =
           RejectedSoFar[o] + (cancelRejected'[o] - cancelRejected[o]) - IF outReject THEN 1 ELSE 0
      /\ outCancel => CancelledSoFar[o] > 0
      /\ outReject => RejectedSoFar[o] > 0
  BY <1>3, <1>5, <1>6
<1> QED
  BY <1>7 DEF e, outCancel, outReject


-----------------------------------------------------------------------------
(* Every step is one of the contract, or none of its business *)

LEMMA InitIsContract == ASSUME Init PROVE Contract!EngineInit
<1>1. /\ Typed /\ Told
  BY TypeInit, ToldInit
<1>2. \A h \in Handlers : outbox[h] = <<>> /\ DOMAIN outbox[h] = {}
  BY EmptyDomain DEF Init
<1>3. \A kind : ToPublish(kind) = {}
  BY <1>2 DEF ToPublish
<1>4. \A kind, o : ~ Waits(kind, o)
  BY <1>2 DEF Waits, AnswerAt
<1>5. \A o : OnTheWay("order.cancelled", o) = 0 /\ OnTheWay("order.cancel_rejected", o) = 0
  BY <1>1, <1>4, OnTheWayIs DEF AnswerKinds
<1>6. Made = {}
  BY <1>3 DEF Made, Init
<1>7. \A o \in Orders : cancelled[o] = 0 /\ cancelRejected[o] = 0
  BY DEF Init
<1>8. CancelledSoFar = [o \in Orders |-> 0] /\ RejectedSoFar = [o \in Orders |-> 0]
  <2>1. \A o \in Orders : cancelled[o] + OnTheWay("order.cancelled", o) = 0
                          /\ cancelRejected[o] + OnTheWay("order.cancel_rejected", o) = 0
    <3> SUFFICES ASSUME NEW o \in Orders
                 PROVE  cancelled[o] + OnTheWay("order.cancelled", o) = 0
                        /\ cancelRejected[o] + OnTheWay("order.cancel_rejected", o) = 0
      OBVIOUS
    <3> DEFINE c == OnTheWay("order.cancelled", o)
               d == OnTheWay("order.cancel_rejected", o)
    <3>1. c = 0 /\ d = 0
      BY <1>5
    <3> HIDE DEF c, d
    <3>2. cancelled[o] + c = 0 /\ cancelRejected[o] + d = 0
      BY <3>1, <1>7
    <3> QED
      BY <3>2 DEF c, d
  <2> QED
    BY <2>1, Zenon DEF CancelledSoFar, RejectedSoFar
<1>9. ToSet(seen) = {}
  BY EmptyDomain DEF Init, ToSet
<1> QED
  BY <1>6, <1>8, <1>9 DEF Init, Contract!EngineInit, Made, AsTrade, CancelledSoFar, RejectedSoFar

\* What the contract has no name for.
LEMMA ContractStutters ==
  ASSUME UNCHANGED <<accepted, cancelRequests, Made, CancelledSoFar, RejectedSoFar, ToSet(seen), left,
                     traded, lost, lostAnswers, restarted, tradeCount, faults>>
  PROVE  UNCHANGED Contract!engineVars
  BY DEF Contract!engineVars, Made, AsTrade, CancelledSoFar, RejectedSoFar

\* A step outside the engine.
LEMMA EnvIsContract ==
  ASSUME UNCHANGED <<outbox, bus, seen, left, traded, lost, lostAnswers, restarted, tradeCount>>,
         UNCHANGED faults \/ Fault,
         \/ /\ \E m \in accepted' : m.quantity \in 1..Quantity[m.order] /\ accepted' = accepted \cup {m}
            /\ UNCHANGED cancelRequests
         \/ /\ \E o \in Orders : cancelRequests' = [cancelRequests EXCEPT ![o] = @ + 1]
            /\ UNCHANGED accepted
  PROVE  Contract!EnvStep
<1>1. UNCHANGED <<Made, CancelledSoFar, RejectedSoFar>>
  BY BusFrame
<1>2. UNCHANGED <<Contract!book, Contract!engineHistory>>
  BY DEF Contract!book, Contract!engineHistory
<1>3. UNCHANGED faults \/ Contract!EngineFault
  BY DEF Fault, Contract!EngineFault
<1> QED
  BY <1>1, <1>2, <1>3 DEF Contract!EnvStep, Contract!Put, Made, AsTrade, CancelledSoFar, RejectedSoFar

LEMMA NewToContract ==
  ASSUME Sound, matching = NoOrder, NEW o \in Orders
  PROVE  IsKnown(o) <=> ~ Contract!IsNew(o)
<1>1. Contains(seen, o) <=> o \in ToSet(seen)
  BY KnownIsSeen DEF Sound, Base
<1>2. left[o] \in Nat /\ index \subseteq ToSet(seen)
  BY DEF Sound, Base, Typed, TypeOK, Live, Arrivals
<1>3. left[o] > 0 => o \in index
  BY OrderAssumption DEF Sound, Base, Book
<1> QED
  BY <1>1, <1>2, <1>3 DEF IsKnown, Contract!IsNew

LEMMA IgnoreIsContract ==
  ASSUME Sound, NEW m \in accepted, IgnoreDuplicate(m)
  PROVE  Contract!AcceptOrder(m)
<1>1. m.order \in Orders /\ matching = NoOrder
  BY DEF Sound, Base, Typed, TypeOK, Messages, IgnoreDuplicate, Free
<1>2. ~ Contract!IsNew(m.order)
  BY <1>1, NewToContract DEF IgnoreDuplicate
<1>3. UNCHANGED <<Made, CancelledSoFar, RejectedSoFar>>
  BY BusFrame DEF IgnoreDuplicate
<1>4. /\ UNCHANGED <<cancelRequests, seen, left, traded, lost, lostAnswers, restarted, tradeCount, faults>>
      /\ accepted' = accepted \ {m}
  BY DEF IgnoreDuplicate, book, history
<1> QED
  BY <1>2, <1>3, <1>4 DEF Contract!AcceptOrder, Contract!book, Contract!engineHistory,
     Made, AsTrade, CancelledSoFar, RejectedSoFar

LEMMA BeginIsContract ==
  ASSUME NobodyForgotten, Sound, NEW m \in accepted, BeginMatch(m)
  PROVE  Contract!AcceptOrder(m)
<1>1. m.order \in Orders /\ ToSet(seen') = ToSet(seen) \cup {m.order}
  BY BeginMatchArrivals DEF Sound, Live
<1>2. Contract!IsNew(m.order)
  BY <1>1, NewToContract DEF BeginMatch, Free
<1>3. UNCHANGED <<Made, CancelledSoFar, RejectedSoFar>>
  BY BusFrame DEF BeginMatch
<1>4. /\ UNCHANGED <<cancelRequests, traded, lost, lostAnswers, restarted, tradeCount, faults>>
      /\ accepted' = accepted \ {m} /\ left' = [left EXCEPT ![m.order] = m.quantity]
  BY DEF BeginMatch, history
<1> QED
  BY <1>1, <1>2, <1>3, <1>4 DEF Contract!AcceptOrder, Contract!book, Contract!engineHistory,
     Made, AsTrade, CancelledSoFar, RejectedSoFar

LEMMA PairSize ==
  ASSUME NEW a, NEW b, a # b
  PROVE  Cardinality({a, b}) = 2
<1>1. IsFiniteSet({a}) /\ Cardinality({a}) = 1
  BY FS_Singleton
<1>2. Cardinality({a} \cup {b}) = Cardinality({a}) + 1
  BY <1>1, FS_AddElement
<1>3. {a} \cup {b} = {a, b}
  OBVIOUS
<1> QED
  BY <1>1, <1>2, <1>3

LEMMA ContractSize == \A S : Contract!Cardinality(S) = Cardinality(S)
  BY DEF Contract!Cardinality, Cardinality


LEMMA CountsTyped ==
  ASSUME Typed, Told
  PROVE  \A o \in Orders : CancelledSoFar[o] \in Nat /\ RejectedSoFar[o] \in Nat
<1> SUFFICES ASSUME NEW o \in Orders
             PROVE  CancelledSoFar[o] \in Nat /\ RejectedSoFar[o] \in Nat
  OBVIOUS
<1> DEFINE c == OnTheWay("order.cancelled", o)
           d == OnTheWay("order.cancel_rejected", o)
<1>1. c \in {0, 1} /\ d \in {0, 1}
  BY OnTheWayIs DEF AnswerKinds
<1>2. cancelled[o] \in Nat /\ cancelRejected[o] \in Nat
  BY DEF Typed, TypeOK
<1> HIDE DEF c, d
<1>3. cancelled[o] + c \in Nat /\ cancelRejected[o] + d \in Nat
  BY <1>1, <1>2
<1> QED
  BY <1>3 DEF c, d, CancelledSoFar, RejectedSoFar

\* Two counts are the same when they are the same for every order.
LEMMA CountsAre ==
  /\ \A f : CancelledSoFar' = [CancelledSoFar EXCEPT ![f] = @ + 1] <=>
       \A o \in Orders : CancelledSoFar'[o] = IF o = f THEN CancelledSoFar[f] + 1 ELSE CancelledSoFar[o]
  /\ \A f : RejectedSoFar' = [RejectedSoFar EXCEPT ![f] = @ + 1] <=>
       \A o \in Orders : RejectedSoFar'[o] = IF o = f THEN RejectedSoFar[f] + 1 ELSE RejectedSoFar[o]
  /\ \A f : CancelledSoFar' = [CancelledSoFar EXCEPT ![f] = @ - 1] <=>
       \A o \in Orders : CancelledSoFar'[o] = IF o = f THEN CancelledSoFar[f] - 1 ELSE CancelledSoFar[o]
  /\ \A f : RejectedSoFar' = [RejectedSoFar EXCEPT ![f] = @ - 1] <=>
       \A o \in Orders : RejectedSoFar'[o] = IF o = f THEN RejectedSoFar[f] - 1 ELSE RejectedSoFar[o]
  /\ CancelledSoFar' = CancelledSoFar <=> \A o \in Orders : CancelledSoFar'[o] = CancelledSoFar[o]
  /\ RejectedSoFar' = RejectedSoFar <=> \A o \in Orders : RejectedSoFar'[o] = RejectedSoFar[o]
<1> DEFINE C == CancelledSoFar
           D == CancelledSoFar'
           R == RejectedSoFar
           S == RejectedSoFar'
<1>1. /\ C = [o \in Orders |-> C[o]] /\ D = [o \in Orders |-> D[o]]
      /\ R = [o \in Orders |-> R[o]] /\ S = [o \in Orders |-> S[o]]
  BY DEF CancelledSoFar, RejectedSoFar
<1> HIDE DEF C, D, R, S
<1>2. /\ \A f : D = [C EXCEPT ![f] = @ + 1] <=>
            \A o \in Orders : D[o] = IF o = f THEN C[f] + 1 ELSE C[o]
      /\ \A f : D = [C EXCEPT ![f] = @ - 1] <=>
            \A o \in Orders : D[o] = IF o = f THEN C[f] - 1 ELSE C[o]
      /\ D = C <=> \A o \in Orders : D[o] = C[o]
  BY <1>1
<1>3. /\ \A f : S = [R EXCEPT ![f] = @ + 1] <=>
            \A o \in Orders : S[o] = IF o = f THEN R[f] + 1 ELSE R[o]
      /\ \A f : S = [R EXCEPT ![f] = @ - 1] <=>
            \A o \in Orders : S[o] = IF o = f THEN R[f] - 1 ELSE R[o]
      /\ S = R <=> \A o \in Orders : S[o] = R[o]
  BY <1>1
<1> QED
  BY <1>2, <1>3 DEF C, D, R, S

\* match: the order under match trades with a resting one.
LEMMA MatchOneIsContract ==
  ASSUME Sound, Told, NEW r \in Orders, MatchOne(r)
  PROVE  \E legs \in Contract!Legs, q \in 1..MaxQuantity : Contract!Trade(legs, q)
<1>0. PICK i \in Orders : i = matching /\ r \in index /\ r # i /\ r \in Candidates(i)
  BY MatchOneTrades DEF Sound, Base
<1>1. PICK q \in Nat \ {0} :
        /\ q = TradeQuantity(matching, r) /\ q <= left[i] /\ q <= left[r]
        /\ left' = [o \in Orders |-> IF o \in {i, r} THEN left[o] - q ELSE left[o]]
        /\ traded' = [o \in Orders |-> IF o \in {i, r} THEN traded[o] + q ELSE traded[o]]
  BY <1>0, MatchOneTrades DEF Sound, Base
<1> DEFINE e == Event("trade.executed", {i, r}, q)
<1>2. /\ Typed /\ Typed' /\ Told' /\ left \in [Orders -> Nat]
  BY MatchOneSound, MatchOneTold DEF Sound, Base, Typed, TypeOK
<1>3. /\ Emit("accepted", <<e>>) /\ tradeCount' = tradeCount + 1
      /\ UNCHANGED <<accepted, cancelRequests, seen, trades, cancelled, cancelRejected, lost,
                     lostAnswers, restarted, faults>>
  BY <1>0, <1>1 DEF MatchOne, bus, inbox
<1>4. e \in Events /\ IsTrade(e) /\ ~ IsCancel(e) /\ e.kind # "order.cancel_rejected"
      /\ AsTrade(e) = [id |-> tradeCount, legs |-> {i, r}, quantity |-> q]
  <2>1. e \in Events
    BY <1>2, EventIsTyped
  <2> QED
    BY <2>1 DEF Event, IsTrade, IsCancel, AsTrade
<1> HIDE DEF e
<1>5. Made' = Made \cup {[id |-> tradeCount, legs |-> {i, r}, quantity |-> q]}
  BY <1>2, <1>3, <1>4, EmitMade, HandlerNames
<1>6. UNCHANGED <<CancelledSoFar, RejectedSoFar>>
  <2>1. \A kind \in AnswerKinds : e.kind # kind
    BY <1>4 DEF AnswerKinds, IsTrade
  <2>2. \A o \in Orders : CancelledSoFar'[o] = CancelledSoFar[o] + 0
                          /\ RejectedSoFar'[o] = RejectedSoFar[o] + 0
    BY <2>1, <1>2, <1>3, <1>4, EmitAnswered, HandlerNames
  <2>3. \A o \in Orders : CancelledSoFar[o] \in Nat /\ RejectedSoFar[o] \in Nat
    BY <1>2, CountsTyped
  <2>4. \A o \in Orders : CancelledSoFar'[o] = CancelledSoFar[o] /\ RejectedSoFar'[o] = RejectedSoFar[o]
    BY <2>2, <2>3
  <2> QED
    BY <2>4, CountsAre
<1>7. {i, r} \in Contract!Legs
  <2>1. left[i] > 0 /\ left[r] > 0
    BY <1>1, <1>2
  <2>2. Contract!Cardinality({i, r}) = 2
    BY <1>0, PairSize, ContractSize
  <2>3. Side[r] = Opposite(Side[i]) /\ Side \in [Orders -> {"BUY", "SELL"}]
    BY <1>0, OrderAssumption DEF Candidates
  <2>4. Side[r] # Side[i]
    BY <2>3 DEF Opposite
  <2> QED
    BY <2>1, <2>2, <2>4 DEF Contract!Legs
<1>8. q \in 1..MaxQuantity
  <2>1. left[i] <= Quantity[i] /\ Quantity[i] \in 1..MaxQuantity /\ left[i] \in Nat /\ MaxQuantity \in Nat
    BY <1>2, OrderAssumption DEF Told, Shape
  <2> QED
    BY <2>1, <1>1
<1>9. Contract!Trade({i, r}, q)
  <2>1. \A o \in {i, r} : left[o] >= q
    BY <1>1, <1>2
  <2> QED
    BY <2>1, <1>1, <1>3, <1>5, <1>6
       DEF Contract!Trade, Made, AsTrade, CancelledSoFar, RejectedSoFar
<1> QED
  BY <1>7, <1>8, <1>9

\* The loop is over: only the rest of a market order matters to the contract.
LEMMA EndMatchIsContract ==
  ASSUME Sound, Told, EndMatch
  PROVE  \/ \E o \in Orders : Contract!CancelRemainder(o)
         \/ UNCHANGED Contract!engineVars
<1>0. PICK i \in Orders : i = matching
  BY EndMatchSound DEF Sound, Base
<1> DEFINE e == Event("order.cancelled", {i}, left[i])
<1>1. /\ Typed /\ Typed' /\ Told' /\ left \in [Orders -> Nat]
  BY EndMatchSound, EndMatchTold DEF Sound, Base, Typed, TypeOK
<1>2. UNCHANGED <<accepted, cancelRequests, seen, trades, cancelled, cancelRejected, traded,
                  tradeCount, lost, lostAnswers, restarted, faults>>
  BY DEF EndMatch, bus, history
<1>3. \/ UNCHANGED <<left, outbox>>
      \/ /\ Type[i] = "MARKET" /\ left[i] > 0 /\ left' = [left EXCEPT ![i] = 0]
         /\ Emit("accepted", <<e>>)
  BY <1>0 DEF EndMatch
<1>4. CASE UNCHANGED <<left, outbox>>
  <2>1. UNCHANGED <<Made, CancelledSoFar, RejectedSoFar>>
    BY <1>2, <1>4, BusFrame DEF bus
  <2> QED
    BY <2>1, <1>2, <1>4, ContractStutters
<1>5. CASE /\ Type[i] = "MARKET" /\ left[i] > 0 /\ left' = [left EXCEPT ![i] = 0]
           /\ Emit("accepted", <<e>>)
  <2>1. e \in Events /\ IsCancel(e) /\ ~ IsTrade(e) /\ e.orders = {i}
        /\ e.kind = "order.cancelled"
    <3>1. e \in Events
      BY <1>1, EventIsTyped
    <3> QED
      BY <3>1 DEF Event, IsCancel, IsTrade
  <2> HIDE DEF e
  <2>2. Made' = Made
    BY <2>1, <1>1, <1>2, <1>5, EmitMade, HandlerNames
  <2>3. ~ Waits("order.cancelled", i)
    <3> SUFFICES ASSUME NEW h \in Handlers, NEW n \in Nat, AnswerAt("order.cancelled", h, n, i)
                 PROVE  FALSE
      BY DEF Waits
    <3>1. h # "accepted"
      BY <1>0, OrderAssumption DEF AnswerAt, Told, Waiting, IsTrade
    <3>2. h # "cancel"
      BY <1>5 DEF AnswerAt, Told, Waiting, IsCancel
    <3> QED
      BY <3>1, <3>2 DEF Handlers
  <2>4. \A o \in Orders :
           /\ CancelledSoFar'[o] = CancelledSoFar[o] + IF o = i THEN 1 ELSE 0
           /\ RejectedSoFar'[o] = RejectedSoFar[o] + 0
    <3>1. \A kind \in AnswerKinds : e.kind = kind => \A o \in e.orders : ~ Waits(kind, o)
      BY <2>1, <2>3
    <3>2. \A o \in Orders :
           /\ CancelledSoFar'[o] = CancelledSoFar[o] + IF IsCancel(e) /\ o \in e.orders THEN 1 ELSE 0
           /\ RejectedSoFar'[o] = RejectedSoFar[o]
                + IF e.kind = "order.cancel_rejected" /\ o \in e.orders THEN 1 ELSE 0
      BY <3>1, <2>1, <1>1, <1>2, <1>5, EmitAnswered, HandlerNames
    <3> QED
      BY <3>2, <2>1
  <2>5. \A o \in Orders : CancelledSoFar[o] \in Nat /\ RejectedSoFar[o] \in Nat
    BY <1>1, CountsTyped
  <2>6. CancelledSoFar' = [CancelledSoFar EXCEPT ![i] = @ + 1] /\ RejectedSoFar' = RejectedSoFar
    <3>1. \A o \in Orders : CancelledSoFar'[o] = (IF o = i THEN CancelledSoFar[i] + 1 ELSE CancelledSoFar[o])
                            /\ RejectedSoFar'[o] = RejectedSoFar[o]
      BY <2>4, <2>5
    <3> QED
      BY <3>1, CountsAre
  <2>7. Contract!CancelRemainder(i)
    BY <2>2, <2>6, <1>2, <1>5
       DEF Contract!CancelRemainder, Contract!Put, Contract!engineHistory,
           Made, AsTrade, CancelledSoFar, RejectedSoFar
  <2> QED
    BY <2>7
<1> QED
  BY <1>3, <1>4, <1>5


LEMMA CancelIsContract ==
  ASSUME Sound, Told, NEW o \in Orders, CancelOrder(o)
  PROVE  Contract!CancelOrder(o)
<1> DEFINE c == Event("order.cancelled", {o}, left[o])
           d == Event("order.cancel_rejected", {o}, 0)
<1>1. /\ Typed /\ Typed' /\ Told' /\ left \in [Orders -> Nat] /\ matching = NoOrder
  BY CancelOrderSound, CancelOrderTold DEF Sound, Base, Typed, TypeOK
<1>2. /\ cancelRequests[o] > 0 /\ outbox["cancel"] = <<>>
      /\ \/ cancelRequests' = [cancelRequests EXCEPT ![o] = @ - 1] /\ UNCHANGED faults
         \/ UNCHANGED cancelRequests /\ Fault
      /\ UNCHANGED <<accepted, seen, trades, cancelled, cancelRejected, traded, tradeCount, lost,
                     lostAnswers, restarted>>
  BY HandlerNames DEF CancelOrder, Free, bus, history, Told, Shape
<1>3. \/ o \in index /\ Emit("cancel", <<c>>) /\ left' = [left EXCEPT ![o] = 0]
      \/ o \notin index /\ Emit("cancel", <<d>>) /\ left' = left
  BY DEF CancelOrder, AnswerTo, book
<1>4. /\ c \in Events /\ IsCancel(c) /\ ~ IsTrade(c) /\ c.orders = {o}
      /\ c.kind = "order.cancelled"
      /\ d \in Events /\ ~ IsCancel(d) /\ ~ IsTrade(d) /\ d.orders = {o}
      /\ d.kind = "order.cancel_rejected"
  <2>1. c \in Events /\ d \in Events
    BY <1>1, EventIsTyped
  <2> QED
    BY <2>1 DEF Event, IsCancel, IsTrade
<1> HIDE DEF c, d
<1>5. (left[o] > 0 <=> o \in index) /\ (left[o] = 0 <=> o \notin index)
  BY <1>1, OrderAssumption DEF Sound, Base, Book
<1>6. left' = [left EXCEPT ![o] = 0]
  BY <1>1, <1>3, <1>5
<1>7. \A kind, n : ~ AnswerAt(kind, "cancel", n, o)
  BY <1>2, EmptyDomain DEF AnswerAt
<1>8. \A r \in Orders : CancelledSoFar[r] \in Nat /\ RejectedSoFar[r] \in Nat
  BY <1>1, CountsTyped
<1>9. CASE o \in index
  <2>1. Emit("cancel", <<c>>)
    BY <1>3, <1>9
  <2>2. ~ Waits("order.cancelled", o)
    <3>1. \A n : ~ AnswerAt("order.cancelled", "accepted", n, o)
      BY <1>9 DEF AnswerAt, Told, Shape, Waiting, IsTrade
    <3> QED
      BY <3>1, <1>7 DEF Waits, Handlers
  <2>3. Made' = Made
    BY <2>1, <1>1, <1>2, <1>4, EmitMade, HandlerNames
  <2>4. \A kind \in AnswerKinds : c.kind = kind => \A r \in c.orders : ~ Waits(kind, r)
    BY <2>2, <1>4
  <2>5. \A r \in Orders :
           /\ CancelledSoFar'[r] = CancelledSoFar[r] + IF IsCancel(c) /\ r \in c.orders THEN 1 ELSE 0
           /\ RejectedSoFar'[r] = RejectedSoFar[r]
                + IF c.kind = "order.cancel_rejected" /\ r \in c.orders THEN 1 ELSE 0
    BY <2>1, <2>4, <1>1, <1>2, <1>4, EmitAnswered, HandlerNames
  <2>6. \A r \in Orders :
           /\ CancelledSoFar'[r] = (IF r = o THEN CancelledSoFar[o] + 1 ELSE CancelledSoFar[r])
           /\ RejectedSoFar'[r] = RejectedSoFar[r]
    BY <2>5, <1>4, <1>8
  <2>7. CancelledSoFar' = [CancelledSoFar EXCEPT ![o] = @ + 1] /\ RejectedSoFar' = RejectedSoFar
    BY <2>6, CountsAre
  <2> QED
    BY <2>3, <2>7, <1>2, <1>5, <1>6, <1>9
       DEF Contract!CancelOrder, Contract!Answer, Contract!Put, Contract!Take, Contract!EngineFault,
           Contract!engineHistory, Fault, Made, AsTrade, CancelledSoFar, RejectedSoFar
<1>10. CASE o \notin index
  <2>1. Emit("cancel", <<d>>)
    BY <1>3, <1>10
  <2>2. ~ Waits("order.cancel_rejected", o)
    <3>1. \A n : ~ AnswerAt("order.cancel_rejected", "accepted", n, o)
      BY DEF AnswerAt, Told, Waiting, IsTrade, IsCancel
    <3> QED
      BY <3>1, <1>7 DEF Waits, Handlers
  <2>3. Made' = Made
    BY <2>1, <1>1, <1>2, <1>4, EmitMade, HandlerNames
  <2>4. \A kind \in AnswerKinds : d.kind = kind => \A r \in d.orders : ~ Waits(kind, r)
    BY <2>2, <1>4
  <2>5. \A r \in Orders :
           /\ CancelledSoFar'[r] = CancelledSoFar[r] + IF IsCancel(d) /\ r \in d.orders THEN 1 ELSE 0
           /\ RejectedSoFar'[r] = RejectedSoFar[r]
                + IF d.kind = "order.cancel_rejected" /\ r \in d.orders THEN 1 ELSE 0
    BY <2>1, <2>4, <1>1, <1>2, <1>4, EmitAnswered, HandlerNames
  <2>6. \A r \in Orders :
           /\ RejectedSoFar'[r] = (IF r = o THEN RejectedSoFar[o] + 1 ELSE RejectedSoFar[r])
           /\ CancelledSoFar'[r] = CancelledSoFar[r]
    BY <2>5, <1>4, <1>8
  <2>7. RejectedSoFar' = [RejectedSoFar EXCEPT ![o] = @ + 1] /\ CancelledSoFar' = CancelledSoFar
    BY <2>6, CountsAre
  <2> QED
    BY <2>3, <2>7, <1>2, <1>5, <1>6, <1>10
       DEF Contract!CancelOrder, Contract!Answer, Contract!Put, Contract!Take, Contract!EngineFault,
           Contract!engineHistory, Fault, Made, AsTrade, CancelledSoFar, RejectedSoFar
<1> QED
  BY <1>9, <1>10

\* What an event that waits is.
LEMMA WaitingEvent ==
  ASSUME Sound, Told, NEW h \in Handlers, TakeNext(h)
  PROVE  LET e == NextOut(h)
         IN /\ e \in Events /\ e.orders \subseteq Orders
            /\ \/ IsTrade(e) /\ ~ IsCancel(e) /\ e.kind # "order.cancel_rejected"
               \/ /\ ~ IsTrade(e) /\ \E o \in Orders : e.orders = {o} /\ About(e) = o
                  /\ \/ IsCancel(e) /\ e.kind # "order.cancel_rejected"
                     \/ ~ IsCancel(e) /\ e.kind = "order.cancel_rejected"
<1> DEFINE e == NextOut(h)
<1>1. 1 \in DOMAIN outbox[h] /\ e = outbox[h][1]
  BY PoppedOne DEF Sound, Base
<1>2. e \in Events
  <2>1. outbox[h] \in Seq(Events)
    BY DEF Sound, Base, Typed, TypeOK
  <2> QED
    BY <1>1, <2>1, LenProperties, ElementOfSeq
<1>3. e.kind \in {"trade.executed", "order.cancelled", "order.cancel_rejected"}
      /\ e.orders \subseteq Orders
  BY <1>2 DEF Events
<1>4. ~ IsTrade(e) => \E o \in Orders : e.orders = {o}
  BY <1>1 DEF Sound, Live, Answers
<1> HIDE DEF e
<1>5. \A o : e.orders = {o} => About(e) = o
  BY DEF About
<1>6. \/ IsTrade(e) /\ ~ IsCancel(e) /\ e.kind # "order.cancel_rejected"
      \/ /\ ~ IsTrade(e)
         /\ \/ IsCancel(e) /\ e.kind # "order.cancel_rejected"
            \/ ~ IsCancel(e) /\ e.kind = "order.cancel_rejected"
  BY <1>3 DEF IsTrade, IsCancel
<1>7. /\ e \in Events /\ e.orders \subseteq Orders
      /\ \/ IsTrade(e) /\ ~ IsCancel(e) /\ e.kind # "order.cancel_rejected"
         \/ /\ ~ IsTrade(e) /\ \E o \in Orders : e.orders = {o} /\ About(e) = o
            /\ \/ IsCancel(e) /\ e.kind # "order.cancel_rejected"
               \/ ~ IsCancel(e) /\ e.kind = "order.cancel_rejected"
  BY <1>2, <1>3, <1>4, <1>5, <1>6
<1> QED
  BY <1>7 DEF e

\* The event was sent as far as the contract is concerned.
LEMMA PublishIsContract ==
  ASSUME Sound, Told, Typed', Told', NEW h \in Handlers, Publish(h)
  PROVE  UNCHANGED Contract!engineVars
<1> DEFINE e == NextOut(h)
<1>1. /\ Typed /\ TakeNext(h)
      /\ UNCHANGED <<accepted, cancelRequests, seen, left, traded, lost, lostAnswers, restarted, tradeCount, faults>>
      /\ trades' = (IF IsTrade(e) THEN trades \cup {e} ELSE trades)
      /\ cancelled' = (IF IsCancel(e) THEN [cancelled EXCEPT ![About(e)] = @ + 1] ELSE cancelled)
      /\ cancelRejected' = (IF IsTrade(e) \/ IsCancel(e) THEN cancelRejected
                            ELSE [cancelRejected EXCEPT ![About(e)] = @ + 1])
  BY DEF Publish, book, history, Sound, Base
<1>2. Made' = Made
  BY <1>1, TakeMade
<1>3. \/ IsTrade(e) /\ ~ IsCancel(e) /\ e.kind # "order.cancel_rejected"
      \/ /\ ~ IsTrade(e) /\ \E o \in Orders : e.orders = {o} /\ About(e) = o
         /\ \/ IsCancel(e) /\ e.kind # "order.cancel_rejected"
            \/ ~ IsCancel(e) /\ e.kind = "order.cancel_rejected"
  BY <1>1, WaitingEvent
<1>4. \A o \in Orders :
        /\ CancelledSoFar[o] \in Nat /\ RejectedSoFar[o] \in Nat
        /\ CancelledSoFar'[o] = CancelledSoFar[o] + (cancelled'[o] - cancelled[o])
             - IF IsCancel(e) /\ o \in e.orders THEN 1 ELSE 0
        /\ RejectedSoFar'[o] = RejectedSoFar[o] + (cancelRejected'[o] - cancelRejected[o])
             - IF e.kind = "order.cancel_rejected" /\ o \in e.orders THEN 1 ELSE 0
  BY <1>1, TakeAnswered
<1>5. cancelled \in [Orders -> Nat] /\ cancelRejected \in [Orders -> Nat]
  BY <1>1 DEF Typed, TypeOK
<1> HIDE DEF e
<1>6. ASSUME NEW o \in Orders
      PROVE  /\ cancelled'[o] - cancelled[o] = IF IsCancel(e) /\ o \in e.orders THEN 1 ELSE 0
             /\ cancelRejected'[o] - cancelRejected[o]
                  = IF e.kind = "order.cancel_rejected" /\ o \in e.orders THEN 1 ELSE 0
  <2>1. cancelled[o] \in Nat /\ cancelRejected[o] \in Nat
    BY <1>5
  <2>2. CASE IsTrade(e)
    BY <2>1, <2>2, <1>1, <1>3
  <2>3. CASE ~ IsTrade(e) /\ IsCancel(e)
    <3>1. PICK r \in Orders : e.orders = {r} /\ About(e) = r
      BY <2>3, <1>3
    <3>2. e.kind # "order.cancel_rejected" /\ cancelRejected' = cancelRejected
          /\ cancelled' = [cancelled EXCEPT ![r] = @ + 1]
      BY <2>3, <3>1, <1>1, <1>3
    <3> QED
      BY <3>1, <3>2, <2>1, <2>3, <1>5
  <2>4. CASE ~ IsTrade(e) /\ ~ IsCancel(e)
    <3>1. PICK r \in Orders : e.orders = {r} /\ About(e) = r
      BY <2>4, <1>3
    <3>2. e.kind = "order.cancel_rejected" /\ cancelled' = cancelled
          /\ cancelRejected' = [cancelRejected EXCEPT ![r] = @ + 1]
      BY <2>4, <3>1, <1>1, <1>3
    <3> QED
      BY <3>1, <3>2, <2>1, <2>4, <1>5
  <2> QED
    BY <2>2, <2>3, <2>4
<1>7. \A o \in Orders : CancelledSoFar'[o] = CancelledSoFar[o] /\ RejectedSoFar'[o] = RejectedSoFar[o]
  <2> SUFFICES ASSUME NEW o \in Orders
               PROVE  CancelledSoFar'[o] = CancelledSoFar[o] /\ RejectedSoFar'[o] = RejectedSoFar[o]
    OBVIOUS
  <2> DEFINE x == IF IsCancel(e) /\ o \in e.orders THEN 1 ELSE 0
             y == IF e.kind = "order.cancel_rejected" /\ o \in e.orders THEN 1 ELSE 0
  <2>1. x \in Nat /\ y \in Nat
    OBVIOUS
  <2>2. cancelled'[o] - cancelled[o] = x /\ cancelRejected'[o] - cancelRejected[o] = y
    BY <1>6
  <2>3. /\ CancelledSoFar[o] \in Nat /\ RejectedSoFar[o] \in Nat
        /\ CancelledSoFar'[o] = CancelledSoFar[o] + (cancelled'[o] - cancelled[o]) - x
        /\ RejectedSoFar'[o] = RejectedSoFar[o] + (cancelRejected'[o] - cancelRejected[o]) - y
    BY <1>4
  <2> HIDE DEF x, y
  <2>4. /\ CancelledSoFar'[o] = CancelledSoFar[o] + x - x
        /\ RejectedSoFar'[o] = RejectedSoFar[o] + y - y
    BY <2>2, <2>3
  <2> QED
    BY <2>1, <2>3, <2>4
<1>8. UNCHANGED <<CancelledSoFar, RejectedSoFar>>
  BY <1>7, CountsAre
<1> QED
  BY <1>1, <1>2, <1>8, ContractStutters


\* What a single event moved of o.
LEMMA TradedInOne ==
  ASSUME NEW e \in Events, NEW o \in Orders
  PROVE  TradedIn(<<e>>, o) = IF IsTrade(e) /\ o \in e.orders THEN e.quantity ELSE 0
<1> DEFINE f == [n \in DOMAIN <<e>> |-> <<e>>[n].quantity]
           S == {n \in DOMAIN <<e>> : IsTrade(<<e>>[n]) /\ o \in <<e>>[n].orders}
<1>1. DOMAIN <<e>> = {1} /\ <<e>>[1] = e
  OBVIOUS
<1>2. f[1] = e.quantity /\ e.quantity \in Int
  BY <1>1, EventTyped
<1>3. S = IF IsTrade(e) /\ o \in e.orders THEN {1} ELSE {}
  BY <1>1 DEF IsTrade
<1>4. TradedIn(<<e>>, o) = SumFunctionOnSet(f, S)
  BY DEF TradedIn
<1> HIDE DEF f, S
<1>5. CASE IsTrade(e) /\ o \in e.orders
  <2>1. S = {} \cup {1}
    BY <1>3, <1>5
  <2>2. SumFunctionOnSet(f, {} \cup {1}) = f[1] + SumFunctionOnSet(f, {})
    BY <1>2, SumAdd, FS_EmptySet
  <2>3. SumFunctionOnSet(f, {}) = 0
    BY SumEmpty
  <2>4. SumFunctionOnSet(f, S) = e.quantity
    BY <2>1, <2>2, <2>3, <1>2
  <2> QED
    BY <2>4, <1>4, <1>5
<1>6. CASE ~ (IsTrade(e) /\ o \in e.orders)
  <2>1. S = {}
    BY <1>3, <1>6
  <2>2. SumFunctionOnSet(f, S) = 0
    BY <2>1, SumEmpty, Zenon
  <2> QED
    BY <2>2, <1>4, <1>6
<1> QED
  BY <1>5, <1>6

\* The event was lost.
LEMMA FailureIsContract ==
  ASSUME Sound, Told, Typed', Told', NEW h \in Handlers, PublishFails(h)
  PROVE  Contract!LoseEvent
<1> DEFINE e == NextOut(h)
<1>1. /\ Typed /\ TakeNext(h) /\ Fault
      /\ UNCHANGED <<accepted, cancelRequests, seen, left, traded, trades, cancelled, cancelRejected,
                     tradeCount, restarted>>
      /\ lost' = [o \in Orders |-> lost[o] + TradedIn(<<e>>, o)]
      /\ lostAnswers' = IF IsTrade(e) THEN lostAnswers ELSE lostAnswers \cup e.orders
  BY DEF PublishFails, book, bus, Sound, Base
<1>2. Made' = (IF IsTrade(e) THEN Made \ {AsTrade(e)} ELSE Made) /\ (IsTrade(e) => AsTrade(e) \in Made)
  BY <1>1, TakeMade
<1>3. /\ e \in Events
      /\ \/ IsTrade(e) /\ ~ IsCancel(e) /\ e.kind # "order.cancel_rejected"
         \/ /\ ~ IsTrade(e) /\ \E o \in Orders : e.orders = {o} /\ About(e) = o
            /\ \/ IsCancel(e) /\ e.kind # "order.cancel_rejected"
               \/ ~ IsCancel(e) /\ e.kind = "order.cancel_rejected"
  BY <1>1, WaitingEvent
<1>4. \A o \in Orders :
        /\ CancelledSoFar[o] \in Nat /\ RejectedSoFar[o] \in Nat
        /\ CancelledSoFar'[o] = CancelledSoFar[o] + (cancelled'[o] - cancelled[o])
             - IF IsCancel(e) /\ o \in e.orders THEN 1 ELSE 0
        /\ RejectedSoFar'[o] = RejectedSoFar[o] + (cancelRejected'[o] - cancelRejected[o])
             - IF e.kind = "order.cancel_rejected" /\ o \in e.orders THEN 1 ELSE 0
        /\ IsCancel(e) /\ o \in e.orders => CancelledSoFar[o] > 0
        /\ e.kind = "order.cancel_rejected" /\ o \in e.orders => RejectedSoFar[o] > 0
  BY <1>1, TakeAnswered
<1>5. /\ cancelled \in [Orders -> Nat] /\ cancelRejected \in [Orders -> Nat]
      /\ lost \in [Orders -> Nat]
  BY <1>1 DEF Typed, TypeOK
<1>6. \A o \in Orders : TradedIn(<<e>>, o) = IF IsTrade(e) /\ o \in e.orders THEN e.quantity ELSE 0
  BY <1>3, TradedInOne
<1>7. Contract!EngineFault
  BY <1>1 DEF Fault, Contract!EngineFault
<1> HIDE DEF e
<1>8. ASSUME NEW o \in Orders
      PROVE  /\ CancelledSoFar'[o] = CancelledSoFar[o] - IF IsCancel(e) /\ o \in e.orders THEN 1 ELSE 0
             /\ RejectedSoFar'[o] = RejectedSoFar[o]
                  - IF e.kind = "order.cancel_rejected" /\ o \in e.orders THEN 1 ELSE 0
  <2> DEFINE x == IF IsCancel(e) /\ o \in e.orders THEN 1 ELSE 0
             y == IF e.kind = "order.cancel_rejected" /\ o \in e.orders THEN 1 ELSE 0
  <2>1. x \in Nat /\ y \in Nat
    OBVIOUS
  <2>2. /\ cancelled[o] \in Nat /\ cancelled'[o] = cancelled[o]
        /\ cancelRejected[o] \in Nat /\ cancelRejected'[o] = cancelRejected[o]
    BY <1>1, <1>5
  <2>3. /\ CancelledSoFar[o] \in Nat /\ RejectedSoFar[o] \in Nat
        /\ CancelledSoFar'[o] = CancelledSoFar[o] + (cancelled'[o] - cancelled[o]) - x
        /\ RejectedSoFar'[o] = RejectedSoFar[o] + (cancelRejected'[o] - cancelRejected[o]) - y
    BY <1>4
  <2> HIDE DEF x, y
  <2>4. CancelledSoFar'[o] = CancelledSoFar[o] - x /\ RejectedSoFar'[o] = RejectedSoFar[o] - y
    BY <2>1, <2>2, <2>3
  <2> QED
    BY <2>4 DEF x, y
<1>9. CASE IsTrade(e)
  <2>1. ~ IsCancel(e) /\ e.kind # "order.cancel_rejected"
    BY <1>3, <1>9
  <2>2. \A o \in Orders : CancelledSoFar'[o] = CancelledSoFar[o] /\ RejectedSoFar'[o] = RejectedSoFar[o]
    BY <2>1, <1>4, <1>8
  <2>3. UNCHANGED <<CancelledSoFar, RejectedSoFar>>
    BY <2>2, CountsAre
  <2>4. AsTrade(e) \in Made /\ Made' = Made \ {AsTrade(e)}
        /\ AsTrade(e).legs = e.orders /\ AsTrade(e).quantity = e.quantity
    BY <1>2, <1>9 DEF AsTrade
  <2>5. lost' = [o \in Orders |-> IF o \in e.orders THEN lost[o] + e.quantity ELSE lost[o]]
    <3>1. \A o \in Orders : lost[o] + TradedIn(<<e>>, o)
                              = IF o \in e.orders THEN lost[o] + e.quantity ELSE lost[o]
      BY <1>5, <1>6, <1>9
    <3> QED
      BY <3>1, <1>1, Zenon
  <2>6. PICK t : t = AsTrade(e)
    OBVIOUS
  <2>7. t \in Made /\ Made' = Made \ {t}
    BY <2>4, <2>6
  <2>8. lost' = [o \in Orders |-> IF o \in t.legs THEN lost[o] + t.quantity ELSE lost[o]]
    BY <2>4, <2>5, <2>6
  <2>9. lostAnswers' = lostAnswers /\ restarted' = restarted
    BY <1>1, <1>9
  <2>10. Contract!LoseTrade(t)
    BY <2>3, <2>7, <2>8, <2>9, <1>1, <1>7
       DEF Contract!LoseTrade, Contract!book, Made, AsTrade, CancelledSoFar, RejectedSoFar
  <2> QED
    BY <2>7, <2>10 DEF Contract!LoseEvent, Made, AsTrade
<1>10. CASE ~ IsTrade(e)
  <2>1. PICK r \in Orders : e.orders = {r}
    BY <1>3, <1>10
  <2>2. Made' = Made /\ lostAnswers' = lostAnswers \cup {r} /\ restarted' = restarted
    BY <2>1, <1>1, <1>2, <1>10
  <2>3. lost' = lost
    <3>1. \A o \in Orders : lost[o] + TradedIn(<<e>>, o) = lost[o]
      BY <1>5, <1>6, <1>10
    <3>2. lost' = [o \in Orders |-> lost[o]]
      BY <3>1, <1>1, Zenon
    <3> QED
      BY <3>2, <1>5
  <2>4. CASE IsCancel(e) /\ e.kind # "order.cancel_rejected"
    <3>1. \A o \in Orders :
            /\ CancelledSoFar'[o] = (IF o = r THEN CancelledSoFar[r] - 1 ELSE CancelledSoFar[o])
            /\ RejectedSoFar'[o] = RejectedSoFar[o]
      BY <2>1, <2>4, <1>4, <1>8
    <3>2. CancelledSoFar' = [CancelledSoFar EXCEPT ![r] = @ - 1] /\ RejectedSoFar' = RejectedSoFar
      BY <3>1, CountsAre
    <3>3. CancelledSoFar[r] > 0
      BY <2>1, <2>4, <1>4
    <3>4. Contract!LoseAnswer(r)
      BY <3>2, <3>3, <2>2, <2>3, <1>1, <1>7
         DEF Contract!LoseAnswer, Contract!Take, Contract!book, Made, AsTrade, CancelledSoFar, RejectedSoFar
    <3> QED
      BY <3>4 DEF Contract!LoseEvent
  <2>5. CASE ~ IsCancel(e) /\ e.kind = "order.cancel_rejected"
    <3>1. \A o \in Orders :
            /\ RejectedSoFar'[o] = (IF o = r THEN RejectedSoFar[r] - 1 ELSE RejectedSoFar[o])
            /\ CancelledSoFar'[o] = CancelledSoFar[o]
      BY <2>1, <2>5, <1>4, <1>8
    <3>2. RejectedSoFar' = [RejectedSoFar EXCEPT ![r] = @ - 1] /\ CancelledSoFar' = CancelledSoFar
      BY <3>1, CountsAre
    <3>3. RejectedSoFar[r] > 0
      BY <2>1, <2>5, <1>4
    <3>4. Contract!LoseAnswer(r)
      BY <3>2, <3>3, <2>2, <2>3, <1>1, <1>7
         DEF Contract!LoseAnswer, Contract!Take, Contract!book, Made, AsTrade, CancelledSoFar, RejectedSoFar
    <3> QED
      BY <3>4 DEF Contract!LoseEvent
  <2> QED
    BY <2>4, <2>5, <1>3, <1>10
<1> QED
  BY <1>9, <1>10


\* The trades nobody will hear of, after a restart.
Gone == {AsTrade(e) : e \in ToPublish("trade.executed")}

LEMMA ContractSum ==
  ASSUME NEW S, NEW o
  PROVE  Contract!QuantityIn(S, o)
           = SumFunctionOnSet([t \in S |-> t.quantity], {t \in S : o \in t.legs})
  BY DEF Contract!QuantityIn, Contract!SumFunctionOnSet, Contract!FoldFunctionOnSet,
         Contract!MapThenFoldSet, SumFunctionOnSet, FoldFunctionOnSet, MapThenFoldSet

LEMMA GoneQuantity ==
  ASSUME Typed, Told, NEW o \in Orders
  PROVE  TradedIn(outbox["accepted"], o) + TradedIn(outbox["cancel"], o) = Contract!QuantityIn(Gone, o)
<1> DEFINE s == outbox["accepted"]
           f == [n \in DOMAIN s |-> s[n].quantity]
           S == {n \in DOMAIN s : IsTrade(s[n]) /\ o \in s[n].orders}
           g == [t \in Gone |-> t.quantity]
           T == {t \in Gone : o \in t.legs}
           m == [n \in S |-> AsTrade(s[n])]
<1>1. /\ s \in Seq(Events) /\ DOMAIN s = 1..Len(s) /\ Len(s) \in Nat
      /\ outbox["cancel"] \in Seq(Events)
  BY HandlerNames, LenProperties DEF Typed, TypeOK
<1>2. IsFiniteSet(S)
  <2>1. IsFiniteSet(1..Len(s))
    BY <1>1, FS_Interval
  <2>2. S \subseteq 1..Len(s)
    BY <1>1
  <2> HIDE DEF S
  <2> QED
    BY <2>1, <2>2, FS_Subset
<1>3. \A n \in DOMAIN s : s[n] \in Events /\ s[n].quantity \in Nat
  BY <1>1, ElementOfSeq, EventTyped
<1>4. \A e : e \in ToPublish("trade.executed") <=> \E n \in DOMAIN s : e = s[n] /\ IsTrade(e)
  <2>1. \A e : e \in ToPublish("trade.executed") <=>
                 \E h \in Handlers, n \in Nat : n \in DOMAIN outbox[h] /\ e = outbox[h][n] /\ IsTrade(e)
    BY PlaceInOutbox DEF IsTrade
  <2>2. \A n \in DOMAIN outbox["cancel"] : ~ IsTrade(outbox["cancel"][n])
    BY DEF Told, Waiting
  <2>3. \A n \in DOMAIN s : n \in Nat
    BY <1>1
  <2> QED
    BY <2>1, <2>2, <2>3, HandlerNames DEF Handlers
<1>5. ASSUME NEW n \in S
      PROVE  /\ m[n] \in T /\ f[n] \in Int /\ g[m[n]] = f[n]
             /\ m[n].id = s[n].id /\ TradeAt(n) /\ n \in Nat
  <2>1. n \in DOMAIN s /\ IsTrade(s[n]) /\ o \in s[n].orders
    OBVIOUS
  <2>2. AsTrade(s[n]) \in Gone
    BY <2>1, <1>4 DEF Gone
  <2>3. m[n] = AsTrade(s[n]) /\ m[n].legs = s[n].orders /\ m[n].quantity = s[n].quantity
        /\ m[n].id = s[n].id
    BY DEF AsTrade
  <2>4. f[n] = s[n].quantity
    BY <2>1
  <2>5. n \in Nat /\ TradeAt(n)
    BY <2>1, <1>1 DEF TradeAt
  <2> HIDE DEF m, f
  <2> QED
    BY <2>1, <2>2, <2>3, <2>4, <2>5, <1>3
<1>6. \A a, b \in S : m[a] = m[b] => a = b
  <2> SUFFICES ASSUME NEW a \in S, NEW b \in S, m[a] = m[b]
               PROVE  a = b
    OBVIOUS
  <2>1. s[a].id = s[b].id /\ TradeAt(a) /\ TradeAt(b) /\ a \in Nat /\ b \in Nat
    <3> HIDE DEF S, m
    <3> QED
      BY <1>5
  <2> QED
    BY <2>1 DEF Told, TradeIds
<1>7. ASSUME NEW t \in T
      PROVE  \E n \in S : m[n] = t
  <2>1. PICK e \in ToPublish("trade.executed") : t = AsTrade(e)
    BY DEF Gone
  <2>2. PICK n \in DOMAIN s : e = s[n] /\ IsTrade(e)
    BY <2>1, <1>4
  <2>3. o \in e.orders
    BY <2>1 DEF AsTrade
  <2>4. n \in S
    BY <2>2, <2>3
  <2> QED
    BY <2>1, <2>2, <2>4
<1>8. TradedIn(s, o) = SumFunctionOnSet(f, S)
  BY DEF TradedIn
<1>9. Contract!QuantityIn(Gone, o) = SumFunctionOnSet(g, T)
  BY ContractSum
<1> HIDE DEF f, S, g, T, m
<1>10. SumFunctionOnSet(f, S) = SumFunctionOnSet(g, T)
  BY <1>2, <1>5, <1>6, <1>7, SumRenamed
<1>11. TradedIn(outbox["cancel"], o) = 0
  <2> DEFINE c == outbox["cancel"]
             k == [n \in DOMAIN c |-> c[n].quantity]
             E == {n \in DOMAIN c : IsTrade(c[n]) /\ o \in c[n].orders}
  <2>1. E = {}
    BY DEF Told, Waiting
  <2>2. TradedIn(c, o) = SumFunctionOnSet(k, E)
    BY DEF TradedIn
  <2> HIDE DEF k, E
  <2>3. SumFunctionOnSet(k, E) = 0
    BY <2>1, SumEmpty, Zenon
  <2> QED
    BY <2>2, <2>3
<1>12. TradedIn(s, o) \in Nat
  BY <1>1, TradedInTyped
<1> DEFINE x == TradedIn(s, o)
           y == TradedIn(outbox["cancel"], o)
<1>13. x \in Nat /\ y = 0
  BY <1>11, <1>12
<1>14. x = Contract!QuantityIn(Gone, o)
  BY <1>8, <1>9, <1>10
<1> HIDE DEF x, y
<1>15. x + y = x
  BY <1>13
<1> QED
  BY <1>14, <1>15 DEF x, y, s


\* Nobody is left to trade but the orders that were rested again.
LEMMA RestartBook ==
  ASSUME NobodyForgotten, Sound, Told, Restart
  PROVE  /\ left' \in [Orders -> 0..MaxQuantity]
         /\ ToSet(seen') = {o \in Orders : left'[o] > 0}
<1>1. Typed' /\ Book' /\ Told' /\ Arrivals' /\ matching' = NoOrder
  BY RestartSound, RestartTold, RestartArrivals DEF Sound, Base, Requests, Restart, Unlock
<1>2. left' \in [Orders -> Nat] /\ index' \subseteq Orders
  BY <1>1 DEF Typed, TypeOK
<1>3. left' \in [Orders -> 0..MaxQuantity]
  <2>1. \A o \in Orders : left'[o] <= Quantity[o] /\ Quantity[o] \in 1..MaxQuantity
    BY <1>1, OrderAssumption DEF Told, Shape
  <2>2. \A o \in Orders : left'[o] \in 0..MaxQuantity
    BY <2>1, <1>2, OrderAssumption
  <2> QED
    BY <2>2, <1>2
<1>4. {o \in Orders : left'[o] > 0} = index'
  <2>1. \A o \in index' : left'[o] > 0
    BY <1>1 DEF Book
  <2>2. \A o \in Orders : left'[o] > 0 => o \in index'
    BY <1>1, OrderAssumption DEF Book
  <2> QED
    BY <2>1, <2>2, <1>2
<1>5. index' \subseteq ToSet(seen')
  BY <1>1 DEF Arrivals
<1>6. ToSet(seen') \subseteq index'
  <2>1. Typed /\ Distinct(placed)
    BY DEF Sound, Base, Requests
  <2>2. PICK rows \in Rows : \E orders \in {OpenOrders(rows), <<>>} :
          /\ index' = ToSet(orders)
          /\ seen' = SubSeq(orders, AtLeastZero(Len(orders) - SeenMax) + 1, Len(orders))
    BY DEF Restart
  <2>3. PICK orders \in {OpenOrders(rows), <<>>} :
          /\ index' = ToSet(orders)
          /\ seen' = SubSeq(orders, AtLeastZero(Len(orders) - SeenMax) + 1, Len(orders))
    BY <2>2
  <2>4. orders \in Seq(Orders) /\ Distinct(orders)
    BY <2>1, OpenOrdersSound
  <2>5. AtLeastZero(Len(orders) - SeenMax) \in Nat
    <3>1. Len(orders) \in Nat /\ SeenMax \in Nat
      BY <2>4, LenProperties, BoundsAssumption
    <3> QED
      BY <3>1 DEF AtLeastZero
  <2> QED
    BY <2>3, <2>4, <2>5, SuffixSound
<1> QED
  BY <1>3, <1>4, <1>5, <1>6

\* The messages that come again.
LEMMA RestartMessages ==
  ASSUME Sound, Told, Restart
  PROVE  /\ \/ accepted' = accepted
            \/ \E o \in ToSet(seen), q \in 1..MaxQuantity :
                 q <= Quantity[o] /\ accepted' = accepted \cup {[order |-> o, quantity |-> q]}
         /\ \/ cancelRequests' = cancelRequests
            \/ \E o \in Orders : cancelRequests' = [cancelRequests EXCEPT ![o] = @ + 1]
<1>1. /\ accepted' = accepted \cup ({inHand["accepted"]} \ {NoMessage})
      /\ cancelRequests' = [o \in Orders |-> cancelRequests[o] + IF Again("cancel", o) THEN 1 ELSE 0]
  BY DEF Restart
<1>2. /\ inHand["accepted"] \in Messages \cup {NoMessage}
      /\ inHand["cancel"] \in Messages \cup {NoMessage}
      /\ cancelRequests \in [Orders -> Nat]
  BY HandlerNames DEF Sound, Base, Typed, TypeOK
<1>3. \/ accepted' = accepted
      \/ \E o \in ToSet(seen), q \in 1..MaxQuantity :
           q <= Quantity[o] /\ accepted' = accepted \cup {[order |-> o, quantity |-> q]}
  <2> DEFINE m == inHand["accepted"]
  <2>1. CASE m = NoMessage
    BY <2>1, <1>1
  <2>2. CASE m # NoMessage
    <3>1. m \in Messages /\ Asked(m) /\ m.order \in ToSet(seen)
      BY <2>2, <1>2 DEF Sound, Base, Requests, Told, Shape
    <3>2. m.order \in Orders /\ m = [order |-> m.order, quantity |-> m.quantity]
      BY <3>1 DEF Messages
    <3>3. m.quantity \in 1..Quantity[m.order] /\ Quantity[m.order] \in 1..MaxQuantity
          /\ MaxQuantity \in Nat
      BY <3>1, <3>2, OrderAssumption DEF Asked
    <3>4. m.quantity \in 1..MaxQuantity /\ m.quantity <= Quantity[m.order]
      BY <3>3
    <3>5. accepted' = accepted \cup {m}
      BY <2>2, <1>1
    <3> HIDE DEF m
    <3>6. accepted' = accepted \cup {[order |-> m.order, quantity |-> m.quantity]}
      BY <3>2, <3>5, Zenon
    <3> QED
      BY <3>1, <3>4, <3>6
  <2> QED
    BY <2>1, <2>2
<1>4. CASE inHand["cancel"] = NoMessage
  <2>1. \A o \in Orders : cancelRequests[o] + (IF Again("cancel", o) THEN 1 ELSE 0) = cancelRequests[o]
    BY <1>2, <1>4 DEF Again
  <2>2. cancelRequests' = [o \in Orders |-> cancelRequests[o]]
    BY <2>1, <1>1, Zenon
  <2>3. cancelRequests' = cancelRequests
    BY <2>2, <1>2
  <2> QED
    BY <2>3, <1>3
<1>5. CASE inHand["cancel"] # NoMessage
  <2>1. PICK r \in Orders : r = inHand["cancel"].order
    BY <1>2, <1>5, MessageFields
  <2>2. \A o \in Orders : cancelRequests[o] + (IF Again("cancel", o) THEN 1 ELSE 0)
                            = IF o = r THEN cancelRequests[r] + 1 ELSE cancelRequests[o]
    BY <2>1, <1>2, <1>5 DEF Again
  <2>3. cancelRequests' = [o \in Orders |-> IF o = r THEN cancelRequests[r] + 1 ELSE cancelRequests[o]]
    BY <2>2, <1>1, Zenon
  <2>4. cancelRequests' = [cancelRequests EXCEPT ![r] = @ + 1]
    BY <2>3, <1>2
  <2> QED
    BY <2>4, <1>3
<1> QED
  BY <1>4, <1>5

\* The events that were not yet published are gone.
LEMMA RestartEvents ==
  ASSUME Sound, Told, Restart
  PROVE  /\ Gone \subseteq Made /\ Made' = Made \ Gone
         /\ lost' = [o \in Orders |-> lost[o] + Contract!QuantityIn(Gone, o)]
         /\ \E silenced \in SUBSET {o \in Orders : CancelledSoFar[o] > 0} :
              CancelledSoFar' = [o \in Orders |-> IF o \in silenced THEN CancelledSoFar[o] - 1
                                                                    ELSE CancelledSoFar[o]]
         /\ \E denied \in SUBSET {o \in Orders : RejectedSoFar[o] > 0} :
              RejectedSoFar' = [o \in Orders |-> IF o \in denied THEN RejectedSoFar[o] - 1
                                                                 ELSE RejectedSoFar[o]]
<1>1. /\ Typed /\ Typed' /\ Told'
  BY RestartSound, RestartTold DEF Sound, Base, Requests
<1>2. /\ outbox' = [h \in Handlers |-> <<>>] /\ UNCHANGED <<trades, cancelled, cancelRejected>>
      /\ lost' = [o \in Orders |->
            lost[o] + TradedIn(outbox["accepted"], o) + TradedIn(outbox["cancel"], o)]
  BY DEF Restart, bus
<1>3. \A h \in Handlers : DOMAIN outbox'[h] = {}
  BY <1>2, EmptyDomain
<1>4. ToPublish("trade.executed")' = {}
  BY <1>3 DEF ToPublish
<1>5. Made' = Made \ Gone /\ Gone \subseteq Made
  <2> DEFINE P == ToPublish("trade.executed")
  <2>1. Made = {AsTrade(x) : x \in trades \cup P} /\ Made' = {AsTrade(x) : x \in trades}
        /\ Gone = {AsTrade(x) : x \in P}
    BY <1>2, <1>4 DEF Made, AsTrade, Gone
  <2>2. ASSUME NEW t \in trades, NEW e \in P
        PROVE  t.id # e.id
    <3>1. PICK h \in Handlers, n \in Nat : n \in DOMAIN outbox[h] /\ e = outbox[h][n] /\ IsTrade(e)
      BY <1>1, PlaceInOutbox DEF IsTrade
    <3>2. h = "accepted"
      BY <3>1 DEF Told, Waiting, Handlers
    <3>3. TradeAt(n)
      BY <3>1, <3>2 DEF TradeAt
    <3> QED
      BY <3>1, <3>2, <3>3 DEF Told, TradeIds
  <2>3. \A t, e : AsTrade(t) = AsTrade(e) => t.id = e.id
    BY DEF AsTrade
  <2> HIDE DEF P, AsTrade
  <2>4. \A t \in trades : AsTrade(t) \notin Gone
    BY <2>1, <2>2, <2>3
  <2> QED
    BY <2>1, <2>4
<1>6. lost' = [o \in Orders |-> lost[o] + Contract!QuantityIn(Gone, o)]
  <2>1. ASSUME NEW o \in Orders
        PROVE  lost[o] + TradedIn(outbox["accepted"], o) + TradedIn(outbox["cancel"], o)
                 = lost[o] + Contract!QuantityIn(Gone, o)
    <3> DEFINE x == TradedIn(outbox["accepted"], o)
               y == TradedIn(outbox["cancel"], o)
               z == Contract!QuantityIn(Gone, o)
    <3>1. x + y = z
      BY <1>1, GoneQuantity
    <3>2. x \in Nat /\ y \in Nat /\ lost[o] \in Nat
      BY <1>1, TradedInTyped, HandlerNames DEF Typed, TypeOK
    <3> HIDE DEF x, y, z
    <3>3. lost[o] + x + y = lost[o] + z
      BY <3>1, <3>2
    <3> QED
      BY <3>3 DEF x, y, z
  <2> QED
    BY <2>1, <1>2, Zenon
<1>7. \A kind, o : ~ Waits(kind, o)'
  BY <1>3 DEF Waits, AnswerAt
<1>8. ASSUME NEW o \in Orders
      PROVE  /\ CancelledSoFar[o] = cancelled[o] + (IF Waits("order.cancelled", o) THEN 1 ELSE 0)
             /\ CancelledSoFar'[o] = cancelled[o]
             /\ RejectedSoFar[o] = cancelRejected[o] + (IF Waits("order.cancel_rejected", o) THEN 1 ELSE 0)
             /\ RejectedSoFar'[o] = cancelRejected[o]
             /\ cancelled[o] \in Nat /\ cancelRejected[o] \in Nat
  <2> DEFINE c == OnTheWay("order.cancelled", o)
             d == OnTheWay("order.cancelled", o)'
             a == OnTheWay("order.cancel_rejected", o)
             b == OnTheWay("order.cancel_rejected", o)'
  <2>1. /\ c = (IF Waits("order.cancelled", o) THEN 1 ELSE 0)
        /\ a = (IF Waits("order.cancel_rejected", o) THEN 1 ELSE 0)
    BY <1>1, OnTheWayIs DEF AnswerKinds
  <2>2. d = 0 /\ b = 0
    BY <1>1, <1>7, OnTheWayIsNext DEF Counting, AnswerKinds
  <2>3. cancelled[o] \in Nat /\ cancelRejected[o] \in Nat
    BY <1>1 DEF Typed, TypeOK
  <2>4. /\ CancelledSoFar[o] = cancelled[o] + c /\ CancelledSoFar'[o] = cancelled'[o] + d
        /\ RejectedSoFar[o] = cancelRejected[o] + a /\ RejectedSoFar'[o] = cancelRejected'[o] + b
    BY DEF CancelledSoFar, RejectedSoFar
  <2> HIDE DEF a, b, c, d
  <2> QED
    BY <2>1, <2>2, <2>3, <2>4, <1>2
<1>9. \E silenced \in SUBSET {o \in Orders : CancelledSoFar[o] > 0} :
         CancelledSoFar' = [o \in Orders |-> IF o \in silenced THEN CancelledSoFar[o] - 1
                                                               ELSE CancelledSoFar[o]]
  <2> DEFINE W == {o \in Orders : Waits("order.cancelled", o)}
  <2>1. W \in SUBSET {o \in Orders : CancelledSoFar[o] > 0}
    BY <1>8
  <2>2. \A o \in Orders : CancelledSoFar'[o] = IF o \in W THEN CancelledSoFar[o] - 1 ELSE CancelledSoFar[o]
    BY <1>8
  <2>3. CancelledSoFar' = [o \in Orders |-> CancelledSoFar'[o]]
    BY DEF CancelledSoFar
  <2> HIDE DEF W
  <2>4. CancelledSoFar' = [o \in Orders |-> IF o \in W THEN CancelledSoFar[o] - 1 ELSE CancelledSoFar[o]]
    BY <2>2, <2>3
  <2> QED
    BY <2>1, <2>4
<1>10. \E denied \in SUBSET {o \in Orders : RejectedSoFar[o] > 0} :
         RejectedSoFar' = [o \in Orders |-> IF o \in denied THEN RejectedSoFar[o] - 1
                                                            ELSE RejectedSoFar[o]]
  <2> DEFINE W == {o \in Orders : Waits("order.cancel_rejected", o)}
  <2>1. W \in SUBSET {o \in Orders : RejectedSoFar[o] > 0}
    BY <1>8
  <2>2. \A o \in Orders : RejectedSoFar'[o] = IF o \in W THEN RejectedSoFar[o] - 1 ELSE RejectedSoFar[o]
    BY <1>8
  <2>3. RejectedSoFar' = [o \in Orders |-> RejectedSoFar'[o]]
    BY DEF RejectedSoFar
  <2> HIDE DEF W
  <2>4. RejectedSoFar' = [o \in Orders |-> IF o \in W THEN RejectedSoFar[o] - 1 ELSE RejectedSoFar[o]]
    BY <2>2, <2>3
  <2> QED
    BY <2>1, <2>4
<1> QED
  BY <1>5, <1>6, <1>9, <1>10

LEMMA RestartIsContract ==
  ASSUME NobodyForgotten, Sound, Told, Restart
  PROVE  Contract!RestartAnyhow
<1>1. /\ left' \in [Orders -> 0..MaxQuantity]
      /\ ToSet(seen') = {o \in Orders : left'[o] > 0}
  BY RestartBook
<1>2. Contract!EngineFault
  BY DEF Restart, Fault, Contract!EngineFault
<1>3. restarted' /\ UNCHANGED <<traded, tradeCount>>
  BY DEF Restart
<1>4. \E gone \in SUBSET Made :
         /\ Made' = Made \ gone
         /\ lost' = [o \in Orders |-> lost[o] + Contract!QuantityIn(gone, o)]
  <2>1. PICK gone : gone = Gone
    OBVIOUS
  <2>2. /\ gone \in SUBSET Made /\ Made' = Made \ gone
        /\ lost' = [o \in Orders |-> lost[o] + Contract!QuantityIn(gone, o)]
    BY <2>1, RestartEvents
  <2> QED
    BY <2>2
<1>5. \E silenced \in SUBSET {o \in Orders : CancelledSoFar[o] > 0},
         denied \in SUBSET {o \in Orders : RejectedSoFar[o] > 0} :
         /\ CancelledSoFar' = [o \in Orders |-> IF o \in silenced THEN CancelledSoFar[o] - 1
                                                                  ELSE CancelledSoFar[o]]
         /\ RejectedSoFar' = [o \in Orders |-> IF o \in denied THEN RejectedSoFar[o] - 1
                                                               ELSE RejectedSoFar[o]]
  BY RestartEvents
<1>6. /\ \/ accepted' = accepted
         \/ \E o \in ToSet(seen), q \in 1..MaxQuantity :
              q <= Quantity[o] /\ accepted' = accepted \cup {[order |-> o, quantity |-> q]}
      /\ \/ cancelRequests' = cancelRequests
         \/ \E o \in Orders : cancelRequests' = [cancelRequests EXCEPT ![o] = @ + 1]
  BY RestartMessages
<1>7. PICK open : open = left'
  OBVIOUS
<1>8. Contract!Restart(open)
  BY <1>1, <1>2, <1>3, <1>4, <1>5, <1>6, <1>7
     DEF Contract!Restart, Contract!Put, Made, AsTrade, CancelledSoFar, RejectedSoFar
<1> QED
  BY <1>1, <1>7, <1>8 DEF Contract!RestartAnyhow, Contract!Restart


\* The other services put a message on the bus.
LEMMA ServiceIsContract ==
  ASSUME Sound, NEW o \in Orders, Place(o) \/ Republish(o) \/ RequestCancel(o)
  PROVE  Contract!EnvStep
<1>1. CASE Place(o)
  <2>1. /\ accepted' = accepted \cup {Message(o, Quantity[o])} /\ UNCHANGED cancelRequests
        /\ UNCHANGED <<outbox, bus, seen, left, traded, lost, lostAnswers, restarted, tradeCount, faults>>
    BY <1>1 DEF Place, book, history
  <2>2. Message(o, Quantity[o]).order = o /\ Message(o, Quantity[o]).quantity = Quantity[o]
        /\ Quantity[o] \in 1..Quantity[o]
    BY OrderAssumption DEF Message
  <2> QED
    BY <2>1, <2>2, EnvIsContract
<1>2. CASE Republish(o)
  <2>1. PICK rows \in Rows :
          Open(o, rows) > 0 /\ accepted' = accepted \cup {Message(o, Open(o, rows))}
    BY <1>2 DEF Republish
  <2>2. PICK q : q = Open(o, rows)
    OBVIOUS
  <2>3. q \in 1..Quantity[o]
    <3>1. q \in Int /\ q <= Quantity[o] /\ q > 0 /\ Quantity[o] \in Nat
      BY <2>1, <2>2, OpenTyped, OrderAssumption DEF Sound, Base
    <3> QED
      BY <3>1
  <2>4. Message(o, q).order = o /\ Message(o, q).quantity = q
        /\ accepted' = accepted \cup {Message(o, q)}
    BY <2>1, <2>2 DEF Message
  <2>5. /\ UNCHANGED <<outbox, bus, seen, left, traded, lost, lostAnswers, restarted, tradeCount, cancelRequests>>
        /\ Fault
    BY <1>2 DEF Republish, book, history
  <2> QED
    BY <2>3, <2>4, <2>5, EnvIsContract
<1>3. CASE RequestCancel(o)
  <2>1. /\ cancelRequests' = [cancelRequests EXCEPT ![o] = @ + 1] /\ UNCHANGED accepted
        /\ UNCHANGED <<outbox, bus, seen, left, traded, lost, lostAnswers, restarted, tradeCount, faults>>
    BY <1>3 DEF RequestCancel, book, history
  <2> QED
    BY <2>1, EnvIsContract
<1> QED
  BY <1>1, <1>2, <1>3

LEMMA RedeliverIsContract ==
  ASSUME Sound, Redeliver
  PROVE  Contract!EnvStep
<1>1. PICK m : m = inHand["accepted"]
  OBVIOUS
<1>2. Asked(m) /\ accepted' = accepted \cup {m}
  BY <1>1 DEF Redeliver, Sound, Base, Requests
<1>3. /\ UNCHANGED <<outbox, bus, seen, left, traded, lost, lostAnswers, restarted, tradeCount, cancelRequests>>
      /\ Fault
  BY DEF Redeliver, book, history
<1> QED
  BY <1>2, <1>3, EnvIsContract DEF Asked

LEMMA StepsAreContract ==
  ASSUME NobodyForgotten, Sound, Told, [Next]_vars
  PROVE  [Contract!ContractNext]_(Contract!engineVars)
<1>1. Sound' /\ Told' /\ Typed'
  BY SoundNext, ToldNext DEF Sound, Base
<1>2. ASSUME NEW m \in accepted, IgnoreDuplicate(m) \/ BeginMatch(m)
      PROVE  Contract!ContractNext
  <2>1. Contract!AcceptOrder(m)
    BY <1>2, IgnoreIsContract, BeginIsContract
  <2> QED
    BY <2>1 DEF Contract!ContractNext, Contract!EngineNext
<1>3. ASSUME NEW r \in Orders, MatchOne(r)
      PROVE  Contract!ContractNext
  BY <1>3, MatchOneIsContract DEF Contract!ContractNext, Contract!EngineNext
<1>4. ASSUME EndMatch
      PROVE  Contract!ContractNext \/ UNCHANGED Contract!engineVars
  BY <1>4, EndMatchIsContract DEF Contract!ContractNext, Contract!EngineNext
<1>5. ASSUME NEW o \in Orders, CancelOrder(o)
      PROVE  Contract!ContractNext
  BY <1>5, CancelIsContract DEF Contract!ContractNext, Contract!EngineNext
<1>6. ASSUME NEW h \in Handlers, Publish(h)
      PROVE  UNCHANGED Contract!engineVars
  BY <1>1, <1>6, PublishIsContract
<1>7. ASSUME NEW h \in Handlers, PublishFails(h)
      PROVE  Contract!ContractNext
  BY <1>1, <1>7, FailureIsContract DEF Contract!ContractNext, Contract!EngineNext
<1>8. ASSUME NEW o \in Orders, Place(o) \/ Republish(o) \/ RequestCancel(o)
      PROVE  Contract!ContractNext
  BY <1>8, ServiceIsContract DEF Contract!ContractNext
<1>9. ASSUME Redeliver
      PROVE  Contract!ContractNext
  BY <1>9, RedeliverIsContract DEF Contract!ContractNext
<1>10. ASSUME Restart
       PROVE  Contract!ContractNext
  BY <1>10, RestartIsContract DEF Contract!ContractNext
<1>11. ASSUME UNCHANGED vars
       PROVE  UNCHANGED Contract!engineVars
  <2>1. UNCHANGED <<accepted, cancelRequests, seen, left, traded, lost, lostAnswers, restarted, tradeCount, faults,
                    outbox, bus>>
    BY <1>11 DEF vars, inbox, book, history
  <2>2. UNCHANGED <<Made, CancelledSoFar, RejectedSoFar>>
    BY <2>1, BusFrame
  <2> QED
    BY <2>1, <2>2, ContractStutters
<1> QED
  BY <1>2, <1>3, <1>4, <1>5, <1>6, <1>7, <1>8, <1>9, <1>10, <1>11
     DEF Next, AcceptStep, CancelStep, OrderServiceStep, Handlers

\* The engine does for the Order Service what the contract says, and the Order Service's
\* own proofs rest on nothing else: prices, priorities, levels and queues, half-published
\* handlers, redeliveries and rebuilds are steps the contract allows.
THEOREM EngineRefinement == ASSUME NobodyForgotten PROVE Spec => ImplementsContract
<1>1. Init => Sound /\ Told /\ Contract!EngineInit
  BY SoundInit, ToldInit, InitIsContract
<1>2. Sound /\ Told /\ [Next]_vars => Sound' /\ Told' /\ [Contract!ContractNext]_(Contract!engineVars)
  BY SoundNext, ToldNext, StepsAreContract
<1> QED
  BY <1>1, <1>2, PTL DEF Spec, ImplementsContract, Contract!ContractSpec

-----------------------------------------------------------------------------
=============================================================================
