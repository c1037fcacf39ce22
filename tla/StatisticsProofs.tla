-------------------------- MODULE StatisticsProofs --------------------------
(***************************************************************************)
(* What holds of Statistics for samples of any size.  The argument: a      *)
(* value joins a sorted list after what is no larger (InsertAt), so both   *)
(* lists stay sorted and, rank by rank, within the resolution of each      *)
(* other (InsertNear); a percentile, a median and a quartile are then      *)
(* statements about ranks.                                                 *)
(***************************************************************************)
EXTENDS Statistics, FiniteSetTheorems, SequenceTheorems, TLAPS

\* Whatever is not empty among the naturals has a least element.
LEMMA LeastExists ==
  ASSUME NEW S \in SUBSET Nat, S # {}
  PROVE  \E x \in S : \A y \in S : x <= y
<1> DEFINE R == {ss \in Nat \X Nat : ss[1] < ss[2]}
<1>1. IsWellFoundedOn(R, Nat)
  BY NatLessThanWellFounded DEF OpToRel
<1>2. PICK x \in S : \A y \in S : <<y, x>> \notin R
  <2> HIDE DEF R
  <2> QED BY <1>1, WFMin
<1>3. ASSUME NEW y \in S PROVE x <= y
  <2>1. x \in Nat /\ y \in Nat /\ ~(y < x)
    BY <1>2
  <2> QED BY <2>1
<1> QED BY <1>3

-----------------------------------------------------------------------------
(* Sorted lists *)

SortedSeq(s) ==
  /\ s \in Seq(Nat)
  /\ \A i, j \in 1 .. Len(s) : i <= j => s[i] <= s[j]

\* t is s with v after its first k values.
Joined(s, v, k, t) ==
  /\ t \in Seq(Nat) /\ Len(t) = Len(s) + 1
  /\ \A i \in 1 .. k : t[i] = s[i]
  /\ t[k + 1] = v
  /\ \A i \in k + 2 .. Len(s) + 1 : t[i] = s[i - 1]

\* k values of s are no larger than v, and they come first.
Splits(s, v, k) ==
  /\ k \in 0 .. Len(s)
  /\ \A i \in 1 .. k : s[i] <= v
  /\ \A i \in k + 1 .. Len(s) : v < s[i]

LEMMA SplitExists ==
  ASSUME NEW s, SortedSeq(s), NEW v \in Nat
  PROVE  \E k : Splits(s, v, k) /\ {i \in DOMAIN s : s[i] <= v} = 1 .. k
<1> DEFINE n == Len(s)
<1>1. n \in Nat /\ DOMAIN s = 1 .. n /\ \A i \in 1 .. n : s[i] \in Nat
  BY DEF SortedSeq
<1>2. \A i, j \in 1 .. n : i <= j => s[i] <= s[j]
  BY DEF SortedSeq
<1> HIDE DEF n
<1> DEFINE K == {k \in 0 .. n : \A i \in k + 1 .. n : v < s[i]}
<1>3. K \in SUBSET Nat /\ n \in K
  BY <1>1
<1>4. PICK k \in K : \A j \in K : k <= j
  BY <1>3, LeastExists
<1>5. k \in 0 .. n /\ \A i \in k + 1 .. n : v < s[i]
  OBVIOUS
<1>6. ASSUME NEW i \in 1 .. k PROVE s[i] <= v
  <2>1. k - 1 \notin K /\ k - 1 \in 0 .. n
    BY <1>1, <1>4, <1>5, <1>6
  <2>2. PICK j \in (k - 1) + 1 .. n : ~(v < s[j])
    BY <2>1
  <2>3. j \in 1 .. n /\ i \in 1 .. n /\ i <= j /\ s[j] <= v
    BY <1>1, <1>5, <1>6, <2>2
  <2>4. s[i] <= s[j] /\ s[i] \in Nat /\ s[j] \in Nat
    BY <1>1, <1>2, <2>3
  <2> QED BY <2>3, <2>4
<1>7. {i \in DOMAIN s : s[i] <= v} = 1 .. k
  <2>1. ASSUME NEW i \in 1 .. n PROVE s[i] <= v <=> i \in 1 .. k
    BY <1>1, <1>5, <1>6, <2>1
  <2> QED BY <1>1, <1>5, <2>1
<1> QED BY <1>5, <1>6, <1>7 DEF Splits, n

\* A value joins after all that is no larger.
LEMMA InsertAt ==
  ASSUME NEW s, SortedSeq(s), NEW v \in Nat
  PROVE  \E k : Splits(s, v, k) /\ Joined(s, v, k, Sorted(s, v))
<1>1. PICK k : Splits(s, v, k) /\ {i \in DOMAIN s : s[i] <= v} = 1 .. k
  BY SplitExists
<1>2. s \in Seq(Nat) /\ Len(s) \in Nat /\ k \in 0 .. Len(s) /\ \A i \in 1 .. Len(s) : s[i] \in Nat
  BY <1>1 DEF SortedSeq, Splits
<1>3. Cardinality({i \in DOMAIN s : s[i] <= v}) = k
  <2>1. Cardinality(1 .. k) = k
    BY <1>2, FS_Interval
  <2> QED BY <1>1, <2>1
<1> DEFINE front == SubSeq(s, 1, k)
           back == SubSeq(s, k + 1, Len(s))
<1>4. Sorted(s, v) = front \o <<v>> \o back
  BY <1>3 DEF Sorted
<1>5. front \in Seq(Nat) /\ Len(front) = k /\ \A i \in 1 .. k : front[i] = s[i]
  BY <1>2, SubSeqProperties
<1>6. back \in Seq(Nat) /\ Len(back) = Len(s) - k /\ \A i \in 1 .. Len(s) - k : back[i] = s[k + i]
  BY <1>2, SubSeqProperties
<1> DEFINE head == front \o <<v>>
           whole == head \o back
<1> HIDE DEF front, back
<1>7. /\ head \in Seq(Nat) /\ Len(head) = k + 1
      /\ \A i \in 1 .. k : head[i] = s[i]
      /\ head[k + 1] = v
  BY <1>2, <1>5
<1> HIDE DEF head
<1>8. /\ whole \in Seq(Nat) /\ Len(whole) = Len(head) + Len(back)
      /\ \A i \in 1 .. Len(head) + Len(back) :
           whole[i] = IF i <= Len(head) THEN head[i] ELSE back[i - Len(head)]
  BY <1>6, <1>7, ConcatProperties
<1> HIDE DEF whole
<1>9. \A i \in k + 2 .. Len(s) + 1 : back[i - (k + 1)] = s[i - 1]
  <2> SUFFICES ASSUME NEW i \in k + 2 .. Len(s) + 1 PROVE back[i - (k + 1)] = s[i - 1]
    OBVIOUS
  <2>1. i - (k + 1) \in 1 .. Len(s) - k /\ k + (i - (k + 1)) = i - 1
    BY <1>2
  <2> QED BY <1>6, <2>1
<1>10. Joined(s, v, k, whole)
  <2>1. Len(head) + Len(back) = Len(s) + 1
    BY <1>2, <1>6, <1>7
  <2>2. \A i \in 1 .. k : whole[i] = s[i]
    BY <1>2, <1>7, <1>8, <2>1
  <2>3. whole[k + 1] = v
    BY <1>2, <1>7, <1>8, <2>1
  <2>4. ASSUME NEW i \in k + 2 .. Len(s) + 1 PROVE whole[i] = s[i - 1]
    <3>1. i \in 1 .. Len(head) + Len(back) /\ ~(i <= Len(head)) /\ i - Len(head) = i - (k + 1)
      BY <1>2, <1>7, <2>1
    <3> QED BY <1>8, <1>9, <3>1
  <2> QED BY <1>8, <2>1, <2>2, <2>3, <2>4 DEF Joined
<1> QED BY <1>1, <1>4, <1>10 DEF head, whole

LEMMA InsertSorted ==
  ASSUME NEW s, SortedSeq(s), NEW v \in Nat
  PROVE  SortedSeq(Sorted(s, v)) /\ Len(Sorted(s, v)) = Len(s) + 1
<1>1. PICK k : Splits(s, v, k) /\ Joined(s, v, k, Sorted(s, v))
  BY InsertAt
<1>2. PICK t : t = Sorted(s, v)
  OBVIOUS
<1>3. PICK n \in Nat : n = Len(s) /\ \A i \in 1 .. n : s[i] \in Nat
  BY DEF SortedSeq
<1>4. /\ k \in 0 .. n /\ \A i \in 1 .. k : s[i] <= v /\ t[i] = s[i]
      /\ t[k + 1] = v /\ \A i \in k + 2 .. n + 1 : t[i] = s[i - 1]
      /\ \A i \in k + 1 .. n : v < s[i]
      /\ \A i, j \in 1 .. n : i <= j => s[i] <= s[j]
  BY <1>1, <1>2, <1>3 DEF Splits, Joined, SortedSeq
<1>5. ASSUME NEW i \in 1 .. n + 1, NEW j \in 1 .. n + 1, i <= j PROVE t[i] <= t[j]
  <2>1. CASE j <= k
    BY <1>3, <1>4, <1>5, <2>1
  <2>2. CASE i <= k /\ j = k + 1
    BY <1>3, <1>4, <1>5, <2>2
  <2>3. CASE i <= k /\ j > k + 1
    <3>1. i \in 1 .. n /\ j - 1 \in 1 .. n /\ i <= j - 1 /\ j \in k + 2 .. n + 1 /\ i \in 1 .. k
      BY <1>3, <1>4, <1>5, <2>3
    <3> QED BY <1>4, <3>1
  <2>4. CASE i = k + 1 /\ j = k + 1
    BY <1>4, <2>4
  <2>5. CASE i = k + 1 /\ j > k + 1
    <3>1. j - 1 \in k + 1 .. n /\ j \in k + 2 .. n + 1 /\ j - 1 \in 1 .. n
      BY <1>3, <1>4, <1>5, <2>5
    <3> QED BY <1>3, <1>4, <2>5, <3>1
  <2>6. CASE i > k + 1
    <3>1. /\ i - 1 \in 1 .. n /\ j - 1 \in 1 .. n /\ i - 1 <= j - 1
          /\ i \in k + 2 .. n + 1 /\ j \in k + 2 .. n + 1
      BY <1>3, <1>4, <1>5, <2>6
    <3> QED BY <1>4, <3>1
  <2> QED BY <1>3, <1>4, <1>5, <2>1, <2>2, <2>3, <2>4, <2>5, <2>6
<1>6. t \in Seq(Nat) /\ Len(t) = n + 1
  BY <1>1, <1>2, <1>3 DEF Joined
<1> QED BY <1>2, <1>3, <1>5, <1>6 DEF SortedSeq

\* Rank by rank the values of s are within less than R of those of t.
Alike(s, t, R) ==
  Len(s) = Len(t) /\ \A i \in 1 .. Len(s) : Near(s[i], t[i], R)

\* Values that are near each other join lists that are near each other, though it may
\* be at different ranks: what lies between the two ranks moves by one.
LEMMA InsertNear ==
  ASSUME NEW s, SortedSeq(s), NEW t, SortedSeq(t), NEW v \in Nat, NEW a \in Nat,
         NEW R \in Nat, Alike(s, t, R), Near(v, a, R)
  PROVE  Alike(Sorted(s, v), Sorted(t, a), R)
<1>1. PICK k : Splits(s, v, k) /\ Joined(s, v, k, Sorted(s, v))
  BY InsertAt
<1>2. PICK l : Splits(t, a, l) /\ Joined(t, a, l, Sorted(t, a))
  BY InsertAt
<1>3. PICK x, y : x = Sorted(s, v) /\ y = Sorted(t, a)
  OBVIOUS
<1>4. PICK n \in Nat : n = Len(s)
  BY DEF SortedSeq
<1>5. /\ Len(t) = n /\ Len(x) = n + 1 /\ Len(y) = n + 1
      /\ k \in 0 .. n /\ l \in 0 .. n
      /\ \A i \in 1 .. n : s[i] \in Nat /\ t[i] \in Nat
      /\ \A i, j \in 1 .. n : i <= j => s[i] <= s[j] /\ t[i] <= t[j]
  <2>1. Len(t) = n
    BY <1>4 DEF Alike
  <2>2. Len(x) = n + 1 /\ Len(y) = n + 1 /\ k \in 0 .. n /\ l \in 0 .. n
    BY <1>1, <1>2, <1>3, <1>4, <2>1 DEF Splits, Joined
  <2>3. /\ \A i \in 1 .. n : s[i] \in Nat /\ t[i] \in Nat
        /\ \A i, j \in 1 .. n : i <= j => s[i] <= s[j] /\ t[i] <= t[j]
    BY <1>4, <2>1 DEF SortedSeq
  <2> QED BY <2>1, <2>2, <2>3
<1>6. /\ \A i \in 1 .. k : s[i] <= v /\ x[i] = s[i]
      /\ \A i \in k + 1 .. n : v < s[i]
      /\ x[k + 1] = v /\ \A i \in k + 2 .. n + 1 : x[i] = s[i - 1]
  BY <1>1, <1>3, <1>4 DEF Splits, Joined
<1>7. /\ \A i \in 1 .. l : t[i] <= a /\ y[i] = t[i]
      /\ \A i \in l + 1 .. n : a < t[i]
      /\ y[l + 1] = a /\ \A i \in l + 2 .. n + 1 : y[i] = t[i - 1]
  BY <1>2, <1>3, <1>5 DEF Splits, Joined
<1>8. /\ \A i \in 1 .. n : s[i] - t[i] < R /\ t[i] - s[i] < R
      /\ v - a < R /\ a - v < R
  BY <1>4 DEF Alike, Near
<1>9. ASSUME NEW i \in 1 .. n + 1 PROVE x[i] - y[i] < R /\ y[i] - x[i] < R
  <2>1. CASE i <= k /\ i <= l
    BY <1>4, <1>5, <1>6, <1>7, <1>8, <2>1
  <2>2. CASE i > k + 1 /\ i > l + 1
    <3>1. i - 1 \in 1 .. n /\ i \in k + 2 .. n + 1 /\ i \in l + 2 .. n + 1
      BY <1>4, <1>5, <2>2
    <3> QED BY <1>6, <1>7, <1>8, <3>1
  <2>3. CASE i = k + 1 /\ i = l + 1
    BY <1>6, <1>7, <1>8, <2>3
  <2>4. CASE i = k + 1 /\ i <= l
    <3>1. i \in 1 .. n /\ i \in k + 1 .. n /\ i \in 1 .. l
      BY <1>4, <1>5, <2>4
    <3>2. x[i] = v /\ y[i] = t[i] /\ t[i] <= a /\ v < s[i] /\ s[i] \in Nat /\ t[i] \in Nat
      BY <1>5, <1>6, <1>7, <2>4, <3>1
    <3> QED BY <1>8, <3>1, <3>2
  <2>5. CASE i > k + 1 /\ i <= l
    <3>1. /\ i \in 1 .. n /\ i - 1 \in 1 .. n /\ i \in k + 2 .. n + 1 /\ i - 1 \in k + 1 .. n
          /\ i \in 1 .. l /\ i - 1 <= i
      BY <1>4, <1>5, <2>5
    <3>2. /\ x[i] = s[i - 1] /\ y[i] = t[i] /\ t[i] <= a /\ v < s[i - 1] /\ s[i - 1] <= s[i]
          /\ s[i] \in Nat /\ t[i] \in Nat /\ s[i - 1] \in Nat
      BY <1>5, <1>6, <1>7, <3>1
    <3> QED BY <1>8, <3>1, <3>2
  <2>6. CASE i > k + 1 /\ i = l + 1
    <3>1. l \in 1 .. n /\ i \in k + 2 .. n + 1 /\ l \in k + 1 .. n /\ l \in 1 .. l /\ i - 1 = l
      BY <1>4, <1>5, <2>6
    <3>2. /\ x[i] = s[l] /\ y[i] = a /\ t[l] <= a /\ v < s[l]
          /\ s[l] \in Nat /\ t[l] \in Nat
      BY <1>5, <1>6, <1>7, <2>6, <3>1
    <3> QED BY <1>8, <3>1, <3>2
  <2>7. CASE i = l + 1 /\ i <= k
    <3>1. i \in 1 .. n /\ i \in l + 1 .. n /\ i \in 1 .. k
      BY <1>4, <1>5, <2>7
    <3>2. y[i] = a /\ x[i] = s[i] /\ s[i] <= v /\ a < t[i] /\ s[i] \in Nat /\ t[i] \in Nat
      BY <1>5, <1>6, <1>7, <2>7, <3>1
    <3> QED BY <1>8, <3>1, <3>2
  <2>8. CASE i > l + 1 /\ i <= k
    <3>1. /\ i \in 1 .. n /\ i - 1 \in 1 .. n /\ i \in l + 2 .. n + 1 /\ i - 1 \in l + 1 .. n
          /\ i \in 1 .. k /\ i - 1 <= i
      BY <1>4, <1>5, <2>8
    <3>2. /\ y[i] = t[i - 1] /\ x[i] = s[i] /\ s[i] <= v /\ a < t[i - 1] /\ t[i - 1] <= t[i]
          /\ s[i] \in Nat /\ t[i] \in Nat /\ t[i - 1] \in Nat
      BY <1>5, <1>6, <1>7, <3>1
    <3> QED BY <1>8, <3>1, <3>2
  <2>9. CASE i > l + 1 /\ i = k + 1
    <3>1. k \in 1 .. n /\ i \in l + 2 .. n + 1 /\ k \in l + 1 .. n /\ k \in 1 .. k /\ i - 1 = k
      BY <1>4, <1>5, <2>9
    <3>2. /\ y[i] = t[k] /\ x[i] = v /\ s[k] <= v /\ a < t[k]
          /\ s[k] \in Nat /\ t[k] \in Nat
      BY <1>5, <1>6, <1>7, <2>9, <3>1
    <3> QED BY <1>8, <3>1, <3>2
  <2> QED BY <1>4, <1>5, <2>1, <2>2, <2>3, <2>4, <2>5, <2>6, <2>7, <2>8, <2>9
<1> QED BY <1>3, <1>5, <1>9 DEF Alike, Near

-----------------------------------------------------------------------------
(* Division *)

LEMMA DivMod ==
  ASSUME NEW n \in Nat, NEW d \in Nat, d > 0
  PROVE  n \div d \in Nat /\ n % d \in Nat /\ n % d < d /\ n = d * (n \div d) + (n % d)
OBVIOUS

LEMMA ProductGrows ==
  ASSUME NEW d \in Nat, NEW a \in Int, NEW b \in Int, a + 1 <= b
  PROVE  d * a + d <= d * b
<1>1. d * b - d * a = d * (b - a)
  OBVIOUS
<1>2. PICK e \in Nat : b - a = e + 1
  OBVIOUS
<1>3. d * e \in Nat /\ d * (e + 1) = d * e + d
  OBVIOUS
<1> QED BY <1>1, <1>2, <1>3

\* There is one way to divide.
LEMMA DivUnique ==
  ASSUME NEW d \in Nat, NEW p \in Int, NEW q \in Int, NEW r \in Nat, NEW s \in Nat,
         r < d, s < d, d * p + r = d * q + s
  PROVE  p = q /\ r = s
<1>1. d * p \in Int /\ d * q \in Int
  OBVIOUS
<1>2. CASE p < q
  <2>1. d * p + d <= d * q
    BY <1>2, ProductGrows
  <2> QED BY <1>1, <2>1
<1>3. CASE q < p
  <2>1. d * q + d <= d * p
    BY <1>3, ProductGrows
  <2> QED BY <1>1, <2>1
<1>4. CASE p = q
  BY <1>1, <1>4
<1> QED BY <1>2, <1>3, <1>4

LEMMA DivMonotone ==
  ASSUME NEW m \in Nat, NEW n \in Nat, NEW d \in Nat, d > 0, m <= n
  PROVE  m \div d <= n \div d
<1>1. PICK p \in Nat, r \in Nat : p = m \div d /\ r < d /\ m = d * p + r
  BY DivMod
<1>2. PICK q \in Nat, s \in Nat : q = n \div d /\ s < d /\ n = d * q + s
  BY DivMod
<1>3. CASE q + 1 <= p
  <2>1. d * q + d <= d * p /\ d * q \in Nat /\ d * p \in Nat
    BY <1>3, ProductGrows
  <2> QED BY <1>1, <1>2, <2>1
<1> QED BY <1>1, <1>2, <1>3

\* Dividing by d and then by ten is dividing by ten times d.
LEMMA DivTwice ==
  ASSUME NEW n \in Nat, NEW d \in Nat, d > 0
  PROVE  n \div d = 10 * (n \div (10 * d)) + ((n \div d) % 10)
<1>1. PICK q \in Nat, r \in Nat : q = n \div d /\ r < d /\ n = d * q + r
  BY DivMod
<1>2. PICK u \in Nat, v \in Nat : u = q \div 10 /\ v = q % 10 /\ v < 10 /\ q = 10 * u + v
  OBVIOUS
<1>3. PICK e \in Nat : e = 10 * d /\ e > 0
  OBVIOUS
<1>4. PICK p \in Nat, s \in Nat : p = n \div e /\ s < e /\ n = e * p + s
  BY <1>3, DivMod
<1>5. d * v \in Nat /\ d * v + r < e
  <2>1. v = 0 \/ v = 1 \/ v = 2 \/ v = 3 \/ v = 4 \/ v = 5 \/ v = 6 \/ v = 7 \/ v = 8 \/ v = 9
    BY <1>2
  <2> QED BY <1>1, <1>3, <2>1
<1>6. n = e * u + (d * v + r)
  <2>1. d * q = d * (10 * u) + d * v
    BY <1>2
  <2>2. d * (10 * u) = e * u
    BY <1>3
  <2> QED BY <1>1, <2>1, <2>2
<1>7. PICK z \in Nat : z = d * v + r
  BY <1>5
<1>8. p = u
  BY <1>3, <1>4, <1>5, <1>6, <1>7, DivUnique
<1> QED BY <1>1, <1>2, <1>3, <1>4, <1>8

-----------------------------------------------------------------------------
(* Fractions of a second *)

\* The powers of ten are what their definition says: a function that satisfies it up to
\* n - 1 is continued to n.
LEMMA PowersAreDefined ==
  PowerOfTen = [k \in 0 .. Digits |-> IF k = 0 THEN 1 ELSE 10 * PowerOfTen[k - 1]]
<1> DEFINE Powers(f, n) == f = [k \in 0 .. n |-> IF k = 0 THEN 1 ELSE 10 * f[k - 1]]
           bad == {n \in Nat : \A f : ~Powers(f, n)}
<1>1. bad = {}
  <2> SUFFICES ASSUME bad # {} PROVE FALSE
    OBVIOUS
  <2>1. PICK n \in bad : \A m \in bad : n <= m
    <3>1. bad \in SUBSET Nat
      OBVIOUS
    <3> HIDE DEF bad
    <3> QED BY <3>1, LeastExists
  <2>2. n \in Nat /\ \A f : ~Powers(f, n)
    OBVIOUS
  <2>3. CASE n = 0
    <3>1. Powers([k \in 0 .. 0 |-> 1], 0)
      OBVIOUS
    <3> HIDE DEF Powers
    <3> QED BY <2>2, <2>3, <3>1
  <2>4. CASE n > 0
    <3>1. n - 1 \in Nat /\ n - 1 \notin bad
      BY <2>1, <2>2, <2>4
    <3>2. PICK f : Powers(f, n - 1)
      BY <3>1
    <3> DEFINE g == [k \in 0 .. n |-> IF k = 0 THEN 1 ELSE 10 * f[k - 1]]
    <3>3. \A k \in 0 .. n - 1 : g[k] = f[k]
      BY <2>2, <3>2
    <3>4. \A k \in 0 .. n : g[k] = IF k = 0 THEN 1 ELSE 10 * g[k - 1]
      <4> SUFFICES ASSUME NEW k \in 0 .. n PROVE g[k] = IF k = 0 THEN 1 ELSE 10 * g[k - 1]
        OBVIOUS
      <4>1. CASE k = 0
        BY <2>2, <4>1
      <4>2. CASE k # 0
        <5>1. k - 1 \in 0 .. n - 1
          BY <2>2, <4>2
        <5> QED BY <3>3, <4>2, <5>1
      <4> QED BY <4>1, <4>2
    <3>5. Powers(g, n)
      BY <3>4
    <3> HIDE DEF Powers, g
    <3> QED BY <2>2, <3>5
  <2> QED BY <2>2, <2>3, <2>4
<1>2. \E f : Powers(f, Digits)
  BY <1>1, UnitsAssumption
<1>3. PowerOfTen = CHOOSE f : Powers(f, Digits)
  BY DEF PowerOfTen
<1> HIDE DEF Powers
<1>4. Powers(PowerOfTen, Digits)
  BY <1>2, <1>3
<1> QED BY <1>4 DEF Powers

LEMMA PowersOfTen ==
  /\ \A k \in 0 .. Digits : PowerOfTen[k] \in Nat /\ PowerOfTen[k] > 0
  /\ PowerOfTen[0] = 1
  /\ \A k \in 1 .. Digits : PowerOfTen[k] = 10 * PowerOfTen[k - 1]
  /\ Second \in Nat /\ Second > 0
<1>1. \A k \in 0 .. Digits : PowerOfTen[k] = IF k = 0 THEN 1 ELSE 10 * PowerOfTen[k - 1]
  BY PowersAreDefined
<1> DEFINE bad == {k \in 0 .. Digits : ~(PowerOfTen[k] \in Nat /\ PowerOfTen[k] > 0)}
<1>2. bad = {}
  <2> SUFFICES ASSUME bad # {} PROVE FALSE
    OBVIOUS
  <2>1. PICK k \in bad : \A m \in bad : k <= m
    <3>1. bad \in SUBSET Nat
      OBVIOUS
    <3> HIDE DEF bad
    <3> QED BY <3>1, LeastExists
  <2>2. k # 0
    BY <1>1, UnitsAssumption
  <2>3. k - 1 \in 0 .. Digits /\ k - 1 \notin bad
    BY <2>1, <2>2, UnitsAssumption
  <2> QED BY <1>1, <2>2, <2>3
<1>3. \A k \in 0 .. Digits : PowerOfTen[k] \in Nat /\ PowerOfTen[k] > 0
  BY <1>2
<1>4. PowerOfTen[0] = 1 /\ \A k \in 1 .. Digits : PowerOfTen[k] = 10 * PowerOfTen[k - 1]
  BY <1>1, UnitsAssumption
<1> QED BY <1>3, <1>4, UnitsAssumption DEF Second

\* g gives the number each beginning of d stands for.
Reads(g, d) ==
  /\ g \in [0 .. Len(d) -> Nat]
  /\ g[0] = 0
  /\ \A i \in 1 .. Len(d) : g[i] = 10 * g[i - 1] + d[i]

\* Number reads digits the one way there is.
LEMMA NumberIs ==
  ASSUME NEW d, Len(d) \in Nat, NEW g, Reads(g, d)
  PROVE  Number(d) = g[Len(d)]
<1> DEFINE n == Len(d)
           Sums(f) == f = [i \in 0 .. n |-> IF i = 0 THEN 0 ELSE 10 * f[i - 1] + d[i]]
           sum == CHOOSE f : Sums(f)
<1>1. Number(d) = sum[n]
  BY DEF Number
<1>2. Sums(g)
  <2>1. g = [i \in 0 .. n |-> g[i]]
    BY DEF Reads
  <2>2. \A i \in 0 .. n : g[i] = IF i = 0 THEN 0 ELSE 10 * g[i - 1] + d[i]
    BY DEF Reads
  <2> QED BY <2>1, <2>2
<1>3. Sums(sum)
  <2> HIDE DEF Sums
  <2> QED BY <1>2
<1>4. n \in Nat /\ \A i \in 0 .. n : sum[i] = IF i = 0 THEN 0 ELSE 10 * sum[i - 1] + d[i]
  <2> HIDE DEF sum
  <2> QED BY <1>3
<1> HIDE DEF sum
<1> DEFINE bad == {i \in 0 .. n : sum[i] # g[i]}
<1>5. bad = {}
  <2> SUFFICES ASSUME bad # {} PROVE FALSE
    OBVIOUS
  <2>1. PICK i \in bad : \A m \in bad : i <= m
    <3>1. bad \in SUBSET Nat
      OBVIOUS
    <3> HIDE DEF bad
    <3> QED BY <3>1, LeastExists
  <2>2. i # 0
    BY <1>4 DEF Reads
  <2>3. i - 1 \in 0 .. n /\ i - 1 \notin bad
    BY <1>4, <2>1, <2>2
  <2> QED BY <1>4, <2>2, <2>3 DEF Reads
<1>6. sum[n] = g[n]
  BY <1>4, <1>5
<1> QED BY <1>1, <1>6

LEMMA FunctionIsSeq ==
  ASSUME NEW n \in Nat, NEW d \in [1 .. n -> Nat]
  PROVE  d \in Seq(Nat) /\ Len(d) = n
<1>1. d \in Seq(Nat)
  BY SeqDef
<1>2. 1 .. Len(d) = 1 .. n /\ Len(d) \in Nat
  BY <1>1, LenProperties
<1> QED BY <1>1, <1>2

\* The digits of a fraction stand for it.
LEMMA DigitsRead ==
  ASSUME NEW f \in Nat, f < Second
  PROVE  /\ DigitsOf(f) \in Seq(Nat) /\ Len(DigitsOf(f)) = Digits
         /\ Number(DigitsOf(f)) = f
<1> DEFINE d == DigitsOf(f)
           g == [i \in 0 .. Digits |-> f \div PowerOfTen[Digits - i]]
<1>1. \A i \in 0 .. Digits : Digits - i \in 0 .. Digits
  BY UnitsAssumption
<1>2. \A i \in 0 .. Digits : PowerOfTen[Digits - i] \in Nat /\ PowerOfTen[Digits - i] > 0
  BY <1>1, PowersOfTen
<1>3. \A i \in 0 .. Digits : f \div PowerOfTen[Digits - i] \in Nat
  BY <1>2, DivMod
<1>4. \A i \in 1 .. Digits : d[i] = (f \div PowerOfTen[Digits - i]) % 10 /\ d[i] \in Nat
  BY <1>3, UnitsAssumption DEF DigitsOf
<1>5. d \in [1 .. Digits -> Nat]
  BY <1>4 DEF DigitsOf
<1>6. d \in Seq(Nat) /\ Len(d) = Digits
  <2> HIDE DEF d
  <2> QED BY <1>5, FunctionIsSeq, UnitsAssumption
<1>7. g[0] = 0
  <2>1. PICK q \in Nat, r \in Nat : q = f \div Second /\ r < Second /\ f = Second * q + r
    BY PowersOfTen, DivMod
  <2>2. f = Second * 0 + f
    BY PowersOfTen
  <2>3. q = 0
    BY <2>1, <2>2, PowersOfTen, DivUnique
  <2>4. g[0] = f \div Second
    BY UnitsAssumption DEF Second
  <2> QED BY <2>1, <2>3, <2>4
<1>8. ASSUME NEW i \in 1 .. Digits PROVE g[i] = 10 * g[i - 1] + d[i]
  <2>1. PICK p \in Nat : p = PowerOfTen[Digits - i] /\ p > 0
    BY <1>2, UnitsAssumption
  <2>2. PowerOfTen[Digits - (i - 1)] = 10 * p
    <3>1. Digits - (i - 1) \in 1 .. Digits /\ (Digits - (i - 1)) - 1 = Digits - i
      BY UnitsAssumption
    <3> QED BY <2>1, <3>1, PowersOfTen
  <2>3. g[i] = f \div p /\ g[i - 1] = f \div (10 * p)
    BY <2>1, <2>2, UnitsAssumption
  <2>4. d[i] = (f \div p) % 10
    BY <1>4, <2>1
  <2>5. f \div p = 10 * (f \div (10 * p)) + ((f \div p) % 10)
    BY <2>1, DivTwice
  <2> QED BY <2>3, <2>4, <2>5
<1>9. g[Digits] = f
  <2>1. g[Digits] = f \div 1
    BY PowersOfTen, UnitsAssumption
  <2> QED BY <2>1
<1>10. Reads(g, d)
  <2>1. g \in [0 .. Digits -> Nat]
    BY <1>3
  <2> HIDE DEF g, d
  <2> QED BY <1>6, <1>7, <1>8, <2>1 DEF Reads
<1> HIDE DEF g, d
<1>11. Number(d) = g[Digits]
  BY <1>6, <1>10, NumberIs, UnitsAssumption
<1> QED BY <1>6, <1>9, <1>11 DEF d

\* What Go trims off, the padding puts back.
LEMMA PaddingRestores ==
  ASSUME NEW d \in Seq(Nat), Len(d) = Digits
  PROVE  IF Trimmed(d) = <<>> THEN \A i \in 1 .. Digits : d[i] = 0
         ELSE SubSeq(Trimmed(d) \o Zeros, 1, Digits) = d
<1> DEFINE kept == {i \in DOMAIN d : d[i] # 0}
<1>1. DOMAIN d = 1 .. Digits /\ \A i \in 1 .. Digits : d[i] \in Nat
  OBVIOUS
<1>2. CASE kept = {}
  <2>1. Trimmed(d) = <<>>
    BY <1>2 DEF Trimmed
  <2> QED BY <1>1, <1>2, <2>1
<1>3. CASE kept # {}
  <2> DEFINE last == CHOOSE i \in kept : \A j \in kept : j <= i
  <2>1. last \in kept /\ \A j \in kept : j <= last
    <3> DEFINE S == {Digits - i : i \in kept}
    <3>1. S \in SUBSET Nat /\ S # {}
      BY <1>1, <1>3, UnitsAssumption
    <3>2. PICK x \in S : \A y \in S : x <= y
      <4> HIDE DEF S
      <4> QED BY <3>1, LeastExists
    <3>3. PICK i \in kept : x = Digits - i
      OBVIOUS
    <3>4. \A j \in kept : j <= i
      <4> SUFFICES ASSUME NEW j \in kept PROVE j <= i
        OBVIOUS
      <4>1. Digits - j \in S
        OBVIOUS
      <4>2. Digits - i <= Digits - j /\ i \in Int /\ j \in Int
        BY <1>1, <3>2, <3>3, <4>1
      <4> QED BY <4>2, UnitsAssumption
    <3> HIDE DEF kept
    <3> QED BY <3>4
  <2> HIDE DEF last
  <2>2. last \in 1 .. Digits /\ \A i \in last + 1 .. Digits : d[i] = 0
    BY <1>1, <2>1, UnitsAssumption
  <2> DEFINE t == SubSeq(d, 1, last)
  <2>3. Trimmed(d) = t
    BY <1>3 DEF Trimmed, last
  <2>4. t \in Seq(Nat) /\ Len(t) = last /\ \A i \in 1 .. last : t[i] = d[i]
    BY <1>1, <2>2, SubSeqProperties
  <2>5. t # <<>>
    BY <2>2, <2>4
  <2> HIDE DEF t
  <2>6. Zeros \in Seq(Nat) /\ Len(Zeros) = Digits /\ \A i \in 1 .. Digits : Zeros[i] = 0
    <3>1. Zeros \in [1 .. Digits -> Nat] /\ \A i \in 1 .. Digits : Zeros[i] = 0
      BY DEF Zeros
    <3> QED BY <3>1, FunctionIsSeq, UnitsAssumption
  <2> DEFINE long == t \o Zeros
  <2>7. /\ long \in Seq(Nat) /\ Len(long) = last + Digits
        /\ \A i \in 1 .. last + Digits : long[i] = IF i <= last THEN t[i] ELSE Zeros[i - last]
    <3>1. /\ long \in Seq(Nat) /\ Len(long) = Len(t) + Len(Zeros)
          /\ \A i \in 1 .. Len(t) + Len(Zeros) : long[i] = IF i <= Len(t) THEN t[i] ELSE Zeros[i - Len(t)]
      BY <2>4, <2>6, ConcatProperties
    <3> HIDE DEF long
    <3> QED BY <2>4, <2>6, <3>1
  <2> HIDE DEF long
  <2>8. ASSUME NEW i \in 1 .. Digits PROVE long[i] = d[i] /\ long[i] \in Nat
    <3>1. i \in 1 .. last + Digits
      BY <2>2, UnitsAssumption
    <3>2. CASE i <= last
      BY <2>4, <2>7, <3>1, <3>2
    <3>3. CASE i > last
      <4>1. i - last \in 1 .. Digits /\ i \in last + 1 .. Digits /\ ~(i <= last)
        BY <2>2, <3>3, UnitsAssumption
      <4>2. long[i] = Zeros[i - last]
        BY <2>7, <3>1, <4>1
      <4> QED BY <2>2, <2>6, <4>1, <4>2
    <3> QED BY <1>1, <2>2, <3>2, <3>3
  <2> DEFINE cut == SubSeq(long, 1, Digits)
  <2>9. cut \in Seq(Nat) /\ Len(cut) = Digits /\ \A i \in 1 .. Digits : cut[i] = long[i]
    BY <2>8, SubSeqProperties, UnitsAssumption
  <2> HIDE DEF cut
  <2>10. cut = d
    BY <2>8, <2>9, SeqEqual
  <2> QED BY <2>3, <2>5, <2>10 DEF cut, long
<1> QED BY <1>2, <1>3

\* What ghz writes of an instant, parse_rfc3339_ns reads back to the nanosecond.
LEMMA RoundTrip ==
  ASSUME NEW t \in Nat
  PROVE  ParseRfc3339Ns(Rfc3339Nano(t)) = t
<1>1. PICK q \in Nat, f \in Nat : q = t \div Second /\ f = t % Second /\ f < Second /\ t = Second * q + f
  BY PowersOfTen, DivMod
<1> DEFINE d == DigitsOf(f)
           text == Rfc3339Nano(t)
<1>2. text.second = q /\ text.fraction = Trimmed(d)
  BY <1>1 DEF Rfc3339Nano
<1>3. d \in Seq(Nat) /\ Len(d) = Digits /\ Number(d) = f
  BY <1>1, DigitsRead
<1> HIDE DEF d, text
<1>4. q * Second = Second * q /\ Second * q \in Nat
  BY PowersOfTen
<1>5. CASE Trimmed(d) = <<>>
  <2>1. \A i \in 1 .. Digits : d[i] = 0
    BY <1>3, <1>5, PaddingRestores
  <2> DEFINE g == [i \in 0 .. Digits |-> 0]
  <2>2. Reads(g, d)
    BY <1>3, <2>1, UnitsAssumption DEF Reads
  <2>3. g[Digits] = 0
    BY UnitsAssumption
  <2> HIDE DEF g
  <2>4. Number(d) = 0
    BY <1>3, <2>2, <2>3, NumberIs, UnitsAssumption
  <2>5. ParseRfc3339Ns(text) = q * Second
    BY <1>2, <1>5 DEF ParseRfc3339Ns
  <2> QED BY <1>1, <1>3, <1>4, <2>4, <2>5 DEF text
<1>6. CASE Trimmed(d) # <<>>
  <2>1. SubSeq(Trimmed(d) \o Zeros, 1, Digits) = d
    BY <1>3, <1>6, PaddingRestores
  <2>2. FractionNs(Trimmed(d)) = f
    BY <1>3, <2>1 DEF FractionNs
  <2>3. ParseRfc3339Ns(text) = q * Second + f
    BY <1>2, <1>6, <2>2 DEF ParseRfc3339Ns
  <2> QED BY <1>1, <1>4, <2>3 DEF text
<1> QED BY <1>5, <1>6

-----------------------------------------------------------------------------
(* Ranks *)

\* f doubles with every halving of its argument.
Bits(f, m) == f = [k \in 0 .. m |-> IF k <= 1 THEN 1 ELSE 2 * f[k \div 2]]

LEMMA BitsExist ==
  ASSUME NEW n \in Nat
  PROVE  \E f : Bits(f, n)
<1> DEFINE bad == {m \in Nat : \A f : ~Bits(f, m)}
<1>1. ASSUME bad # {} PROVE FALSE
  <2>1. PICK m \in bad : \A j \in bad : m <= j
    <3>1. bad \in SUBSET Nat
      OBVIOUS
    <3> HIDE DEF bad
    <3> QED BY <1>1, <3>1, LeastExists
  <2>2. m \in Nat /\ \A f : ~Bits(f, m)
    OBVIOUS
  <2>3. CASE m = 0
    <3>1. Bits([k \in 0 .. 0 |-> 1], 0)
      BY DEF Bits
    <3> QED BY <2>2, <2>3, <3>1
  <2>4. CASE m > 0
    <3>1. m - 1 \in Nat /\ m - 1 \notin bad
      <4> HIDE DEF bad
      <4> QED BY <2>1, <2>2, <2>4
    <3>2. PICK f : Bits(f, m - 1)
      BY <3>1
    <3> DEFINE g == [k \in 0 .. m |-> IF k <= 1 THEN 1 ELSE 2 * f[k \div 2]]
    <3>3. \A k \in 0 .. m - 1 : g[k] = f[k]
      BY <2>2, <3>2 DEF Bits
    <3>4. ASSUME NEW k \in 0 .. m PROVE g[k] = IF k <= 1 THEN 1 ELSE 2 * g[k \div 2]
      <4>1. CASE k <= 1
        BY <2>2, <4>1
      <4>2. CASE k > 1
        <5>1. k \div 2 \in 0 .. m - 1
          BY <2>2, <4>2
        <5> QED BY <3>3, <4>2, <5>1
      <4> QED BY <2>2, <4>1, <4>2
    <3>5. Bits(g, m)
      BY <3>4 DEF Bits
    <3> QED BY <2>2, <3>5
  <2> QED BY <2>2, <2>3, <2>4
<1> QED BY <1>1

\* What LeadingBit computes on the way.
LEMMA LeadingBitIsRead ==
  ASSUME NEW n \in Nat
  PROVE  \E bit : /\ LeadingBit(n) = bit[n]
                  /\ \A k \in 0 .. n : bit[k] = IF k <= 1 THEN 1 ELSE 2 * bit[k \div 2]
<1> DEFINE bit == CHOOSE f : Bits(f, n)
<1>1. LeadingBit(n) = bit[n]
  BY DEF LeadingBit, Bits
<1>2. Bits(bit, n)
  BY BitsExist
<1> HIDE DEF bit
<1>3. \A k \in 0 .. n : bit[k] = IF k <= 1 THEN 1 ELSE 2 * bit[k \div 2]
  BY <1>2 DEF Bits
<1> QED BY <1>1, <1>3

\* It is at most n and more than half of n.
LEMMA LeadingBitIs ==
  ASSUME NEW n \in Nat, n > 0
  PROVE  LeadingBit(n) \in Nat /\ LeadingBit(n) <= n /\ n < 2 * LeadingBit(n)
<1>1. PICK bit : /\ LeadingBit(n) = bit[n]
                 /\ \A k \in 0 .. n : bit[k] = IF k <= 1 THEN 1 ELSE 2 * bit[k \div 2]
  BY LeadingBitIsRead
<1> DEFINE wrong == {k \in 1 .. n : ~(bit[k] \in Nat /\ bit[k] <= k /\ k < 2 * bit[k])}
<1>2. ASSUME wrong # {} PROVE FALSE
  <2>1. PICK k \in wrong : \A j \in wrong : k <= j
    <3>1. wrong \in SUBSET Nat
      OBVIOUS
    <3> HIDE DEF wrong
    <3> QED BY <1>2, <3>1, LeastExists
  <2>2. k \in 1 .. n /\ k # 1
    BY <1>1
  <2> DEFINE h == k \div 2
  <2>3. h \in 1 .. n /\ h < k /\ 2 * h <= k /\ k <= 2 * h + 1
    BY <2>2
  <2>4. bit[k] = 2 * bit[h]
    BY <1>1, <2>2
  <2> HIDE DEF h
  <2>5. bit[h] \in Nat /\ bit[h] <= h /\ h < 2 * bit[h]
    BY <2>1, <2>3
  <2>6. bit[k] \in Nat /\ bit[k] <= k /\ k < 2 * bit[k]
    BY <2>2, <2>3, <2>4, <2>5
  <2> QED BY <2>6
<1>3. n \in 1 .. n
  OBVIOUS
<1> QED BY <1>1, <1>2, <1>3

\* Where the double that percentile() computes does not pass a whole number.
NoRoundingUp(p, n) == p # 999 \/ n % 1000 # 0

\* c is the least with at least p thousandths of n.
IsCeiling(c, p, n) == c \in Nat /\ 1000 * c >= p * n /\ 1000 * (c - 1) < p * n

\* A product is rounded up to the next whole number, and a whole one is left alone.
LEMMA CeilIs ==
  ASSUME NEW p \in PERCENTILES \cup {250, 750}, NEW n \in Nat, n > 0, NoRoundingUp(p, n)
  PROVE  IsCeiling(CeilProduct(p, n), p, n)
<1>1. p = 250 \/ p = 500 \/ p = 750 \/ p = 900 \/ p = 950 \/ p = 990 \/ p = 999
  BY DEF PERCENTILES
<1>2. PICK x \in Nat : x = p * n /\ x > 0
  BY <1>1
<1>3. PICK whole \in Nat, rest \in 0 .. 999 :
        whole = x \div 1000 /\ rest = x % 1000 /\ x = 1000 * whole + rest
  OBVIOUS
<1>4. CASE rest # 0
  <2>1. CeilProduct(p, n) = whole + 1
    BY <1>2, <1>3, <1>4 DEF CeilProduct
  <2> QED BY <1>2, <1>3, <1>4, <2>1 DEF IsCeiling
<1>5. CASE rest = 0
  <2>1. whole > 0 /\ x = 1000 * whole
    BY <1>2, <1>3, <1>5
  <2>2. PICK b \in Nat : b = LeadingBit(whole) /\ b <= whole /\ whole < 2 * b
    BY <2>1, LeadingBitIs
  <2>3. ~(FactorError(p) * n > 1000 * b)
    <3>1. CASE p = 250 \/ p = 500 \/ p = 750
      <4>1. FactorError(p) = 0
        BY <3>1 DEF FactorError
      <4> QED BY <4>1
    <3>2. CASE p = 900
      <4>1. FactorError(p) = 200
        BY <3>2 DEF FactorError
      <4> QED BY <1>2, <2>1, <2>2, <3>2, <4>1
    <3>3. CASE p = 950
      <4>1. FactorError(p) = -400
        BY <3>3 DEF FactorError
      <4> QED BY <4>1
    <3>4. CASE p = 990
      <4>1. FactorError(p) = -80
        BY <3>4 DEF FactorError
      <4> QED BY <4>1
    <3>5. CASE p = 999
      <4>1. (999 * n) % 1000 = 0 /\ n % 1000 # 0
        BY <1>2, <1>3, <1>5, <3>5 DEF NoRoundingUp
      <4> QED BY <4>1
    <3> QED BY <1>1, <3>1, <3>2, <3>3, <3>4, <3>5
  <2>4. CeilProduct(p, n) = whole
    BY <1>2, <1>3, <1>5, <2>2, <2>3 DEF CeilProduct
  <2> QED BY <1>2, <2>1, <2>4 DEF IsCeiling
<1> QED BY <1>3, <1>4, <1>5

LEMMA LowIs ==
  ASSUME NEW S \in SUBSET Int, NEW x \in S, \A y \in S : x <= y
  PROVE  Low(S) = x
<1>1. \A z \in S : (\A y \in S : z <= y) => z = x
  OBVIOUS
<1> QED BY <1>1 DEF Low

LEMMA HighIs ==
  ASSUME NEW S \in SUBSET Int, NEW x \in S, \A y \in S : x >= y
  PROVE  High(S) = x
<1>1. \A z \in S : (\A y \in S : z >= y) => z = x
  OBVIOUS
<1> QED BY <1>1 DEF High

LEMMA ClampIs ==
  ASSUME NEW n \in Nat, NEW c \in 1 .. n
  PROVE  High({1, Low({c, n})}) = c
<1>1. Low({c, n}) = c
  BY LowIs
<1>2. High({1, c}) = c
  BY HighIs
<1> QED BY <1>1, <1>2

\* The rank is the least with at least p percent of the sample up to it.
LEMMA RankIs ==
  ASSUME NEW p \in PERCENTILES \cup {250, 750}, NEW n \in Nat, n > 0, NoRoundingUp(p, n)
  PROVE  Rank(p, n) \in 1 .. n /\ IsCeiling(Rank(p, n), p, n)
<1>1. PICK x \in Nat : x = p * n /\ 0 < x /\ x < 1000 * n
  BY DEF PERCENTILES
<1>2. PICK c : c = CeilProduct(p, n) /\ IsCeiling(c, p, n)
  BY CeilIs
<1>3. c \in 1 .. n
  BY <1>1, <1>2 DEF IsCeiling
<1>4. Rank(p, n) = c
  BY <1>2, <1>3, ClampIs DEF Rank
<1> QED BY <1>2, <1>3, <1>4

\* How many come before a rank of a sorted list, and how many up to it.
LEMMA CountsAround ==
  ASSUME NEW s, SortedSeq(s), NEW k \in 1 .. Len(s)
  PROVE  /\ Cardinality({i \in DOMAIN s : s[i] <= s[k]}) \in Nat
         /\ Cardinality({i \in DOMAIN s : s[i] <= s[k]}) >= k
         /\ Cardinality({i \in DOMAIN s : s[i] < s[k]}) \in Nat
         /\ Cardinality({i \in DOMAIN s : s[i] < s[k]}) <= k - 1
<1> DEFINE upTo == {i \in DOMAIN s : s[i] <= s[k]}
           below == {i \in DOMAIN s : s[i] < s[k]}
<1>1. PICK n \in Nat : n = Len(s) /\ DOMAIN s = 1 .. n /\ \A i \in 1 .. n : s[i] \in Nat
  BY DEF SortedSeq
<1>2. \A i, j \in 1 .. n : i <= j => s[i] <= s[j]
  BY <1>1 DEF SortedSeq
<1>3. k \in 1 .. n
  BY <1>1
<1>4. 1 .. k \in SUBSET upTo /\ upTo \in SUBSET (1 .. n)
  BY <1>1, <1>2, <1>3
<1>5. below \in SUBSET (1 .. k - 1)
  <2> SUFFICES ASSUME NEW i \in below PROVE i \in 1 .. k - 1
    OBVIOUS
  <2>1. i \in 1 .. n /\ s[i] < s[k] /\ s[i] \in Nat /\ s[k] \in Nat
    BY <1>1, <1>3
  <2>2. ~(k <= i)
    BY <1>2, <1>3, <2>1
  <2> QED BY <1>3, <2>1, <2>2
<1> HIDE DEF upTo, below
<1>6. IsFiniteSet(1 .. n) /\ IsFiniteSet(1 .. k) /\ Cardinality(1 .. k) = k
  BY <1>1, <1>3, FS_Interval
<1>7. PICK j \in Int : j = k - 1 /\ IsFiniteSet(1 .. j) /\ Cardinality(1 .. j) = k - 1
  <2>1. k - 1 \in Int
    BY <1>3
  <2>2. \A j \in Int : IsFiniteSet(1 .. j) /\ Cardinality(1 .. j) = IF 1 > j THEN 0 ELSE j - 1 + 1
    BY FS_Interval
  <2> QED BY <1>3, <2>1, <2>2
<1>8. IsFiniteSet(upTo) /\ Cardinality(upTo) \in Nat /\ Cardinality(upTo) >= k
  <2>1. IsFiniteSet(upTo)
    BY <1>4, <1>6, FS_Subset
  <2>2. Cardinality(1 .. k) <= Cardinality(upTo)
    BY <1>4, <2>1, FS_Subset
  <2> QED BY <1>3, <1>6, <2>1, <2>2, FS_CardinalityType
<1>9. Cardinality(below) \in Nat /\ Cardinality(below) <= k - 1
  <2>1. IsFiniteSet(below) /\ Cardinality(below) <= Cardinality(1 .. j)
    BY <1>5, <1>7, FS_Subset
  <2> QED BY <1>7, <2>1, FS_CardinalityType
<1> QED BY <1>8, <1>9 DEF upTo, below

\* A percentile is the nearest rank, whatever the sample, unless it is a p99.9 of whole
\* thousands.
LEMMA PercentileIs ==
  ASSUME NEW s, SortedSeq(s), s # <<>>, NEW p \in PERCENTILES, NoRoundingUp(p, Len(s))
  PROVE  IsNearestRank(s, p)
<1>1. PICK n \in Nat : n = Len(s) /\ n > 0 /\ DOMAIN s = 1 .. n
  BY DEF SortedSeq
<1>2. PICK k \in 1 .. n : k = Rank(p, n) /\ IsCeiling(k, p, n)
  BY <1>1, RankIs
<1>3. Percentile(s, p) = s[k]
  BY <1>1, <1>2 DEF Percentile
<1>4. PICK u \in Nat : u = Cardinality({i \in DOMAIN s : s[i] <= s[k]}) /\ u >= k
  BY <1>1, CountsAround
<1>5. PICK b \in Nat : b = Cardinality({i \in DOMAIN s : s[i] < s[k]}) /\ b <= k - 1
  BY <1>1, CountsAround
<1>6. PICK x \in Nat : x = p * n
  BY DEF PERCENTILES
<1>7. 1000 * u >= p * n /\ 1000 * b < p * n
  BY <1>2, <1>4, <1>5, <1>6 DEF IsCeiling
<1> QED BY <1>1, <1>3, <1>4, <1>5, <1>7 DEF IsNearestRank

-----------------------------------------------------------------------------
(* What a record says *)

Requested == [start: Nat, end: Nat, status: Statuses]

Resolution(t) == IF t = "ghz" THEN 1 ELSE Milli

\* c is true to the request r, to within the resolution of the tool t.
SaysOf(t, r, c) ==
  /\ c # None
  /\ c.latency_ns \in Nat /\ c.latency_resolution_ns = Resolution(t)
  /\ c.ok <=> r.status = "OK"
  /\ Near(c.start_ns, r.start, Resolution(t))
  /\ Near(c.end_ns, r.end, Resolution(t))
  /\ Near(c.latency_ns, r.end - r.start, Resolution(t))
  /\ c.end_ns - c.start_ns = c.latency_ns

\* ghz writes nanoseconds, and the instant is read back as it was written.
LEMMA GhzSays ==
  ASSUME NEW r \in Requested, r.start <= r.end
  PROVE  SaysOf("ghz", r, Canonical("ghz", r))
<1>1. r.start \in Nat /\ r.end \in Nat
  BY DEF Requested
<1>2. PICK end, latency \in Nat, s \in Nat : end = r.end /\ s = r.start /\ latency = end - s
  BY <1>1
<1>3. ParseRfc3339Ns(Rfc3339Nano(r.end)) = end
  BY <1>1, <1>2, RoundTrip
<1>4. PICK d : d = GhzDetail(r)
  OBVIOUS
<1>5. d.timestamp = Rfc3339Nano(r.end) /\ d.latency = latency
  BY <1>2, <1>4 DEF GhzDetail
<1>6. GhzOk(d) <=> r.status = "OK"
  BY <1>4 DEF GhzDetail, GhzOk, Requested, Statuses
<1>7. PICK c : c = NormalizeGhz(d)
  OBVIOUS
<1>8. /\ c.start_ns = end - latency /\ c.end_ns = end /\ c.latency_ns = latency
      /\ c.ok = GhzOk(d) /\ c.latency_resolution_ns = 1 /\ c # None
  <2>1. c = [start_ns |-> end - latency, end_ns |-> end, latency_ns |-> latency,
             ok |-> GhzOk(d), latency_resolution_ns |-> 1]
    BY <1>3, <1>5, <1>7 DEF NormalizeGhz
  <2>2. c # None
    <3>1. "ok" \in DOMAIN c /\ "ok" \notin DOMAIN None
      BY <2>1 DEF None
    <3> QED BY <3>1
  <2> QED BY <2>1, <2>2
<1>9. end \in Nat
  BY <1>1, <1>2
<1>10. Near(c.start_ns, s, 1) /\ Near(c.end_ns, end, 1) /\ Near(c.latency_ns, end - s, 1)
  BY <1>2, <1>8, <1>9 DEF Near
<1>11. c.latency_ns \in Nat /\ c.end_ns - c.start_ns = c.latency_ns
  BY <1>2, <1>8, <1>9
<1>12. Canonical("ghz", r) = c
  BY <1>4, <1>7 DEF Canonical
<1>13. Resolution("ghz") = 1
  BY DEF Resolution
<1> QED BY <1>2, <1>6, <1>8, <1>10, <1>11, <1>12, <1>13 DEF SaysOf

\* JMeter reads both instants off a clock that drops what is less than a millisecond.
LEMMA JMeterSays ==
  ASSUME NEW r \in Requested, r.start <= r.end
  PROVE  SaysOf("jmeter", r, Canonical("jmeter", r))
<1>1. PICK s \in Nat, e \in Nat : s = r.start /\ e = r.end /\ s <= e
  BY DEF Requested
<1>2. PICK m \in Nat : m = Milli /\ m > 0
  BY UnitsAssumption
<1>3. PICK x \in Nat, u \in Nat : x = s \div m /\ u < m /\ s = m * x + u
  <2>1. s \div m \in Nat /\ s % m \in Nat /\ s % m < m /\ s = m * (s \div m) + (s % m)
    BY <1>2, DivMod
  <2> QED BY <2>1
<1>4. PICK y \in Nat, v \in Nat : y = e \div m /\ v < m /\ e = m * y + v
  <2>1. e \div m \in Nat /\ e % m \in Nat /\ e % m < m /\ e = m * (e \div m) + (e % m)
    BY <1>2, DivMod
  <2> QED BY <2>1
<1>5. x <= y
  BY <1>1, <1>2, <1>3, <1>4, DivMonotone
<1>6. PICK a \in Nat, b \in Nat : a = m * x /\ b = m * y /\ x * m = a /\ (y - x) * m = b - a
  <2>1. m * x \in Nat /\ m * y \in Nat /\ x * m = m * x /\ (y - x) * m = m * y - m * x
    BY <1>2, <1>3, <1>4
  <2> QED BY <2>1
<1>7. b - a \in Nat
  <2>1. y - x \in Nat
    BY <1>3, <1>4, <1>5
  <2>2. (y - x) * m \in Nat
    BY <1>2, <2>1
  <2> QED BY <1>6, <2>2
<1>8. PICK d : d = JMeterRow(r)
  OBVIOUS
<1>9. d.timeStamp = x /\ d.elapsed = y - x
  BY <1>1, <1>2, <1>3, <1>4, <1>8 DEF JMeterRow
<1>10. d.success = (r.status = "OK")
  BY <1>8 DEF JMeterRow
<1>11. PICK c : c = NormalizeJMeter(d)
  OBVIOUS
<1>12. /\ c.start_ns = a /\ c.end_ns = a + (b - a) /\ c.latency_ns = b - a
       /\ c.ok = d.success /\ c.latency_resolution_ns = m /\ c # None
  <2>1. c = [start_ns |-> a, end_ns |-> a + (b - a), latency_ns |-> b - a,
             ok |-> d.success, latency_resolution_ns |-> m]
    BY <1>2, <1>6, <1>9, <1>11 DEF NormalizeJMeter
  <2>2. c # None
    <3>1. "ok" \in DOMAIN c /\ "ok" \notin DOMAIN None
      BY <2>1 DEF None
    <3> QED BY <3>1
  <2> QED BY <2>1, <2>2
<1>13. s = a + u /\ e = b + v
  BY <1>3, <1>4, <1>6
<1>14. Near(c.start_ns, s, m) /\ Near(c.end_ns, e, m) /\ Near(c.latency_ns, e - s, m)
  <2>1. c.start_ns = a /\ c.end_ns = b /\ c.latency_ns = b - a
    BY <1>6, <1>12
  <2>2. Near(a, s, m) /\ Near(b, e, m) /\ Near(b - a, e - s, m)
    <3>1. u < m /\ v < m
      BY <1>3, <1>4
    <3> QED BY <1>2, <1>13, <3>1 DEF Near
  <2> QED BY <2>1, <2>2
<1>15. c.latency_ns \in Nat /\ c.end_ns - c.start_ns = c.latency_ns
  BY <1>6, <1>7, <1>12
<1>16. Canonical("jmeter", r) = c
  BY <1>8, <1>11 DEF Canonical
<1>17. Resolution("jmeter") = m
  BY <1>2 DEF Resolution
<1> QED BY <1>1, <1>10, <1>12, <1>14, <1>15, <1>16, <1>17 DEF SaysOf

LEMMA ToolSays ==
  ASSUME NEW t \in Tools, NEW r \in Requested, r.start <= r.end
  PROVE  SaysOf(t, r, Canonical(t, r))
BY GhzSays, JMeterSays DEF Tools

-----------------------------------------------------------------------------
(* Ranks of samples of any size *)

\* The rank is never below the nearest rank and at most one above it, where the double
\* passes a whole number.
LEMMA RankWithinOne ==
  ASSUME NEW p \in PERCENTILES \cup {250, 750}, NEW n \in Nat, n > 0
  PROVE  /\ Rank(p, n) \in 1 .. n
         /\ 1000 * Rank(p, n) >= p * n /\ 1000 * (Rank(p, n) - 2) < p * n
<1>1. PICK x \in Nat : x = p * n /\ 0 < x /\ x < 1000 * n
  BY DEF PERCENTILES
<1>2. PICK whole \in Nat, rest \in 0 .. 999 :
        whole = x \div 1000 /\ rest = x % 1000 /\ x = 1000 * whole + rest
  OBVIOUS
<1>3. PICK c : c = CeilProduct(p, n)
  OBVIOUS
<1>4. c = whole + 1 \/ (c = whole /\ rest = 0)
  BY <1>1, <1>2, <1>3 DEF CeilProduct
<1>5. c \in 1 .. n /\ 1000 * c >= x /\ 1000 * (c - 2) < x
  <2>1. 0 < x /\ x < 1000 * n /\ x = 1000 * whole + rest
    BY <1>1, <1>2
  <2>2. whole < n
    BY <2>1
  <2> QED BY <1>4, <2>1, <2>2
<1>6. Rank(p, n) = c
  BY <1>3, <1>5, ClampIs DEF Rank
<1> QED BY <1>1, <1>5, <1>6

\* Percentile(s, p) is in the sample with at least p percent no larger, and leaving out
\* one of those before it, less than p percent are smaller.
NearlyNearestRank(s, p) ==
  LET v == Percentile(s, p)
      upTo == Cardinality({i \in DOMAIN s : s[i] <= v})
      below == Cardinality({i \in DOMAIN s : s[i] < v})
  IN  /\ \E i \in DOMAIN s : s[i] = v
      /\ 1000 * upTo >= p * Len(s)
      /\ 1000 * (below - 1) < p * Len(s)

LEMMA PercentileWithinOne ==
  ASSUME NEW s, SortedSeq(s), s # <<>>, NEW p \in PERCENTILES
  PROVE  NearlyNearestRank(s, p)
<1>1. PICK n \in Nat : n = Len(s) /\ n > 0 /\ DOMAIN s = 1 .. n
  BY DEF SortedSeq
<1>2. PICK k \in 1 .. n : k = Rank(p, n) /\ 1000 * k >= p * n /\ 1000 * (k - 2) < p * n
  BY <1>1, RankWithinOne
<1>3. Percentile(s, p) = s[k]
  BY <1>1, <1>2 DEF Percentile
<1>4. PICK u \in Nat : u = Cardinality({i \in DOMAIN s : s[i] <= s[k]}) /\ u >= k
  BY <1>1, CountsAround
<1>5. PICK b \in Nat : b = Cardinality({i \in DOMAIN s : s[i] < s[k]}) /\ b <= k - 1
  BY <1>1, CountsAround
<1>6. PICK x \in Nat : x = p * n
  BY DEF PERCENTILES
<1>7. 1000 * u >= p * n /\ 1000 * (b - 1) < p * n
  BY <1>2, <1>4, <1>5, <1>6
<1> QED BY <1>1, <1>3, <1>4, <1>5, <1>7 DEF NearlyNearestRank

\* Percentiles of lists that are alike are as near as the lists.
LEMMA PercentilesAlike ==
  ASSUME NEW s, SortedSeq(s), s # <<>>, NEW t, NEW R, Alike(s, t, R), NEW p \in PERCENTILES
  PROVE  Near(Percentile(s, p), Percentile(t, p), R)
<1>1. PICK n \in Nat : n = Len(s) /\ n > 0 /\ Len(t) = n
  BY DEF SortedSeq, Alike
<1>2. PICK k \in 1 .. n : k = Rank(p, n)
  BY <1>1, RankWithinOne
<1>3. Percentile(s, p) = s[k] /\ Percentile(t, p) = t[k]
  BY <1>1, <1>2 DEF Percentile
<1> QED BY <1>1, <1>3 DEF Alike

\* A list without one of its values.
Left(s, i) == {s[j] : j \in DOMAIN s \ {i}}

\* What is left of a sorted list without one of its values reaches from its second value or
\* below to its last but one or above.
LEMMA WhatIsLeft ==
  ASSUME NEW s, SortedSeq(s), NEW n, n = Len(s), n >= 2, NEW i \in DOMAIN s
  PROVE  /\ Low(Left(s, i)) \in Nat
         /\ Low(Left(s, i)) <= s[2]
         /\ High(Left(s, i)) \in Nat
         /\ High(Left(s, i)) >= s[n - 1]
<1> DEFINE left == Left(s, i)
<1>1. n \in Nat /\ DOMAIN s = 1 .. n /\ \A j \in 1 .. n : s[j] \in Nat
  BY DEF SortedSeq
<1>2. \A j, k \in 1 .. n : j <= k => s[j] <= s[k]
  BY DEF SortedSeq
<1>3. left \in SUBSET Int
  BY <1>1 DEF Left
<1>4. PICK a \in 1 .. 2 : a # i /\ \A j \in 1 .. n : j # i => a <= j
  <2>1. CASE i = 1
    <3>1. \A j \in 1 .. n : j # i => 2 <= j
      BY <1>1, <2>1
    <3> QED BY <2>1, <3>1
  <2>2. CASE i # 1
    BY <1>1, <2>2
  <2> QED BY <2>1, <2>2
<1>5. PICK b \in n - 1 .. n : b # i /\ \A j \in 1 .. n : j # i => j <= b
  <2>1. CASE i = n
    <3>1. \A j \in 1 .. n : j # i => j <= n - 1
      BY <1>1, <2>1
    <3>2. n - 1 \in n - 1 .. n /\ n - 1 # i
      BY <1>1, <2>1
    <3> QED BY <3>1, <3>2
  <2>2. CASE i # n
    BY <1>1, <2>2
  <2> QED BY <2>1, <2>2
<1>6. a \in 1 .. n /\ b \in 1 .. n /\ 2 \in 1 .. n /\ n - 1 \in 1 .. n /\ a <= 2 /\ n - 1 <= b
  BY <1>1, <1>4, <1>5
<1>7. s[a] \in left /\ s[b] \in left
  BY <1>1, <1>4, <1>5, <1>6 DEF Left
<1>8. \A y \in left : s[a] <= y /\ y <= s[b]
  <2> SUFFICES ASSUME NEW j \in 1 .. n, j # i PROVE s[a] <= s[j] /\ s[j] <= s[b]
    BY <1>1 DEF Left
  <2>1. a <= j /\ j <= b
    BY <1>4, <1>5
  <2> QED BY <1>2, <1>6, <2>1
<1> HIDE DEF left
<1>9. Low(left) = s[a]
  BY <1>3, <1>7, <1>8, LowIs
<1>10. High(left) = s[b]
  <2>1. \A y \in left : s[b] >= y
    BY <1>1, <1>3, <1>6, <1>8
  <2> QED BY <1>3, <1>7, <2>1, HighIs
<1>11. s[a] \in Nat /\ s[b] \in Nat /\ s[2] \in Nat /\ s[n - 1] \in Nat
  BY <1>1, <1>6
<1>12. s[a] <= s[2] /\ s[n - 1] <= s[b]
  BY <1>2, <1>6
<1> QED BY <1>9, <1>10, <1>11, <1>12 DEF left

\* Of three or more, the median lies from the second to the last but one.
LEMMA MedianIsInside ==
  ASSUME NEW s, SortedSeq(s), NEW n, n = Len(s), n >= 3
  PROVE  2 * s[2] <= Headline(s) /\ Headline(s) <= 2 * s[n - 1] /\ Headline(s) \in Nat
<1>1. n \in Nat /\ \A j \in 1 .. n : s[j] \in Nat
  BY DEF SortedSeq
<1>2. \A j, k \in 1 .. n : j <= k => s[j] <= s[k]
  BY DEF SortedSeq
<1>3. \A k \in 2 .. n - 1 : s[2] <= s[k] /\ s[k] <= s[n - 1] /\ s[k] \in Nat
  <2> SUFFICES ASSUME NEW k \in 2 .. n - 1 PROVE s[2] <= s[k] /\ s[k] <= s[n - 1] /\ s[k] \in Nat
    OBVIOUS
  <2>1. 2 \in 1 .. n /\ k \in 1 .. n /\ n - 1 \in 1 .. n /\ 2 <= k /\ k <= n - 1
    BY <1>1
  <2> QED BY <1>1, <1>2, <2>1
<1>4. s[2] \in Nat /\ s[n - 1] \in Nat
  <2>1. 2 \in 2 .. n - 1 /\ n - 1 \in 2 .. n - 1
    BY <1>1
  <2> QED BY <1>3, <2>1
<1>5. CASE n % 2 = 1
  <2>1. PICK k \in 2 .. n - 1 : k = (n + 1) \div 2
    BY <1>1, <1>5
  <2>2. Headline(s) = 2 * s[k]
    BY <1>5, <2>1 DEF Headline, TwiceMedian
  <2> QED BY <1>3, <1>4, <2>2
<1>6. CASE n % 2 # 1
  <2>1. PICK k \in 2 .. n - 1 : k = n \div 2 /\ k + 1 \in 2 .. n - 1
    BY <1>1, <1>6
  <2>2. Headline(s) = s[k] + s[k + 1]
    BY <1>6, <2>1 DEF Headline, TwiceMedian
  <2>3. /\ s[2] <= s[k] /\ s[k] <= s[n - 1] /\ s[k] \in Nat
        /\ s[2] <= s[k + 1] /\ s[k + 1] <= s[n - 1] /\ s[k + 1] \in Nat
    BY <1>3, <2>1
  <2> QED BY <1>4, <2>2, <2>3
<1> QED BY <1>5, <1>6

\* Of five or more, so do the quartiles.
LEMMA SpreadIsInside ==
  ASSUME NEW s, SortedSeq(s), NEW n, n = Len(s), n >= 5
  PROVE  Spread(s) \in Int /\ Spread(s) <= s[n - 1] - s[2]
<1>1. n \in Nat /\ \A j \in 1 .. n : s[j] \in Nat
  BY DEF SortedSeq
<1>2. \A j, k \in 1 .. n : j <= k => s[j] <= s[k]
  BY DEF SortedSeq
<1>3. PICK k \in 1 .. n : k = Rank(750, n) /\ 1000 * (k - 1) < 750 * n
  <2>1. PICK p \in PERCENTILES \cup {250, 750} : p = 750 /\ NoRoundingUp(p, n)
    BY DEF NoRoundingUp
  <2>2. Rank(p, n) \in 1 .. n /\ IsCeiling(Rank(p, n), p, n)
    BY <1>1, <2>1, RankIs
  <2> QED BY <2>1, <2>2 DEF IsCeiling
<1>4. PICK l \in 1 .. n : l = Rank(250, n) /\ 1000 * l >= 250 * n
  <2>1. PICK p \in PERCENTILES \cup {250, 750} : p = 250 /\ NoRoundingUp(p, n)
    BY DEF NoRoundingUp
  <2>2. Rank(p, n) \in 1 .. n /\ IsCeiling(Rank(p, n), p, n)
    BY <1>1, <2>1, RankIs
  <2> QED BY <2>1, <2>2 DEF IsCeiling
<1>5. k <= n - 1 /\ l >= 2 /\ n - 1 \in 1 .. n /\ 2 \in 1 .. n
  BY <1>1, <1>3, <1>4
<1>6. s[k] <= s[n - 1] /\ s[2] <= s[l]
  BY <1>2, <1>5
<1>7. Spread(s) = s[k] - s[l]
  BY <1>1, <1>3, <1>4 DEF Spread, Percentile
<1>8. s[k] \in Nat /\ s[l] \in Nat /\ s[2] \in Nat /\ s[n - 1] \in Nat
  BY <1>1, <1>5
<1> QED BY <1>6, <1>7, <1>8

-----------------------------------------------------------------------------
(* The sample *)

\* Both lists are sorted and, rank by rank, within the resolution of each other, and the
\* record is true to the request that joined last.
SInv ==
  /\ tool \in Tools
  /\ SortedSeq(values) /\ SortedSeq(actual)
  /\ Len(values) <= MaxLen
  /\ Alike(values, actual, Resolution(tool))
  /\ record = None <=> request = None
  /\ request # None => request \in Requested /\ SaysOf(tool, request, record)
  /\ values # <<>> => request # None

LEMMA ResolutionIsNat ==
  ASSUME NEW t \in Tools
  PROVE  Resolution(t) \in Nat
BY UnitsAssumption DEF Resolution

LEMMA SInit == Init => SInv
<1> SUFFICES ASSUME Init PROVE SInv
  OBVIOUS
<1>1. SortedSeq(<<>>)
  BY DEF SortedSeq
<1>2. Alike(<<>>, <<>>, Resolution(tool))
  BY DEF Alike
<1> QED BY <1>1, <1>2, MaxLenAssumption DEF Init, SInv

\* What a step makes of the sample is decided by the record it takes in.
LEMMA SMeasure ==
  ASSUME SInv, NEW r \in Arrivals(Len(values)), Measure(r)
  PROVE  SInv'
<1>1. PICK t : t = tool /\ t \in Tools /\ tool' = t
  BY DEF SInv, Measure
<1>2. PICK n \in Nat : n = Len(values) /\ n < MaxLen /\ n \in 0 .. MaxLen
  BY MaxLenAssumption DEF SInv, SortedSeq, Measure
<1>3. r \in Requested /\ r.start <= r.end
  BY <1>2, ArrivalsAssumption DEF Requested
<1>4. PICK c : c = Canonical(t, r) /\ SaysOf(t, r, c)
  BY <1>1, <1>3, ToolSays
<1>5. request' = r /\ record' = c
  BY <1>1, <1>4 DEF Measure
<1>6. r # None /\ c # None
  <2>1. "start" \in DOMAIN r /\ "start" \notin DOMAIN None
    BY <1>3 DEF Requested, None
  <2>2. r # None
    BY <2>1
  <2> QED BY <1>4, <2>2 DEF SaysOf
<1>7. PICK v \in Nat, a \in Nat : v = c.latency_ns /\ a = r.end - r.start /\ Near(v, a, Resolution(t))
  <2>1. r.end - r.start \in Nat
    BY <1>3 DEF Requested
  <2> QED BY <1>4, <2>1 DEF SaysOf
<1>8. CASE c.ok
  <2>1. values' = Sorted(values, v) /\ actual' = Sorted(actual, a)
    BY <1>5, <1>7, <1>8 DEF Measure
  <2>2. SortedSeq(values) /\ SortedSeq(actual) /\ Alike(values, actual, Resolution(t))
    BY <1>1 DEF SInv
  <2>3. SortedSeq(values') /\ SortedSeq(actual') /\ Len(values') = n + 1
    BY <1>2, <1>7, <2>1, <2>2, InsertSorted
  <2>4. Alike(values', actual', Resolution(t))
    <3>1. Resolution(t) \in Nat
      BY <1>1, ResolutionIsNat
    <3> QED BY <1>7, <2>1, <2>2, <3>1, InsertNear
  <2>5. Len(values') <= MaxLen
    BY <1>2, <2>3, MaxLenAssumption
  <2> QED BY <1>1, <1>3, <1>4, <1>5, <1>6, <2>3, <2>4, <2>5 DEF SInv
<1>9. CASE ~c.ok
  <2>1. values' = values /\ actual' = actual
    BY <1>5, <1>9 DEF Measure
  <2> QED BY <1>1, <1>3, <1>4, <1>5, <1>6, <2>1 DEF SInv
<1> QED BY <1>8, <1>9

LEMMA SStep == SInv /\ [Next]_vars => SInv'
<1> SUFFICES ASSUME SInv, [Next]_vars PROVE SInv'
  OBVIOUS
<1>1. CASE Next
  BY <1>1, SMeasure DEF Next
<1>2. CASE UNCHANGED vars
  BY <1>2 DEF vars, SInv
<1> QED BY <1>1, <1>2

LEMMA SHolds == Spec => []SInv
BY SInit, SStep, PTL DEF Spec

-----------------------------------------------------------------------------
(* What the module promises *)

\* The lists hold naturals, as many of the one as of the other, and the sample is sorted,
\* which is what percentile() asks of what it is given (analyze.py 42-43).
THEOREM StatisticsTypeOK == Spec => []TypeOK
<1>1. ASSUME SInv PROVE TypeOK
  <2>1. SortedSeq(values) /\ SortedSeq(actual) /\ Len(actual) = Len(values)
    BY <1>1 DEF SInv, Alike
  <2>2. \A i \in 1 .. Len(values) - 1 : values[i] <= values[i + 1]
    <3> SUFFICES ASSUME NEW i \in 1 .. Len(values) - 1 PROVE values[i] <= values[i + 1]
      OBVIOUS
    <3>1. i \in 1 .. Len(values) /\ i + 1 \in 1 .. Len(values) /\ i <= i + 1
      BY <2>1 DEF SortedSeq
    <3> QED BY <2>1, <3>1 DEF SortedSeq
  <2> QED BY <1>1, <2>1, <2>2 DEF SInv, SortedSeq, TypeOK
<1> QED BY <1>1, SHolds, PTL

\* Every percentile of a sample is the nearest rank (analyze.py 18-21): below a thousand
\* requests the double of p/100 * len never passes a whole number.
THEOREM NearestRankBelowAThousand ==
  ASSUME MaxLen < 1000
  PROVE  Spec => []NearestRank
<1>1. ASSUME SInv PROVE NearestRank
  <2> SUFFICES ASSUME values # <<>>, NEW p \in PERCENTILES PROVE IsNearestRank(values, p)
    BY DEF NearestRank
  <2>1. SortedSeq(values)
    BY <1>1 DEF SInv
  <2>2. PICK n \in Nat : n = Len(values) /\ n > 0 /\ n < 1000
    BY <1>1, <2>1, MaxLenAssumption DEF SInv, SortedSeq
  <2>3. n % 1000 # 0
    BY <2>2
  <2>4. NoRoundingUp(p, Len(values))
    BY <2>2, <2>3 DEF NoRoundingUp
  <2> QED BY <2>1, <2>4, PercentileIs
<1> QED BY <1>1, SHolds, PTL

\* However large the sample, every percentile is the nearest rank but for the p99.9 of whole
\* thousands of requests, and that one is at most one rank too high (analyze.py 51-53).
THEOREM PercentilesOfAnySample ==
  Spec => [](values # <<>> => \A p \in PERCENTILES :
               /\ NearlyNearestRank(values, p)
               /\ NoRoundingUp(p, Len(values)) => IsNearestRank(values, p))
<1> DEFINE P == values # <<>> => \A p \in PERCENTILES :
                  /\ NearlyNearestRank(values, p)
                  /\ NoRoundingUp(p, Len(values)) => IsNearestRank(values, p)
<1>1. SInv => P
  BY PercentileIs, PercentileWithinOne DEF SInv
<1> HIDE DEF P
<1>2. Spec => []P
  BY <1>1, SHolds, PTL
<1> QED BY <1>2 DEF P

\* One bad repeat of three or more leaves the headline within the range of the others, and
\* one of five or more does not widen the spread beyond it (analyze.py 158-184).
THEOREM NoRepeatDecides == Spec => []OneRepeatDoesNotDecide
<1>1. ASSUME SInv PROVE OneRepeatDoesNotDecide
  <2> SUFFICES ASSUME NEW i \in DOMAIN values
               PROVE  /\ Len(values) >= 3 => /\ Headline(values) >= 2 * Low(Without(i))
                                             /\ Headline(values) <= 2 * High(Without(i))
                      /\ Len(values) >= 5 => Spread(values) <= High(Without(i)) - Low(Without(i))
    BY DEF OneRepeatDoesNotDecide
  <2>1. PICK s : s = values /\ SortedSeq(s)
    BY <1>1 DEF SInv
  <2>2. PICK n \in Nat : n = Len(s) /\ \A j \in 1 .. n : s[j] \in Nat
    BY <2>1 DEF SortedSeq
  <2>3. CASE n >= 3
    <3>1. PICK low \in Nat, high \in Nat :
            /\ low = Low(Without(i)) /\ high = High(Without(i))
            /\ low <= s[2] /\ s[n - 1] <= high
      <4>1. s[n - 1] \in Nat
        BY <2>2, <2>3
      <4>2. /\ Low(Without(i)) \in Nat /\ Low(Without(i)) <= s[2]
            /\ High(Without(i)) \in Nat /\ High(Without(i)) >= s[n - 1]
        <5>1. Without(i) = Left(s, i) /\ i \in DOMAIN s
          BY <2>1 DEF Without, Left
        <5>2. n >= 2
          BY <2>2, <2>3
        <5> QED BY <2>1, <2>2, <5>1, <5>2, WhatIsLeft
      <4> QED BY <4>1, <4>2
    <3>2. s[2] \in Nat /\ s[n - 1] \in Nat
      BY <2>2, <2>3
    <3>3. PICK h \in Nat : h = Headline(values) /\ 2 * s[2] <= h /\ h <= 2 * s[n - 1]
      BY <2>1, <2>2, <2>3, MedianIsInside
    <3>4. h >= 2 * low /\ h <= 2 * high
      BY <3>1, <3>2, <3>3
    <3>5. ASSUME n >= 5 PROVE Spread(values) <= high - low
      <4>1. PICK w \in Int : w = Spread(values) /\ w <= s[n - 1] - s[2]
        BY <2>1, <2>2, <3>5, SpreadIsInside
      <4> QED BY <3>1, <3>2, <4>1
    <3> QED BY <2>1, <2>2, <3>1, <3>3, <3>4, <3>5
  <2>4. CASE n < 3
    BY <2>1, <2>2, <2>4
  <2> QED BY <2>2, <2>3, <2>4
<1> QED BY <1>1, SHolds, PTL

\* A record and every percentile of a sample are true to within the resolution the records
\* carry, which for ghz is the nanosecond (normalize.py 14-32, analyze.py 102).
THEOREM FaithfulRecords == Spec => []FaithfulWithinResolution
<1>1. ASSUME SInv PROVE RecordIsFaithful
  <2> SUFFICES ASSUME request # None PROVE RecordIsFaithful
    BY DEF RecordIsFaithful
  <2>1. SaysOf(tool, request, record)
    BY <1>1 DEF SInv
  <2> QED BY <2>1 DEF SaysOf, RecordIsFaithful
<1>2. ASSUME SInv PROVE PercentilesAreFaithful
  <2>1. request # None => (record.ok <=> request.status = "OK")
    BY <1>2 DEF SInv, SaysOf
  <2>2. ASSUME values # <<>>, NEW p \in PERCENTILES
        PROVE  Near(Percentile(values, p), Percentile(actual, p), record.latency_resolution_ns)
    <3>1. SortedSeq(values) /\ Alike(values, actual, Resolution(tool))
      BY <1>2 DEF SInv
    <3>2. record.latency_resolution_ns = Resolution(tool)
      BY <1>2, <2>2 DEF SInv, SaysOf
    <3>3. Near(Percentile(values, p), Percentile(actual, p), Resolution(tool))
      BY <2>2, <3>1, PercentilesAlike
    <3> QED BY <3>2, <3>3
  <2> QED BY <2>1, <2>2 DEF PercentilesAreFaithful
<1> QED BY <1>1, <1>2, SHolds, PTL DEF FaithfulWithinResolution

-----------------------------------------------------------------------------
(* The p99.9 of a thousand requests *)

LEMMA BitsUpTo999 ==
  ASSUME NEW n \in Nat, n >= 999, NEW bit,
         \A k \in 0 .. n : bit[k] = IF k <= 1 THEN 1 ELSE 2 * bit[k \div 2]
  PROVE  bit[999] = 512
<1>1. bit[1] = 1 /\ bit[3] = 2 * bit[1] /\ bit[7] = 2 * bit[3] /\ bit[15] = 2 * bit[7]
  OBVIOUS
<1>2. bit[31] = 2 * bit[15] /\ bit[62] = 2 * bit[31] /\ bit[124] = 2 * bit[62]
  OBVIOUS
<1>3. bit[249] = 2 * bit[124] /\ bit[499] = 2 * bit[249] /\ bit[999] = 2 * bit[499]
  OBVIOUS
<1>4. bit[15] = 8
  BY <1>1
<1>5. bit[124] = 64
  BY <1>2, <1>4
<1> QED BY <1>3, <1>5

LEMMA LeadingBitOf999 == LeadingBit(999) = 512
<1>1. PICK n \in Nat : n = 999
  OBVIOUS
<1>2. PICK bit : /\ LeadingBit(n) = bit[n]
                 /\ \A k \in 0 .. n : bit[k] = IF k <= 1 THEN 1 ELSE 2 * bit[k \div 2]
  BY LeadingBitIsRead
<1>3. bit[999] = 512
  <2>1. n >= 999
    BY <1>1
  <2> QED BY <1>2, <2>1, BitsUpTo999
<1> QED BY <1>1, <1>2, <1>3

LEMMA RankOfAThousand == Rank(999, 1000) = 1000
<1>1. FactorError(999) = 992
  BY DEF FactorError
<1>2. CeilProduct(999, 1000) = 1000
  <2>1. (999 * 1000) % 1000 = 0 /\ (999 * 1000) \div 1000 = 999
    OBVIOUS
  <2>2. CeilProduct(999, 1000) = IF 992 * 1000 > 1000 * 512 THEN 999 + 1 ELSE 999
    BY <1>1, <2>1, LeadingBitOf999 DEF CeilProduct
  <2> QED BY <2>2
<1>3. \A n \in Nat \ {0} : High({1, Low({n, n})}) = n
  BY ClampIs
<1>4. High({1, Low({1000, 1000})}) = 1000
  BY <1>3
<1> QED BY <1>2, <1>4 DEF Rank

\* All but the last of a list that ends in a larger value are below its last.
LEMMA AllButTheLast ==
  ASSUME NEW s, SortedSeq(s), NEW n \in Nat, n = Len(s), n >= 2, s[n - 1] < s[n]
  PROVE  Cardinality({i \in DOMAIN s : s[i] < s[n]}) = n - 1
<1>1. DOMAIN s = 1 .. n /\ \A i \in 1 .. n : s[i] \in Nat
  BY DEF SortedSeq
<1>2. \A i, j \in 1 .. n : i <= j => s[i] <= s[j]
  BY DEF SortedSeq
<1>3. PICK m \in Int : m = n - 1 /\ m > 0
  OBVIOUS
<1>4. ASSUME NEW i \in 1 .. n PROVE s[i] < s[n] <=> i \in 1 .. m
  <2>1. m \in 1 .. n /\ n \in 1 .. n /\ s[m] < s[n]
    BY <1>3
  <2>2. CASE i \in 1 .. m
    <3>1. s[i] <= s[m]
      BY <1>2, <2>1, <2>2
    <3> QED BY <1>1, <2>1, <2>2, <3>1
  <2>3. CASE i \notin 1 .. m
    <3>1. i = n
      BY <1>3, <2>3
    <3> QED BY <1>1, <2>1, <2>3, <3>1
  <2> QED BY <2>2, <2>3
<1>5. {i \in DOMAIN s : s[i] < s[n]} = 1 .. m
  <2>1. 1 .. m \in SUBSET (1 .. n)
    BY <1>3
  <2> QED BY <1>1, <1>4, <2>1
<1>6. Cardinality(1 .. m) = m
  <2>1. \A j \in Int : Cardinality(1 .. j) = IF 1 > j THEN 0 ELSE j - 1 + 1
    BY FS_Interval
  <2> QED BY <1>3, <2>1
<1> QED BY <1>3, <1>5, <1>6

\* All but one of n are at least p thousandths of n.
AllButOneSuffice(p, n) == 1000 * (n - 1) >= p * n

\* A percentile whose rank is the last and that not quite all of the list precede.
LEMMA LastIsNotNearest ==
  ASSUME NEW s, SortedSeq(s), NEW n \in Nat, n = Len(s), n >= 2, s[n - 1] < s[n],
         NEW p \in Nat, Rank(p, n) = n, AllButOneSuffice(p, n)
  PROVE  Percentile(s, p) = s[n] /\ ~IsNearestRank(s, p)
<1>1. Percentile(s, p) = s[n]
  BY DEF Percentile
<1>2. Cardinality({i \in DOMAIN s : s[i] < Percentile(s, p)}) = n - 1
  BY <1>1, AllButTheLast
<1>3. PICK below : below = Cardinality({i \in DOMAIN s : s[i] < Percentile(s, p)})
  OBVIOUS
<1>4. PICK part \in Nat : part = p * n /\ 1000 * (n - 1) >= part
  BY DEF AllButOneSuffice
<1>5. ASSUME IsNearestRank(s, p) PROVE FALSE
  <2>1. 1000 * below < p * Len(s)
    BY <1>3, <1>5 DEF IsNearestRank
  <2>2. 1000 * below < part /\ below = n - 1
    BY <1>2, <1>3, <1>4, <2>1
  <2>3. 1000 * (n - 1) < part
    BY <2>2
  <2> QED BY <1>4, <2>3
<1> QED BY <1>1, <1>5

\* In floating point 99.9 percent of a thousand is a little over 999, so the p99.9 of a
\* thousand requests is the slowest of them, which is not the nearest rank (analyze.py
\* 51-53): the bound of NearestRankBelowAThousand cannot be raised.
THEOREM P999OfAThousand ==
  ASSUME NEW s, SortedSeq(s), NEW n \in Nat, n = Len(s), s[n - 1] < s[n]
  PROVE  n = 1000 => Percentile(s, 999) = s[n] /\ ~IsNearestRank(s, 999)
<1> DEFINE Sharp == n >= 2 /\ AllButOneSuffice(999, n) /\ Rank(999, n) = n
<1>1. n = 1000 => Sharp
  BY RankOfAThousand DEF AllButOneSuffice
<1>2. ASSUME Sharp PROVE Percentile(s, 999) = s[n] /\ ~IsNearestRank(s, 999)
  <2>1. PICK p \in Nat : p = 999
    OBVIOUS
  <2> QED BY <1>2, <2>1, LastIsNotNearest
<1> HIDE DEF Sharp
<1> QED BY <1>1, <1>2
=============================================================================
