---------------------------- MODULE RedlineProofs ----------------------------
(***************************************************************************)
(* Theorems about the redline: the whole-block operations, whatever the    *)
(* document, the transcript and the operations refused, and the change     *)
(* sets, for any number of issues.                                         *)
(***************************************************************************)
EXTENDS BlockOps, RedlineChangeSets, FiniteSetTheorems, SequenceTheorems,
        WellFoundedInduction, TLAPS

-----------------------------------------------------------------------------
(* Bounded sets of numbers, and what is in a sequence.                     *)

\* A nonempty set of natural numbers has a least element.
LEMMA LeastNumber ==
  ASSUME NEW T \in SUBSET Nat, T # {}
  PROVE  \E n \in T : \A m \in T : n <= m
<1> DEFINE Less == {ss \in Nat \X Nat : ss[1] < ss[2]}
<1>2. IsWellFoundedOn(Less, Nat)
  BY NatLessThanWellFounded, Zenon DEF OpToRel
<1>3. PICK n \in T : \A m \in T : ~(<<m, n>> \in Less)
  <2> HIDE DEF Less
  <2> QED
    BY <1>2, WFMin, Zenon
<1>4. \A m \in T : ~(m < n)
  BY <1>3
<1> QED
  BY <1>4

\* One bounded by n has a greatest one.
LEMMA GreatestNumber ==
  ASSUME NEW n \in Nat, NEW T \in SUBSET (1 .. n), T # {}
  PROVE  \E x \in T : \A y \in T : y <= x
<1> DEFINE U == {n - x : x \in T}
<1>1. U \in SUBSET Nat /\ U # {}
  <2>1. \A x \in T : n - x \in Nat
    OBVIOUS
  <2>2. PICK x \in T : TRUE
    OBVIOUS
  <2>3. n - x \in U
    OBVIOUS
  <2>4. \A v \in U : v \in Nat
    BY <2>1
  <2> HIDE DEF U
  <2> QED
    BY <2>3, <2>4
<1>2. PICK u \in U : \A v \in U : u <= v
  <2> HIDE DEF U
  <2> QED
    BY <1>1, LeastNumber
<1>3. PICK x \in T : u = n - x
  BY <1>2
<1>4. ASSUME NEW y \in T PROVE y <= x
  <2>1. n - y \in U
    OBVIOUS
  <2> HIDE DEF U
  <2>2. n - x <= n - y
    BY <1>2, <1>3, <2>1
  <2> QED
    BY <2>2
<1> QED
  BY <1>4

\* What is in a concatenation.
LEMMA JoinedHas ==
  ASSUME NEW S, NEW s \in Seq(S), NEW t \in Seq(S)
  PROVE  s \o t \in Seq(S) /\ ToSet(s \o t) = ToSet(s) \cup ToSet(t)
<1>1. s \o t \in Seq(S)
  OBVIOUS
<1>2. ASSUME NEW x \in ToSet(s \o t) PROVE x \in ToSet(s) \cup ToSet(t)
  <2>1. PICK i \in 1 .. Len(s) + Len(t) : x = (s \o t)[i]
    BY DEF ToSet
  <2>2. CASE i <= Len(s)
    BY <2>1, <2>2 DEF ToSet
  <2>3. CASE i > Len(s)
    BY <2>1, <2>3 DEF ToSet
  <2> QED
    BY <2>2, <2>3
<1>3. ASSUME NEW x \in ToSet(s) PROVE x \in ToSet(s \o t)
  <2>1. PICK i \in 1 .. Len(s) : x = s[i]
    BY DEF ToSet
  <2>2. i \in DOMAIN (s \o t) /\ (s \o t)[i] = x
    BY <2>1
  <2> QED
    BY <2>2 DEF ToSet
<1>4. ASSUME NEW x \in ToSet(t) PROVE x \in ToSet(s \o t)
  <2>1. PICK i \in 1 .. Len(t) : x = t[i]
    BY DEF ToSet
  <2>2. Len(s) + i \in DOMAIN (s \o t) /\ (s \o t)[Len(s) + i] = x
    BY <2>1
  <2> QED
    BY <2>2 DEF ToSet
<1> QED
  BY <1>1, <1>2, <1>3, <1>4

\* What is inserted joins what was there.
LEMMA InsertedHas ==
  ASSUME NEW S, NEW s \in Seq(S), NEW e \in S, NEW i \in 1 .. Len(s) + 1
  PROVE  InsertAt(s, i, e) \in Seq(S) /\ ToSet(InsertAt(s, i, e)) = ToSet(s) \cup {e}
<1> DEFINE front == SubSeq(s, 1, i - 1)
           back == SubSeq(s, i, Len(s))
           one == <<e>>
<1>1. front \in Seq(S) /\ back \in Seq(S)
  OBVIOUS
<1>8. one \in Seq(S) /\ ToSet(one) = {e}
  BY DEF ToSet
<1>2. s = front \o back
  <2>1. front \o back = SubSeq(s, 1, Len(s))
    <3>1. 1 \in 1 .. Len(s) + 1 /\ i - 1 \in 1 - 1 .. Len(s) /\ Len(s) \in i - 1 .. Len(s)
      OBVIOUS
    <3>2. i - 1 + 1 = i
      OBVIOUS
    <3>3. SubSeq(s, 1, i - 1) \o SubSeq(s, (i - 1) + 1, Len(s)) = SubSeq(s, 1, Len(s))
      BY <3>1, ConcatAdjacentSubSeq, Zenon
    <3> QED
      BY <3>2, <3>3, Zenon
  <2>2. SubSeq(s, 1, Len(s)) = s
    BY SubSeqFull, Zenon
  <2> QED
    BY <2>1, <2>2, Zenon
<1>3. InsertAt(s, i, e) = (front \o one) \o back
  BY DEF InsertAt
<1> HIDE DEF front, back, one
<1>4. front \o one \in Seq(S) /\ ToSet(front \o one) = ToSet(front) \cup ToSet(one)
  BY <1>1, <1>8, JoinedHas
<1>5. ToSet(front \o back) = ToSet(front) \cup ToSet(back)
  BY <1>1, JoinedHas
<1>6. /\ (front \o one) \o back \in Seq(S)
      /\ ToSet((front \o one) \o back) = ToSet(front \o one) \cup ToSet(back)
  <2> DEFINE head == front \o one
  <2>1. head \in Seq(S)
    BY <1>4
  <2> HIDE DEF head
  <2>2. head \o back \in Seq(S) /\ ToSet(head \o back) = ToSet(head) \cup ToSet(back)
    BY <1>1, <2>1, JoinedHas
  <2> QED
    BY <2>2 DEF head
<1>7. ToSet(front \o one) \cup ToSet(back) = ToSet(s) \cup {e}
  BY <1>2, <1>4, <1>5, <1>8
<1> QED
  BY <1>3, <1>6, <1>7, Zenon

\* Every element stands in R to every later one.
Sorted(s, R) == \A i, j \in DOMAIN s : i < j => <<s[i], s[j]>> \in R

\* R is a strict order on S.
StrictOn(R, S) ==
  /\ \A x \in S : <<x, x>> \notin R
  /\ \A x, y, z \in S : <<x, y>> \in R /\ <<y, z>> \in R => <<x, z>> \in R

\* There is one way to sort.
LEMMA SortedEqual ==
  ASSUME NEW S, NEW R, StrictOn(R, S), NEW s \in Seq(S), NEW t \in Seq(S),
         Sorted(s, R), Sorted(t, R), ToSet(s) = ToSet(t)
  PROVE  s = t
<1> DEFINE Same(i) == i \in DOMAIN s /\ i \in DOMAIN t /\ s[i] = t[i]
           D == {i \in DOMAIN s \cup DOMAIN t : ~Same(i)}
<1>1. /\ DOMAIN s = 1 .. Len(s) /\ Len(s) \in Nat /\ \A j \in DOMAIN s : s[j] \in S
      /\ DOMAIN t = 1 .. Len(t) /\ Len(t) \in Nat /\ \A j \in DOMAIN t : t[j] \in S
  OBVIOUS
<1>2. D = {}
  <2>1. SUFFICES ASSUME D # {} PROVE FALSE
    OBVIOUS
  <2>2. PICK i \in D : \A j \in D : i <= j
    <3>1. D \in SUBSET Nat
      BY <1>1
    <3> HIDE DEF D
    <3> QED
      BY <2>1, <3>1, LeastNumber
  <2>3. i \in DOMAIN s \cup DOMAIN t /\ ~Same(i) /\ i \in Nat
    BY <1>1, <2>2
  <2>4. \A j \in DOMAIN s \cup DOMAIN t : j < i => Same(j)
    <3>1. \A j \in DOMAIN s \cup DOMAIN t : j \in Nat
      BY <1>1
    <3> QED
      BY <2>2, <2>3, <3>1
  <2> HIDE DEF D
  <2>5. ASSUME NEW j \in DOMAIN t, i \in DOMAIN s, t[j] = s[i] PROVE j > i /\ i \in DOMAIN t
    <3>1. ~(j < i)
      <4>1. SUFFICES ASSUME j < i PROVE FALSE
        OBVIOUS
      <4>2. j \in DOMAIN s /\ s[j] = t[j]
        BY <2>4, <4>1
      <4>3. <<s[j], s[i]>> \in R
        BY <2>5, <4>1, <4>2 DEF Sorted
      <4> QED
        BY <1>1, <2>5, <4>2, <4>3 DEF StrictOn
    <3>2. i \in DOMAIN t
      BY <1>1, <2>3, <3>1
    <3>3. j # i
      BY <2>3, <2>5, <3>2
    <3> QED
      BY <1>1, <2>3, <3>1, <3>2, <3>3
  <2>6. ASSUME NEW j \in DOMAIN s, i \in DOMAIN t, s[j] = t[i] PROVE j > i /\ i \in DOMAIN s
    <3>1. ~(j < i)
      <4>1. SUFFICES ASSUME j < i PROVE FALSE
        OBVIOUS
      <4>2. j \in DOMAIN t /\ t[j] = s[j]
        BY <2>4, <4>1
      <4>3. <<t[j], t[i]>> \in R
        BY <2>6, <4>1, <4>2 DEF Sorted
      <4> QED
        BY <1>1, <2>6, <4>2, <4>3 DEF StrictOn
    <3>2. i \in DOMAIN s
      BY <1>1, <2>3, <3>1
    <3>3. j # i
      BY <2>3, <2>6, <3>2
    <3> QED
      BY <1>1, <2>3, <3>1, <3>2, <3>3
  <2>7. i \in DOMAIN s /\ i \in DOMAIN t
    <3>1. CASE i \in DOMAIN s
      <4>1. PICK j \in DOMAIN t : t[j] = s[i]
        BY <3>1 DEF ToSet
      <4> QED
        BY <2>5, <3>1, <4>1
    <3>2. CASE i \in DOMAIN t
      <4>1. PICK j \in DOMAIN s : s[j] = t[i]
        BY <3>2 DEF ToSet
      <4> QED
        BY <2>6, <3>2, <4>1
    <3> QED
      BY <2>3, <3>1, <3>2
  <2>8. PICK j \in DOMAIN t : t[j] = s[i]
    BY <2>7 DEF ToSet
  <2>9. PICK m \in DOMAIN s : s[m] = t[i]
    BY <2>7 DEF ToSet
  <2>10. <<t[i], s[i]>> \in R
    <3>1. i < j
      BY <1>1, <2>3, <2>5, <2>7, <2>8
    <3> QED
      BY <2>7, <2>8, <3>1 DEF Sorted
  <2>11. <<s[i], t[i]>> \in R
    <3>1. i < m
      BY <1>1, <2>3, <2>6, <2>7, <2>9
    <3> QED
      BY <2>7, <2>9, <3>1 DEF Sorted
  <2> QED
    BY <1>1, <2>7, <2>10, <2>11 DEF StrictOn
<1>3. DOMAIN s = DOMAIN t /\ \A i \in DOMAIN s : s[i] = t[i]
  BY <1>2
<1>4. Len(s) = Len(t)
  <2> HIDE DEF D, Same
  <2>1. ASSUME NEW m \in Nat, NEW n \in Nat, 1 .. m = 1 .. n PROVE m <= n
    BY <2>1
  <2> DEFINE a == Len(s)
             b == Len(t)
  <2>2. a \in Nat /\ b \in Nat /\ 1 .. a = 1 .. b
    BY <1>1, <1>3
  <2> HIDE DEF a, b
  <2>3. a <= b /\ b <= a
    BY <2>1, <2>2, Zenon
  <2>4. a = b
    BY <2>2, <2>3
  <2> QED
    BY <2>4 DEF a, b
<1>5. \A i \in 1 .. Len(s) : s[i] = t[i]
  BY <1>1, <1>3
<1> HIDE DEF D, Same
<1> QED
  BY <1>4, <1>5, SeqEqual

\* Two sorted sequences, one wholly before the other.
LEMMA JoinedSorted ==
  ASSUME NEW S, NEW R, NEW s \in Seq(S), NEW t \in Seq(S), Sorted(s, R), Sorted(t, R),
         \A x \in ToSet(s), y \in ToSet(t) : <<x, y>> \in R
  PROVE  Sorted(s \o t, R)
<1>1. SUFFICES ASSUME NEW i \in DOMAIN (s \o t), NEW j \in DOMAIN (s \o t), i < j
               PROVE  <<(s \o t)[i], (s \o t)[j]>> \in R
  BY DEF Sorted
<1>2. /\ Len(s) \in Nat /\ Len(t) \in Nat /\ i \in 1 .. Len(s) + Len(t) /\ j \in 1 .. Len(s) + Len(t)
      /\ DOMAIN s = 1 .. Len(s) /\ DOMAIN t = 1 .. Len(t)
  OBVIOUS
<1>3. \A k \in 1 .. Len(s) + Len(t) :
        (s \o t)[k] = IF k <= Len(s) THEN s[k] ELSE t[k - Len(s)]
  OBVIOUS
<1>4. \A k \in 1 .. Len(s) + Len(t) :
        IF k <= Len(s) THEN k \in DOMAIN s ELSE k - Len(s) \in DOMAIN t
  BY <1>2
<1>5. CASE j <= Len(s)
  <2>1. i <= Len(s) /\ i \in DOMAIN s /\ j \in DOMAIN s
    BY <1>1, <1>2, <1>5
  <2> QED
    BY <1>1, <1>2, <1>3, <1>5, <2>1 DEF Sorted
<1>6. CASE i > Len(s)
  <2> DEFINE a == i - Len(s)
             b == j - Len(s)
  <2>1. a \in DOMAIN t /\ b \in DOMAIN t /\ a < b
    BY <1>1, <1>2, <1>6
  <2>2. (s \o t)[i] = t[a] /\ (s \o t)[j] = t[b]
    BY <1>1, <1>2, <1>3, <1>6
  <2> HIDE DEF a, b
  <2> QED
    BY <2>1, <2>2 DEF Sorted
<1>7. CASE i <= Len(s) /\ j > Len(s)
  <2>1. (s \o t)[i] \in ToSet(s) /\ (s \o t)[j] \in ToSet(t)
    BY <1>2, <1>3, <1>4, <1>7 DEF ToSet
  <2> QED
    BY <2>1
<1>8. j <= Len(s) \/ i > Len(s) \/ (i <= Len(s) /\ j > Len(s))
  BY <1>2
<1> QED
  BY <1>5, <1>6, <1>7, <1>8, Zenon


\* A sequence and one more element.
LEMMA AppendedSorted ==
  ASSUME NEW S, NEW R, NEW s \in Seq(S), NEW e \in S, Sorted(s, R),
         \A x \in ToSet(s) : <<x, e>> \in R
  PROVE  /\ Append(s, e) \in Seq(S) /\ Sorted(Append(s, e), R)
         /\ ToSet(Append(s, e)) = ToSet(s) \cup {e}
<1>1. /\ Append(s, e) \in Seq(S) /\ Len(s) \in Nat /\ DOMAIN s = 1 .. Len(s)
      /\ DOMAIN Append(s, e) = 1 .. Len(s) + 1
      /\ \A k \in DOMAIN s : Append(s, e)[k] = s[k]
      /\ Append(s, e)[Len(s) + 1] = e
  OBVIOUS
<1>2. Sorted(Append(s, e), R)
  <2>1. SUFFICES ASSUME NEW i \in 1 .. Len(s) + 1, NEW j \in 1 .. Len(s) + 1, i < j
                 PROVE  <<Append(s, e)[i], Append(s, e)[j]>> \in R
    BY <1>1 DEF Sorted
  <2>2. i \in DOMAIN s /\ Append(s, e)[i] = s[i] /\ s[i] \in ToSet(s)
    BY <1>1, <2>1 DEF ToSet
  <2>3. CASE j = Len(s) + 1
    BY <1>1, <2>2, <2>3
  <2>4. CASE j # Len(s) + 1
    <3>1. j \in DOMAIN s
      BY <1>1, <2>1, <2>4
    <3> QED
      BY <1>1, <2>1, <2>2, <3>1 DEF Sorted
  <2> QED
    BY <2>3, <2>4
<1>3. ToSet(Append(s, e)) = ToSet(s) \cup {e}
  <2>1. ASSUME NEW x \in ToSet(Append(s, e)) PROVE x \in ToSet(s) \cup {e}
    <3>1. PICK i \in 1 .. Len(s) + 1 : x = Append(s, e)[i]
      BY <1>1 DEF ToSet
    <3> QED
      BY <1>1, <3>1 DEF ToSet
  <2>2. ASSUME NEW x \in ToSet(s) \cup {e} PROVE x \in ToSet(Append(s, e))
    <3>1. \E i \in 1 .. Len(s) + 1 : x = Append(s, e)[i]
      BY <1>1 DEF ToSet
    <3> QED
      BY <1>1, <3>1 DEF ToSet
  <2> QED
    BY <2>1, <2>2
<1> QED
  BY <1>1, <1>2, <1>3

\* h keeps of s what is in K, element by element, as Kept does.
Keeps(h, s, K, n) ==
  h = [i \in 0 .. n |-> IF i = 0 THEN <<>>
                        ELSE IF s[i] \in K THEN Append(h[i - 1], s[i])
                        ELSE h[i - 1]]

\* There is such an h.
LEMMA KeepsExists ==
  ASSUME NEW s, NEW K, NEW n \in Nat
  PROVE  \E h : Keeps(h, s, K, n)
<1> DEFINE Without == {m \in Nat : ~\E h : Keeps(h, s, K, m)}
<1>1. SUFFICES ASSUME Without # {} PROVE FALSE
  OBVIOUS
<1>2. PICK m \in Without : \A k \in Without : m <= k
  <2>1. Without \in SUBSET Nat
    OBVIOUS
  <2> HIDE DEF Without
  <2> QED
    BY <1>1, <2>1, LeastNumber
<1>3. CASE m = 0
  <2> DEFINE h == [i \in 0 .. 0 |-> <<>>]
  <2>1. h = [i \in 0 .. 0 |-> IF i = 0 THEN <<>>
                              ELSE IF s[i] \in K THEN Append(h[i - 1], s[i])
                              ELSE h[i - 1]]
    OBVIOUS
  <2>2. Keeps(h, s, K, 0)
    BY <2>1 DEF Keeps
  <2> QED
    BY <1>2, <1>3, <2>2
<1>4. CASE m # 0
  <2>1. m - 1 \in Nat /\ m - 1 \notin Without /\ m \in Nat
    <3>1. m \in Nat
      BY <1>2
    <3> HIDE DEF Without
    <3>2. m - 1 \in Nat /\ ~(m <= m - 1)
      BY <1>4, <3>1
    <3> QED
      BY <1>2, <3>1, <3>2
  <2>2. PICK f : Keeps(f, s, K, m - 1)
    BY <2>1
  <2> DEFINE next(i, g) == IF i = 0 THEN <<>>
                           ELSE IF s[i] \in K THEN Append(g[i - 1], s[i])
                           ELSE g[i - 1]
             h == [i \in 0 .. m |-> IF i = m THEN next(m, f) ELSE f[i]]
  <2>3. ASSUME NEW i \in 0 .. m PROVE h[i] = next(i, h)
    <3>1. CASE i = m
      <4>1. m - 1 \in 0 .. m /\ m - 1 # m
        BY <2>1
      <4>2. h[m - 1] = f[m - 1]
        BY <4>1
      <4> QED
        BY <3>1, <1>4, <4>2
    <3>2. CASE i # m
      <4>1. i \in 0 .. m - 1 /\ (i # 0 => i - 1 \in 0 .. m /\ i - 1 # m)
        BY <3>2, <2>1
      <4>2. f[i] = next(i, f)
        BY <4>1, <2>2 DEF Keeps
      <4>3. i # 0 => h[i - 1] = f[i - 1]
        BY <4>1
      <4> QED
        BY <3>2, <4>1, <4>2, <4>3
    <3> QED
      BY <3>1, <3>2
  <2>4. h = [i \in 0 .. m |-> next(i, h)]
    <3>1. h = [i \in 0 .. m |-> h[i]]
      OBVIOUS
    <3> HIDE DEF h, next
    <3> QED
      BY <2>3, <3>1
  <2>5. Keeps(h, s, K, m)
    <3> HIDE DEF h
    <3> QED
      BY <2>4 DEF Keeps
  <2> QED
    BY <1>2, <2>5
<1> QED
  BY <1>3, <1>4

\* What is kept of a sequence, sorted if that was.
LEMMA KeptHas ==
  ASSUME NEW S, NEW R, NEW s \in Seq(S), Sorted(s, R), NEW K
  PROVE  /\ Kept(s, K) \in Seq(S) /\ ToSet(Kept(s, K)) = ToSet(s) \cap K
         /\ Sorted(Kept(s, K), R)
<1> DEFINE n == Len(s)
           h == CHOOSE f : Keeps(f, s, K, n)
<1>1. Kept(s, K) = h[n]
  BY DEF Kept, Keeps
<1>2. n \in Nat /\ DOMAIN s = 1 .. n /\ \A i \in 1 .. n : s[i] \in S
  OBVIOUS
<1> HIDE DEF n
<1>3. Keeps(h, s, K, n)
  BY <1>2, KeepsExists
<1> HIDE DEF h
<1> DEFINE Right(i) ==
             /\ h[i] \in Seq(S)
             /\ ToSet(h[i]) = {s[j] : j \in 1 .. i} \cap K
             /\ Sorted(h[i], R)
           Wrong == {i \in 0 .. n : ~Right(i)}
<1>4. Wrong = {}
  <2> SUFFICES ASSUME Wrong # {} PROVE FALSE
    OBVIOUS
  <2>1. PICK i \in Wrong : \A j \in Wrong : i <= j
    <3>1. Wrong \in SUBSET Nat
      BY <1>2
    <3> HIDE DEF Wrong
    <3> QED
      BY <3>1, LeastNumber
  <2>2. i \in 0 .. n /\ ~Right(i)
    BY <2>1
  <2>3. CASE i = 0
    <3>1. h[0] = <<>>
      BY <1>2, <1>3 DEF Keeps
    <3>2. <<>> \in Seq(S) /\ ToSet(<<>>) = {} /\ Sorted(<<>>, R)
      BY DEF ToSet, Sorted
    <3>3. {s[j] : j \in 1 .. 0} = {}
      OBVIOUS
    <3> QED
      BY <2>2, <2>3, <3>1, <3>2, <3>3
  <2>4. CASE i # 0
    <3>1. i \in 1 .. n /\ i - 1 \in 0 .. n
      BY <1>2, <2>2, <2>4
    <3>2. Right(i - 1)
      <4>1. ~(i <= i - 1)
        BY <3>1
      <4>2. i - 1 \notin Wrong
        <5> HIDE DEF Wrong
        <5> QED
          BY <2>1, <4>1
      <4> QED
        BY <3>1, <4>2
    <3>3. h[i] = IF s[i] \in K THEN Append(h[i - 1], s[i]) ELSE h[i - 1]
      BY <1>3, <2>2, <2>4 DEF Keeps
    <3>4. {s[j] : j \in 1 .. i} = {s[j] : j \in 1 .. i - 1} \cup {s[i]}
      <4>1. 1 .. i = (1 .. i - 1) \cup {i}
        BY <1>2, <3>1
      <4> QED
        BY <4>1
    <3>5. CASE s[i] \notin K
      BY <2>2, <3>2, <3>3, <3>4, <3>5
    <3>6. CASE s[i] \in K
      <4>1. ASSUME NEW x \in ToSet(h[i - 1]) PROVE <<x, s[i]>> \in R
        <5>1. PICK j \in 1 .. i - 1 : x = s[j]
          BY <3>2
        <5>2. j \in DOMAIN s /\ i \in DOMAIN s /\ j < i
          BY <1>2, <3>1
        <5> QED
          BY <5>1, <5>2 DEF Sorted
      <4>2. s[i] \in S /\ h[i] = Append(h[i - 1], s[i])
        BY <1>2, <3>1, <3>3, <3>6
      <4>3. /\ h[i] \in Seq(S) /\ Sorted(h[i], R)
            /\ ToSet(h[i]) = ToSet(h[i - 1]) \cup {s[i]}
        <5> DEFINE g == h[i - 1]
                   e == s[i]
        <5>1. g \in Seq(S) /\ Sorted(g, R) /\ e \in S /\ \A x \in ToSet(g) : <<x, e>> \in R
          BY <3>2, <4>1, <4>2
        <5> HIDE DEF g, e
        <5>2. /\ Append(g, e) \in Seq(S) /\ Sorted(Append(g, e), R)
              /\ ToSet(Append(g, e)) = ToSet(g) \cup {e}
          BY <5>1, AppendedSorted
        <5> QED
          BY <4>2, <5>2 DEF g, e
      <4> QED
        BY <2>2, <3>2, <3>4, <3>6, <4>3
    <3> QED
      BY <3>5, <3>6
  <2> QED
    BY <2>3, <2>4
<1>5. Right(n)
  <2>1. n \in 0 .. n
    BY <1>2
  <2> HIDE DEF Right
  <2> QED
    BY <1>4, <2>1
<1>6. ToSet(s) = {s[j] : j \in 1 .. n}
  BY <1>2 DEF ToSet
<1>7. ToSet(h[n]) = ToSet(s) \cap K
  BY <1>5, <1>6
<1>8. h[n] \in Seq(S) /\ Sorted(h[n], R)
  BY <1>5
<1> HIDE DEF Right, Wrong
<1> QED
  BY <1>1, <1>7, <1>8


\* What is inserted where it belongs.
LEMMA InsertedSorted ==
  ASSUME NEW S, NEW R, NEW s \in Seq(S), NEW e \in S, NEW i \in 1 .. Len(s) + 1, Sorted(s, R),
         \A j \in 1 .. i - 1 : <<s[j], e>> \in R,
         \A j \in i .. Len(s) : <<e, s[j]>> \in R
  PROVE  Sorted(InsertAt(s, i, e), R)
<1> DEFINE front == SubSeq(s, 1, i - 1)
           back == SubSeq(s, i, Len(s))
           one == <<e>>
<1>1. /\ front \in Seq(S) /\ back \in Seq(S) /\ one \in Seq(S)
      /\ DOMAIN front = 1 .. i - 1 /\ DOMAIN back = 1 .. Len(s) - i + 1 /\ DOMAIN one = {1}
      /\ DOMAIN s = 1 .. Len(s) /\ Len(s) \in Nat /\ one[1] = e
  OBVIOUS
<1>2. \A j \in 1 .. i - 1 : front[j] = s[j]
  OBVIOUS
<1>3. \A j \in 1 .. Len(s) - i + 1 : back[j] = s[i + j - 1] /\ i + j - 1 \in i .. Len(s)
  OBVIOUS
<1>4. InsertAt(s, i, e) = (front \o one) \o back
  BY DEF InsertAt
<1> HIDE DEF front, back, one
<1>5. Sorted(front, R)
  BY <1>1, <1>2 DEF Sorted
<1>6. Sorted(back, R)
  <2>1. SUFFICES ASSUME NEW j \in DOMAIN back, NEW k \in DOMAIN back, j < k
                 PROVE  <<back[j], back[k]>> \in R
    BY DEF Sorted
  <2> DEFINE a == i + j - 1
             b == i + k - 1
  <2>2. a \in DOMAIN s /\ b \in DOMAIN s /\ a < b
    BY <1>1, <1>3, <2>1
  <2>3. back[j] = s[a] /\ back[k] = s[b]
    BY <1>1, <1>3
  <2> HIDE DEF a, b
  <2> QED
    BY <2>2, <2>3 DEF Sorted
<1>7. Sorted(one, R) /\ ToSet(one) = {e}
  BY <1>1 DEF Sorted, ToSet
<1>8. ToSet(front) = {s[j] : j \in 1 .. i - 1}
  BY <1>1, <1>2 DEF ToSet
<1>9. \A y \in ToSet(back) : <<e, y>> \in R
  <2>1. SUFFICES ASSUME NEW j \in 1 .. Len(s) - i + 1 PROVE <<e, back[j]>> \in R
    BY <1>1 DEF ToSet
  <2> DEFINE b == i + j - 1
  <2>2. b \in i .. Len(s) /\ back[j] = s[b]
    BY <1>3
  <2> HIDE DEF b
  <2> QED
    BY <2>2
<1>10. /\ front \o one \in Seq(S) /\ Sorted(front \o one, R)
       /\ ToSet(front \o one) = ToSet(front) \cup {e}
  <2>1. \A x \in ToSet(front), y \in ToSet(one) : <<x, y>> \in R
    BY <1>7, <1>8
  <2>2. Sorted(front \o one, R)
    BY <1>1, <1>5, <1>7, <2>1, JoinedSorted
  <2>3. front \o one \in Seq(S) /\ ToSet(front \o one) = ToSet(front) \cup ToSet(one)
    BY <1>1, JoinedHas
  <2> QED
    BY <1>7, <2>2, <2>3
<1>11. \A x \in ToSet(front), y \in ToSet(back) : <<x, y>> \in R
  <2>1. SUFFICES ASSUME NEW j \in 1 .. i - 1, NEW k \in 1 .. Len(s) - i + 1
                 PROVE  <<s[j], back[k]>> \in R
    BY <1>1, <1>8 DEF ToSet
  <2> DEFINE b == i + k - 1
  <2>2. j \in DOMAIN s /\ b \in DOMAIN s /\ j < b
    BY <1>1, <1>3
  <2>3. back[k] = s[b]
    BY <1>3
  <2> HIDE DEF b
  <2> QED
    BY <2>2, <2>3 DEF Sorted
<1>12. Sorted((front \o one) \o back, R)
  <2> DEFINE head == front \o one
  <2>1. head \in Seq(S) /\ Sorted(head, R) /\ \A x \in ToSet(head), y \in ToSet(back) : <<x, y>> \in R
    BY <1>9, <1>10, <1>11
  <2> HIDE DEF head
  <2>2. Sorted(head \o back, R)
    BY <1>1, <1>6, <2>1, JoinedSorted
  <2> QED
    BY <2>2 DEF head
<1> QED
  BY <1>4, <1>12


\* g joins parts one after the other, as FlattenSeq does.
Joins(g, parts, n) ==
  g = [i \in 1 .. n |-> IF i = 1 THEN parts[i] ELSE g[i - 1] \o parts[i]]

\* There is such a g.
LEMMA JoinsExists ==
  ASSUME NEW parts, NEW n \in Nat \ {0}
  PROVE  \E g : Joins(g, parts, n)
<1> DEFINE Without == {m \in Nat \ {0} : ~\E g : Joins(g, parts, m)}
<1>1. SUFFICES ASSUME Without # {} PROVE FALSE
  OBVIOUS
<1>2. PICK m \in Without : \A k \in Without : m <= k
  <2>1. Without \in SUBSET Nat
    OBVIOUS
  <2> HIDE DEF Without
  <2> QED
    BY <1>1, <2>1, LeastNumber
<1>3. CASE m = 1
  <2> DEFINE g == [i \in 1 .. 1 |-> parts[i]]
  <2>1. g = [i \in 1 .. 1 |-> IF i = 1 THEN parts[i] ELSE g[i - 1] \o parts[i]]
    OBVIOUS
  <2>2. Joins(g, parts, 1)
    BY <2>1 DEF Joins
  <2> QED
    BY <1>3, <2>2
<1>4. CASE m # 1
  <2>1. m - 1 \in Nat \ {0} /\ m - 1 \notin Without
    <3>1. m \in Nat \ {0}
      BY <1>2
    <3> HIDE DEF Without
    <3>2. m - 1 \in Nat \ {0} /\ ~(m <= m - 1)
      BY <1>4, <3>1
    <3> QED
      BY <1>2, <3>2
  <2>2. PICK h : Joins(h, parts, m - 1)
    BY <2>1
  <2> DEFINE g == [i \in 1 .. m |-> IF i = m THEN h[m - 1] \o parts[m] ELSE h[i]]
  <2>3. ASSUME NEW i \in 1 .. m
        PROVE  g[i] = IF i = 1 THEN parts[i] ELSE g[i - 1] \o parts[i]
    <3>1. CASE i = m
      <4>1. m - 1 \in 1 .. m /\ m - 1 # m
        BY <2>1
      <4> QED
        BY <3>1, <1>4, <4>1
    <3>2. CASE i # m
      <4>1. i \in 1 .. m - 1 /\ (i # 1 => i - 1 \in 1 .. m /\ i - 1 # m)
        BY <3>2, <2>1
      <4>2. h[i] = IF i = 1 THEN parts[i] ELSE h[i - 1] \o parts[i]
        BY <4>1, <2>2 DEF Joins
      <4> QED
        BY <3>2, <4>1, <4>2
    <3> QED
      BY <3>1, <3>2
  <2>4. g = [i \in 1 .. m |-> IF i = 1 THEN parts[i] ELSE g[i - 1] \o parts[i]]
    <3>1. g = [i \in 1 .. m |-> g[i]]
      OBVIOUS
    <3> HIDE DEF g
    <3> QED
      BY <2>3, <3>1
  <2>5. Joins(g, parts, m)
    <3> HIDE DEF g
    <3> QED
      BY <2>4 DEF Joins
  <2> QED
    BY <1>2, <2>5
<1> QED
  BY <1>3, <1>4

\* Sorted parts, each wholly before the next.
LEMMA FlattenedHas ==
  ASSUME NEW S, NEW R, NEW parts \in Seq(Seq(S)),
         \A b \in DOMAIN parts : Sorted(parts[b], R),
         \A a, b \in DOMAIN parts : a < b =>
           \A x \in ToSet(parts[a]), y \in ToSet(parts[b]) : <<x, y>> \in R
  PROVE  /\ FlattenSeq(parts) \in Seq(S) /\ Sorted(FlattenSeq(parts), R)
         /\ ToSet(FlattenSeq(parts)) = UNION {ToSet(parts[b]) : b \in DOMAIN parts}
<1> DEFINE n == Len(parts)
           g == CHOOSE f : Joins(f, parts, n)
<1>1. CASE n = 0
  BY <1>1 DEF FlattenSeq, Sorted, ToSet
<1>2. CASE n # 0
  <2>1. n \in Nat \ {0} /\ FlattenSeq(parts) = g[n]
    BY <1>2 DEF FlattenSeq, Joins
  <2>2. DOMAIN parts = 1 .. n /\ \A b \in 1 .. n : parts[b] \in Seq(S)
    OBVIOUS
  <2> HIDE DEF n
  <2>3. Joins(g, parts, n)
    BY <2>1, JoinsExists
  <2> HIDE DEF g
  <2> DEFINE Right(i) ==
               /\ g[i] \in Seq(S)
               /\ ToSet(g[i]) = UNION {ToSet(parts[b]) : b \in 1 .. i}
               /\ Sorted(g[i], R)
             Wrong == {i \in 1 .. n : ~Right(i)}
  <2>4. Wrong = {}
    <3> SUFFICES ASSUME Wrong # {} PROVE FALSE
      OBVIOUS
    <3>1. PICK i \in Wrong : \A j \in Wrong : i <= j
      <4>1. Wrong \in SUBSET Nat
        OBVIOUS
      <4> HIDE DEF Wrong
      <4> QED
        BY <4>1, LeastNumber
    <3>2. i \in 1 .. n /\ ~Right(i)
      BY <3>1
    <3>3. CASE i = 1
      <4>1. g[1] = parts[1]
        BY <2>1, <2>3 DEF Joins
      <4>2. UNION {ToSet(parts[b]) : b \in 1 .. 1} = ToSet(parts[1])
        OBVIOUS
      <4> QED
        BY <2>1, <2>2, <3>2, <3>3, <4>1, <4>2
    <3>4. CASE i # 1
      <4>1. i - 1 \in 1 .. n /\ i - 1 \notin Wrong
        <5>1. i - 1 \in 1 .. n /\ ~(i <= i - 1)
          BY <2>1, <3>2, <3>4
        <5> HIDE DEF Wrong
        <5> QED
          BY <3>1, <5>1
      <4>2. Right(i - 1)
        <5> HIDE DEF Right
        <5> QED
          BY <4>1
      <4>3. g[i] = g[i - 1] \o parts[i]
        BY <2>3, <3>2, <3>4 DEF Joins
      <4>4. parts[i] \in Seq(S) /\ Sorted(parts[i], R)
        BY <2>2, <3>2
      <4>5. \A x \in ToSet(g[i - 1]), y \in ToSet(parts[i]) : <<x, y>> \in R
        <5>1. SUFFICES ASSUME NEW b \in 1 .. i - 1, NEW x \in ToSet(parts[b]),
                              NEW y \in ToSet(parts[i])
                       PROVE  <<x, y>> \in R
          BY <4>2
        <5>2. b \in DOMAIN parts /\ i \in DOMAIN parts /\ b < i
          BY <2>1, <2>2, <3>2
        <5> QED
          BY <5>2
      <4>6. /\ g[i] \in Seq(S) /\ ToSet(g[i]) = ToSet(g[i - 1]) \cup ToSet(parts[i])
            /\ Sorted(g[i], R)
        <5> DEFINE h == g[i - 1]
                   p == parts[i]
        <5>1. /\ h \in Seq(S) /\ Sorted(h, R) /\ p \in Seq(S) /\ Sorted(p, R)
              /\ \A x \in ToSet(h), y \in ToSet(p) : <<x, y>> \in R
          BY <4>2, <4>4, <4>5
        <5> HIDE DEF h, p
        <5>2. h \o p \in Seq(S) /\ ToSet(h \o p) = ToSet(h) \cup ToSet(p)
          BY <5>1, JoinedHas
        <5>3. Sorted(h \o p, R)
          BY <5>1, JoinedSorted
        <5> QED
          BY <4>3, <5>2, <5>3 DEF h, p
      <4>7. 1 .. i = (1 .. i - 1) \cup {i}
        BY <2>1, <3>2, <3>4
      <4>8. UNION {ToSet(parts[b]) : b \in 1 .. i} =
              (UNION {ToSet(parts[b]) : b \in 1 .. i - 1}) \cup ToSet(parts[i])
        BY <4>7
      <4> QED
        BY <3>2, <4>2, <4>6, <4>8
    <3> QED
      BY <3>3, <3>4
  <2>5. Right(n)
    <3>1. n \in 1 .. n
      BY <2>1
    <3> HIDE DEF Right
    <3> QED
      BY <2>4, <3>1
  <2> QED
    BY <2>1, <2>2, <2>5
<1> QED
  BY <1>1, <1>2

-----------------------------------------------------------------------------
(* Whole-block operations.                                                 *)

\* Blocks a deletion may be planned for, and what it strikes of them.
Cleared(b) == b \in DOMAIN agreement /\ ~Ambiguous(Kinds(b))
Clearable == UNION {{Own(b, i) : i \in Strikes(b)} : b \in {c \in DOMAIN agreement : Cleared(c)}}

\* Nothing is planned before the transcript is validated, what is planned has
\* been checked, and only what a checked deletion covers is struck.
PlanInv ==
  /\ asked \in Seq(Deletes \cup Inserts)
  /\ phase = "asking" => planned = {}
  /\ \A k \in Deletions : k \in DOMAIN asked /\ Cleared(asked[k].block)
  /\ struck \cup omitted \subseteq Clearable

-----------------------------------------------------------------------------

\* What may be struck holds no signature: the signature tail is not struck,
\* and a clause with signature lines ahead of it is not cleared.
LEMMA ClearableHasNoSignature ==
  ASSUME NEW b \in DOMAIN agreement, NEW i \in DOMAIN Body(b),
         Kinds(b)[i] \in {"signature", "mixed"}
  PROVE  Own(b, i) \notin Clearable
<1>1. SUFFICES ASSUME Own(b, i) \in Clearable PROVE FALSE
  OBVIOUS
<1>2. PICK c \in DOMAIN agreement : Cleared(c) /\ \E j \in Strikes(c) : Own(b, i) = Own(c, j)
  BY <1>1 DEF Clearable
<1>3. b = c /\ i \in Strikes(c)
  BY <1>2 DEF Own
<1>4. QED
  BY <1>2, <1>3 DEF Cleared, Ambiguous, Strikes

\* A deletion strikes, or marks as omitted, only what it may.
LEMMA StrikesClearable ==
  ASSUME PlanInv, NEW k \in Deletions
  PROVE  {Own(asked[k].block, i) : i \in Strikes(asked[k].block)} \subseteq Clearable
<1>1. asked[k].block \in {c \in DOMAIN agreement : Cleared(c)}
  BY DEF PlanInv, Cleared
<1>2. QED
  BY <1>1 DEF Clearable

\* Nothing is planned to begin with.
LEMMA PlanInit == BlockOpsInit => PlanInv
BY DEF BlockOpsInit, PlanInv, Deletions

\* The document the operations are planned against stays.
LEMMA SameAgreement ==
  ASSUME UNCHANGED agreement
  PROVE  /\ (Deletes \cup Inserts)' = Deletes \cup Inserts
         /\ \A b : Cleared(b)' = Cleared(b)
         /\ Clearable' = Clearable
<1>1. (Deletes \cup Inserts)' = Deletes \cup Inserts
  BY DEF Deletes, Inserts
<1>2. \A b : Kinds(b)' = Kinds(b)
  BY DEF Kinds, Body
<1>3. \A b : Cleared(b)' = Cleared(b) /\ Strikes(b)' = Strikes(b)
  BY <1>2 DEF Cleared, Strikes
<1>4. Clearable' = Clearable
  BY <1>3 DEF Clearable, Own
<1>5. QED
  BY <1>1, <1>3, <1>4

\* A sequence grows by an element of its set.
LEMMA SequenceGrows ==
  ASSUME NEW S, NEW s \in Seq(S), NEW e \in S
  PROVE  <<>> \in Seq(S) /\ Append(s, e) \in Seq(S)
  OBVIOUS

\* Every step of the planning keeps it.
LEMMA PlanNext == PlanInv /\ [BlockOpsNext]_blockVars => PlanInv'
<1> SUFFICES ASSUME PlanInv, [BlockOpsNext]_blockVars PROVE PlanInv'
  OBVIOUS
<1>0. UNCHANGED agreement
  BY DEF BlockOpsNext, blockVars, AskFor, PlanBlockOps, StrikeBlock, InsertParagraph,
     WriteNext, DeliverBlockOps
<1>1. ASSUME NEW op \in Deletes \cup Inserts, AskFor(op) PROVE PlanInv'
  <2>1. planned' = {} /\ Deletions' = {}
    BY <1>1 DEF AskFor, PlanInv, Deletions
  <2>2. asked' = <<>> \/ asked' = Append(asked, op)
    BY <1>1 DEF AskFor
  <2>3. asked' \in Seq(Deletes \cup Inserts)
    <3>1. asked \in Seq(Deletes \cup Inserts)
      BY DEF PlanInv
    <3>2. QED
      BY <2>2, <3>1, SequenceGrows
  <2>4. struck' \cup omitted' \subseteq Clearable
    BY <1>1 DEF AskFor, PlanInv
  <2>5. QED
    BY <1>0, <2>1, <2>3, <2>4, SameAgreement DEF PlanInv
<1>2. CASE PlanBlockOps
  <2>1. ASSUME NEW k \in Deletions' PROVE k \in DOMAIN asked /\ Cleared(asked[k].block)
    <3>1. k \in DOMAIN asked /\ ~Unplannable(asked[k]) /\ asked[k].op = "delete_block"
      BY <1>2, <2>1 DEF PlanBlockOps, Deletions
    <3>2. asked[k] \in Deletes \cup Inserts
      BY <3>1 DEF PlanInv
    <3>3. asked[k].block \in DOMAIN agreement
      BY <3>1, <3>2 DEF Deletes, Inserts
    <3>4. QED
      BY <3>1, <3>3 DEF Unplannable, Cleared
  <2>2. QED
    BY <1>0, <1>2, <2>1, SameAgreement DEF PlanBlockOps, PlanInv
<1>3. ASSUME NEW k \in planned, StrikeBlock(k) PROVE PlanInv'
  <2>1. k \in Deletions
    BY <1>3 DEF StrikeBlock, WriteNext
  <2>2. MarkedIn(asked[k].block) \subseteq Clearable
    BY <2>1, StrikesClearable DEF MarkedIn
  <2>3. struck' \cup omitted' \subseteq Clearable
    BY <1>3, <2>1, <2>2, StrikesClearable DEF StrikeBlock, PlanInv
  <2>4. Deletions' = Deletions /\ UNCHANGED <<asked, phase, planned>>
    BY <1>3 DEF StrikeBlock, WriteNext, Deletions
  <2>5. QED
    BY <1>0, <2>3, <2>4, SameAgreement DEF PlanInv
<1>4. ASSUME NEW k \in planned, InsertParagraph(k) PROVE PlanInv'
  <2>1. Deletions' = Deletions /\ UNCHANGED <<asked, phase, planned, struck, omitted>>
    BY <1>4 DEF InsertParagraph, WriteNext, Deletions
  <2>2. QED
    BY <1>0, <2>1, SameAgreement DEF PlanInv
<1>5. CASE DeliverBlockOps
  <2>1. phase' # "asking"
    BY <1>5 DEF DeliverBlockOps
  <2>2. Deletions' = Deletions /\ UNCHANGED <<asked, planned, struck, omitted>>
    BY <1>5 DEF DeliverBlockOps, Deletions
  <2>3. QED
    BY <1>0, <2>1, <2>2, SameAgreement DEF PlanInv
<1>6. CASE UNCHANGED blockVars
  <2>1. Deletions' = Deletions /\ UNCHANGED <<asked, phase, planned, struck, omitted>>
    BY <1>6 DEF blockVars, Deletions
  <2>2. QED
    BY <1>0, <2>1, SameAgreement DEF PlanInv
<1>7. QED
  BY <1>1, <1>2, <1>3, <1>4, <1>5, <1>6 DEF BlockOpsNext

-----------------------------------------------------------------------------
(* What a whole-block plan leaves on paper.                                *)

\* A deletion of the block is written.
Done(b) == \E k \in written : asked[k].op = "delete_block" /\ asked[k].block = b

\* The operations that are not refused.
Plannable == {k \in DOMAIN asked : ~Unplannable(asked[k])}

\* What was asked for, in a document there may be; what is planned was not
\* refused, and the end comes when all of it is written.
PlanStands ==
  /\ agreement \in Agreements
  /\ asked \in Seq(Deletes \cup Inserts)
  /\ written \subseteq planned
  /\ planned \subseteq Plannable
  /\ phase = "asking" => planned = {}
  /\ phase \in {"delivered", "withheld"} => written = planned

\* The document's paragraphs are all in the paper and, besides them, exactly
\* the paragraphs inserted.
PaperHolds ==
  /\ paper \in Seq(Nat \X Nat)
  /\ \A b \in DOMAIN agreement : \A i \in DOMAIN Body(b) : Own(b, i) \in ToSet(paper)
  /\ \A k \in Nat : New(k) \in ToSet(paper) <=> k \in written \cap Insertions

\* What is struck and what is omitted is what the written deletions cover.
DeletionsShow ==
  \A b \in DOMAIN agreement : \A i \in DOMAIN Body(b) :
    /\ Own(b, i) \in omitted <=> Done(b) /\ Own(b, i) \in MarkedIn(b)
    /\ Done(b) /\ i \in Strikes(b) => Own(b, i) \in struck \cup omitted

PaperInv == PlanStands /\ PaperHolds /\ DeletionsShow

\* A block's body is a sequence of paragraphs.
LEMMA Bodies ==
  ASSUME agreement \in Agreements, NEW b \in DOMAIN agreement
  PROVE  /\ agreement \in Seq([heading : {"none", "live", "moved"},
               paragraphs : Seq([kind : {"signature", "weak", "mixed", "body"},
                                 found : BOOLEAN, cell : BOOLEAN])])
         /\ b \in Nat \ {0}
         /\ Len(Body(b)) \in Nat /\ DOMAIN Body(b) = 1 .. Len(Body(b))
         /\ Body(b) # <<>> => 1 \in DOMAIN Body(b)
         /\ Len(Kinds(b)) = Len(Body(b))
         /\ \A i \in DOMAIN Body(b) : Kinds(b)[i] = Body(b)[i].kind
<1> DEFINE Paragraphs == Seq([kind : {"signature", "weak", "mixed", "body"},
                                 found : BOOLEAN, cell : BOOLEAN])
           Block == [heading : {"none", "live", "moved"}, paragraphs : Paragraphs]
<1>1. agreement \in Seq(Block)
  BY AgreementsAssumption
<1>2. agreement[b] \in Block /\ b \in Nat \ {0}
  <2> HIDE DEF Block
  <2> QED
    BY <1>1
<1>3. Body(b) \in Paragraphs
  <2> HIDE DEF Paragraphs
  <2> QED
    BY <1>2 DEF Body
<1>4. /\ Len(Body(b)) \in Nat /\ DOMAIN Body(b) = 1 .. Len(Body(b))
      /\ Body(b) # <<>> => 1 \in DOMAIN Body(b)
  BY <1>3
<1>5. \A i \in DOMAIN Body(b) : Kinds(b)[i] = Body(b)[i].kind
  BY DEF Kinds
<1>6. Len(Kinds(b)) = Len(Body(b))
  BY <1>4 DEF Kinds
<1> QED
  BY <1>1, <1>2, <1>4, <1>5, <1>6

\* From where the tail starts there are only signature lines and what may
\* stand with them.
LEMMA TailFacts ==
  ASSUME NEW kinds, Len(kinds) \in Nat
  PROVE  /\ RunStart(kinds) \in 1 .. Len(kinds) + 1
         /\ TailStart(kinds) \in 1 .. Len(kinds) + 1
         /\ \A j \in TailStart(kinds) .. Len(kinds) : kinds[j] \in {"signature", "weak"}
<1> DEFINE starts == {i \in 1 .. Len(kinds) + 1 :
                        \A j \in i .. Len(kinds) : kinds[j] \in {"signature", "weak"}}
<1>1. starts \in SUBSET Nat /\ starts # {}
  <2>1. Len(kinds) + 1 \in starts
    OBVIOUS
  <2>2. starts \in SUBSET Nat
    OBVIOUS
  <2> QED
    BY <2>1, <2>2
<1>2. \E i \in starts : \A j \in starts : i <= j
  <2> HIDE DEF starts
  <2> QED
    BY <1>1, LeastNumber
<1>3. RunStart(kinds) \in starts
  BY <1>2 DEF RunStart
<1> QED
  BY <1>3 DEF TailStart

-----------------------------------------------------------------------------
(* The marks on paper, and their order.                                    *)

\* The paragraphs of the document, and the marks there may be on paper.
OwnMarks == UNION {{Own(b, i) : i \in DOMAIN Body(b)} : b \in DOMAIN agreement}
NewMarks(K) == {New(k) : k \in K}
Marks == OwnMarks \cup NewMarks(DOMAIN asked)

\* Where a paragraph belongs: by its block or the one it is put after, what
\* the block had before what is new, each in its own order.
Spot(p) == IF p[1] = AnchorStart THEN asked[p[2]].block ELSE p[1]
Order ==
  {r \in Marks \X Marks :
     \/ Spot(r[1]) < Spot(r[2])
     \/ /\ Spot(r[1]) = Spot(r[2])
        /\ \/ r[1][1] # AnchorStart /\ r[2][1] = AnchorStart
           \/ (r[1][1] = AnchorStart <=> r[2][1] = AnchorStart) /\ r[1][2] < r[2][2]}

\* What a mark is.
LEMMA MarkFacts ==
  ASSUME agreement \in Agreements, asked \in Seq(Deletes \cup Inserts)
  PROVE  /\ \A b \in DOMAIN agreement : \A i \in DOMAIN Body(b) :
              /\ Own(b, i) \in Marks /\ Spot(Own(b, i)) = b
              /\ Own(b, i)[1] = b /\ Own(b, i)[2] = i /\ b \in Nat \ {0} /\ i \in Nat
         /\ \A k \in DOMAIN asked :
              /\ New(k) \in Marks /\ Spot(New(k)) = asked[k].block
              /\ New(k)[1] = AnchorStart /\ New(k)[2] = k /\ k \in Nat
              /\ asked[k].block \in DOMAIN agreement \cup {AnchorStart}
              /\ asked[k].block \in Nat
         /\ DOMAIN agreement \subseteq Nat
<1>1. ASSUME NEW b \in DOMAIN agreement, NEW i \in DOMAIN Body(b)
      PROVE  /\ Own(b, i) \in Marks /\ Spot(Own(b, i)) = b
             /\ Own(b, i)[1] = b /\ Own(b, i)[2] = i /\ b \in Nat \ {0} /\ i \in Nat
  <2>1. b \in Nat \ {0} /\ i \in Nat
    BY <1>1, Bodies
  <2>2. Own(b, i) \in Marks
    BY <1>1 DEF Marks, OwnMarks
  <2> QED
    BY <2>1, <2>2 DEF Spot, Own, AnchorStart
<1>2. DOMAIN agreement \subseteq Nat
  BY Bodies
<1>3. ASSUME NEW k \in DOMAIN asked
      PROVE  /\ New(k) \in Marks /\ Spot(New(k)) = asked[k].block
             /\ New(k)[1] = AnchorStart /\ New(k)[2] = k /\ k \in Nat
             /\ asked[k].block \in DOMAIN agreement \cup {AnchorStart}
             /\ asked[k].block \in Nat
  <2>1. k \in Nat /\ asked[k] \in Deletes \cup Inserts
    OBVIOUS
  <2>2. asked[k].block \in DOMAIN agreement \cup {AnchorStart}
    BY <2>1 DEF Deletes, Inserts
  <2>3. New(k) \in Marks
    BY <1>3 DEF Marks, NewMarks
  <2> QED
    BY <1>2, <2>1, <2>2, <2>3 DEF Spot, New, AnchorStart
<1> QED
  BY <1>1, <1>2, <1>3

\* Marks are pairs of numbers, and have a place each.
LEMMA MarkNumbers ==
  ASSUME agreement \in Agreements, asked \in Seq(Deletes \cup Inserts), NEW p \in Marks
  PROVE  /\ Spot(p) \in Nat /\ p[1] \in Nat /\ p[2] \in Nat /\ p \in Nat \X Nat
         /\ p = <<p[1], p[2]>>
<1>1. CASE p \in OwnMarks
  <2>3. PICK b \in DOMAIN agreement : \E i \in DOMAIN Body(b) : p = Own(b, i)
    BY <1>1 DEF OwnMarks
  <2>1. PICK i \in DOMAIN Body(b) : p = Own(b, i)
    BY <2>3
  <2>2. Spot(p) = b /\ b \in Nat /\ i \in Nat
    BY <2>1, MarkFacts
  <2> QED
    BY <2>1, <2>2 DEF Own
<1>2. CASE p \in NewMarks(DOMAIN asked)
  <2>1. PICK k \in DOMAIN asked : p = New(k)
    BY <1>2 DEF NewMarks
  <2>2. Spot(p) \in Nat /\ k \in Nat
    BY <2>1, MarkFacts
  <2> QED
    BY <2>1, <2>2 DEF New, AnchorStart
<1> QED
  BY <1>1, <1>2 DEF Marks

LEMMA OrderStrict ==
  ASSUME agreement \in Agreements, asked \in Seq(Deletes \cup Inserts)
  PROVE  StrictOn(Order, Marks)
<1>1. \A p \in Marks : Spot(p) \in Nat /\ p[2] \in Nat
  BY MarkNumbers
<1>2. ASSUME NEW x \in Marks PROVE <<x, x>> \notin Order
  BY <1>1 DEF Order
<1>3. ASSUME NEW x \in Marks, NEW y \in Marks, NEW z \in Marks,
             <<x, y>> \in Order, <<y, z>> \in Order
      PROVE  <<x, z>> \in Order
  <2>1. \/ Spot(x) < Spot(y)
        \/ /\ Spot(x) = Spot(y)
           /\ \/ x[1] # AnchorStart /\ y[1] = AnchorStart
              \/ (x[1] = AnchorStart <=> y[1] = AnchorStart) /\ x[2] < y[2]
    BY <1>3 DEF Order
  <2>2. \/ Spot(y) < Spot(z)
        \/ /\ Spot(y) = Spot(z)
           /\ \/ y[1] # AnchorStart /\ z[1] = AnchorStart
              \/ (y[1] = AnchorStart <=> z[1] = AnchorStart) /\ y[2] < z[2]
    BY <1>3 DEF Order
  <2>3. \/ Spot(x) < Spot(z)
        \/ /\ Spot(x) = Spot(z)
           /\ \/ x[1] # AnchorStart /\ z[1] = AnchorStart
              \/ (x[1] = AnchorStart <=> z[1] = AnchorStart) /\ x[2] < z[2]
    BY <1>1, <2>1, <2>2
  <2> QED
    BY <2>3 DEF Order
<1> QED
  BY <1>2, <1>3 DEF StrictOn

\* A body is in order.
LEMMA OwnedSorted ==
  ASSUME agreement \in Agreements, asked \in Seq(Deletes \cup Inserts),
         NEW b \in DOMAIN agreement
  PROVE  /\ Owned(b) \in Seq(Marks) /\ Sorted(Owned(b), Order)
         /\ ToSet(Owned(b)) = {Own(b, i) : i \in DOMAIN Body(b)}
<1>1. Len(Body(b)) \in Nat /\ DOMAIN Body(b) = 1 .. Len(Body(b))
  BY Bodies
<1>2. \A i \in DOMAIN Body(b) :
        /\ Own(b, i) \in Marks /\ Spot(Own(b, i)) = b
        /\ Own(b, i)[1] = b /\ Own(b, i)[2] = i /\ b # 0
  BY MarkFacts
<1>3. /\ DOMAIN Owned(b) = 1 .. Len(Body(b))
      /\ \A i \in 1 .. Len(Body(b)) : Owned(b)[i] = Own(b, i)
  BY <1>1 DEF Owned
<1>4. Owned(b) \in Seq(Marks)
  <2>1. Owned(b) = [i \in 1 .. Len(Body(b)) |-> Own(b, i)]
    BY <1>1 DEF Owned
  <2> QED
    BY <1>1, <1>2, <2>1
<1>5. Sorted(Owned(b), Order)
  <2>1. SUFFICES ASSUME NEW i \in 1 .. Len(Body(b)), NEW j \in 1 .. Len(Body(b)), i < j
                 PROVE  <<Own(b, i), Own(b, j)>> \in Order
    BY <1>3 DEF Sorted
  <2> QED
    BY <1>1, <1>2, <2>1 DEF Order, AnchorStart
<1>6. ToSet(Owned(b)) = {Own(b, i) : i \in DOMAIN Body(b)}
  BY <1>1, <1>3 DEF ToSet
<1> QED
  BY <1>4, <1>5, <1>6

\* Sorted marks of two places, the lower first.
LEMMA SpotsInOrder ==
  ASSUME NEW p \in Marks, NEW q \in Marks, Spot(p) < Spot(q)
  PROVE  <<p, q>> \in Order
BY DEF Order

\* The document's paper.
Document == FlattenSeq([b \in DOMAIN agreement |-> Owned(b)])

LEMMA DocumentSorted ==
  ASSUME agreement \in Agreements, asked \in Seq(Deletes \cup Inserts)
  PROVE  /\ Document \in Seq(Marks) /\ Sorted(Document, Order)
         /\ ToSet(Document) = OwnMarks
<1> DEFINE parts == [b \in DOMAIN agreement |-> Owned(b)]
<1>1. DOMAIN agreement = 1 .. Len(agreement) /\ Len(agreement) \in Nat
  BY AgreementsAssumption
<1>2. \A b \in DOMAIN agreement :
        /\ Owned(b) \in Seq(Marks) /\ Sorted(Owned(b), Order)
        /\ ToSet(Owned(b)) = {Own(b, i) : i \in DOMAIN Body(b)}
  BY OwnedSorted
<1>3. parts \in Seq(Seq(Marks)) /\ DOMAIN parts = DOMAIN agreement
  BY <1>1, <1>2
<1>4. \A b \in DOMAIN parts : parts[b] = Owned(b)
  OBVIOUS
<1> HIDE DEF parts
<1>5. \A b \in DOMAIN parts : Sorted(parts[b], Order)
  BY <1>2, <1>3, <1>4
<1>6. ASSUME NEW a \in DOMAIN parts, NEW b \in DOMAIN parts, a < b,
             NEW x \in ToSet(parts[a]), NEW y \in ToSet(parts[b])
      PROVE  <<x, y>> \in Order
  <2>1. PICK i \in DOMAIN Body(a) : x = Own(a, i)
    BY <1>2, <1>3, <1>4
  <2>2. PICK j \in DOMAIN Body(b) : y = Own(b, j)
    BY <1>2, <1>3, <1>4
  <2>3. x \in Marks /\ y \in Marks /\ Spot(x) = a /\ Spot(y) = b
    BY <1>3, <2>1, <2>2, MarkFacts
  <2> QED
    BY <1>6, <2>3, SpotsInOrder
<1>7. /\ FlattenSeq(parts) \in Seq(Marks) /\ Sorted(FlattenSeq(parts), Order)
      /\ ToSet(FlattenSeq(parts)) = UNION {ToSet(parts[b]) : b \in DOMAIN parts}
  BY <1>3, <1>5, <1>6, FlattenedHas
<1>8. UNION {ToSet(parts[b]) : b \in DOMAIN parts} = OwnMarks
  BY <1>2, <1>3, <1>4 DEF OwnMarks
<1> QED
  BY <1>7, <1>8 DEF Document, parts

-----------------------------------------------------------------------------
(* The plan and the paper stay in line.                                    *)

\* The document stays.
LEMMA SameBlocks ==
  ASSUME UNCHANGED agreement
  PROVE  /\ (Deletes \cup Inserts)' = Deletes \cup Inserts
         /\ \A b : Body(b)' = Body(b) /\ Kinds(b)' = Kinds(b) /\ Strikes(b)' = Strikes(b)
         /\ UNCHANGED asked => Plannable' = Plannable
<1>1. (Deletes \cup Inserts)' = Deletes \cup Inserts
  BY DEF Deletes, Inserts
<1>2. \A b : Body(b)' = Body(b) /\ Kinds(b)' = Kinds(b)
  BY DEF Kinds, Body
<1>3. \A b : Strikes(b)' = Strikes(b)
  BY <1>2 DEF Strikes
<1>4. ASSUME UNCHANGED asked PROVE Plannable' = Plannable
  <2>1. ASSUME NEW k \in DOMAIN asked
        PROVE  Unplannable(asked[k])' = Unplannable(asked[k])
    BY <1>2, <1>3, <1>4 DEF Unplannable, Wanted, Anchor
  <2> QED
    BY <1>4, <2>1 DEF Plannable
<1> QED
  BY <1>1, <1>2, <1>3, <1>4

\* So does the plan.
LEMMA SamePlan ==
  ASSUME UNCHANGED <<agreement, asked, planned>>
  PROVE  /\ Deletions' = Deletions /\ Insertions' = Insertions
         /\ \A b : MarkedIn(b)' = MarkedIn(b)
<1>1. Deletions' = Deletions /\ Insertions' = Insertions
  BY DEF Deletions, Insertions
<1>2. \A b : StruckBlock(b)' = StruckBlock(b) /\ Anchored(b)' = Anchored(b)
  BY <1>1 DEF StruckBlock, Anchored, Anchor
<1>3. \A b : Placeholder(b)' = Placeholder(b)
  BY <1>2 DEF Placeholder
<1>4. \A b : MarkedIn(b)' = MarkedIn(b)
  BY <1>3, SameBlocks DEF MarkedIn, Own
<1> QED
  BY <1>1, <1>4

\* The paper is the document to begin with.
LEMMA PaperInit == BlockOpsInit => PaperInv
<1> SUFFICES ASSUME BlockOpsInit PROVE PaperInv
  OBVIOUS
<1>1. /\ agreement \in Agreements /\ asked = <<>> /\ written = {} /\ planned = {}
      /\ phase = "asking" /\ omitted = {} /\ paper = Document
  BY DEF BlockOpsInit, Document
<1>2. asked \in Seq(Deletes \cup Inserts)
  BY <1>1
<1>3. paper \in Seq(Marks) /\ ToSet(paper) = OwnMarks
  BY <1>1, <1>2, DocumentSorted
<1>4. paper \in Seq(Nat \X Nat)
  <2>1. \A p \in Marks : p \in Nat \X Nat
    BY <1>1, <1>2, MarkNumbers
  <2>2. Marks \subseteq Nat \X Nat
    BY <2>1
  <2> HIDE DEF Marks
  <2> QED
    BY <1>3, <2>2, SeqMonotonic
<1>5. \A k \in Nat : New(k) \notin ToSet(paper)
  <2>1. SUFFICES ASSUME NEW k \in Nat, NEW b \in DOMAIN agreement, NEW i \in DOMAIN Body(b),
                        New(k) = Own(b, i)
                 PROVE  FALSE
    BY <1>3 DEF OwnMarks
  <2>2. b # 0
    BY <1>1, Bodies
  <2> QED
    BY <2>1, <2>2 DEF New, Own, AnchorStart
<1>6. PlanStands
  BY <1>1, <1>2 DEF PlanStands, Plannable
<1>7. PaperHolds
  BY <1>1, <1>3, <1>4, <1>5 DEF PaperHolds, OwnMarks
<1>8. DeletionsShow
  BY <1>1 DEF DeletionsShow, Done
<1> QED
  BY <1>6, <1>7, <1>8 DEF PaperInv

\* What was inserted at the anchor before, and the anchor's own paragraphs.
Mine(op) ==
  {i \in DOMAIN paper : \E j \in written : paper[i] = New(j) /\ asked[j].block = op.block}
InBody(op) ==
  {i \in DOMAIN paper : \E p \in DOMAIN Body(Anchor(op)) : paper[i] = Own(Anchor(op), p)}

\* There is a place in the paper for every planned insertion: after the last
\* one at its anchor, or at the anchor.
LEMMA PlaceIs ==
  ASSUME PaperInv, NEW k \in Insertions
  PROVE  /\ Place(asked[k]) \in 0 .. Len(paper) /\ New(k) \in Nat \X Nat
         /\ Anchor(asked[k]) \in DOMAIN agreement
         /\ \/ /\ Place(asked[k]) \in Mine(asked[k])
               /\ \A i \in Mine(asked[k]) : i <= Place(asked[k])
            \/ /\ Mine(asked[k]) = {} /\ asked[k].block = AnchorStart
               /\ Place(asked[k]) + 1 \in InBody(asked[k])
               /\ \A i \in InBody(asked[k]) : Place(asked[k]) + 1 <= i
            \/ /\ Mine(asked[k]) = {} /\ asked[k].block # AnchorStart
               /\ Place(asked[k]) \in InBody(asked[k])
               /\ \A i \in InBody(asked[k]) : i <= Place(asked[k])
<1> DEFINE op == asked[k]
           a == Anchor(op)
           mine == Mine(op)
           body == InBody(op)
<1>1. k \in DOMAIN asked /\ ~Unplannable(op) /\ agreement \in Agreements /\ k \in Nat
  BY DEF PaperInv, PlanStands, Plannable, Insertions
<1>2. a \in DOMAIN agreement /\ Body(a) # <<>>
  BY <1>1 DEF Unplannable
<1>3. 1 \in DOMAIN Body(a)
  <2> HIDE DEF a
  <2> QED
    BY <1>1, <1>2, Bodies
<1>4. Own(a, 1) \in ToSet(paper) /\ paper \in Seq(Nat \X Nat)
  BY <1>2, <1>3 DEF PaperInv, PaperHolds
<1>5. DOMAIN paper = 1 .. Len(paper) /\ Len(paper) \in Nat
  BY <1>4
<1>6. body \in SUBSET (1 .. Len(paper)) /\ body # {} /\ mine \in SUBSET (1 .. Len(paper))
  BY <1>3, <1>4, <1>5 DEF ToSet, Mine, InBody
<1>7. Place(op) = IF mine # {} THEN CHOOSE x \in mine : \A y \in mine : y <= x
                  ELSE IF op.block = AnchorStart
                       THEN (CHOOSE x \in body : \A y \in body : x <= y) - 1
                       ELSE CHOOSE x \in body : \A y \in body : y <= x
  BY DEF Place, Mine, InBody
<1> HIDE DEF mine, body
<1> DEFINE last == CHOOSE x \in mine : \A y \in mine : y <= x
           bottom == CHOOSE x \in body : \A y \in body : y <= x
           top == CHOOSE x \in body : \A y \in body : x <= y
<1>8. mine # {} => last \in mine /\ \A y \in mine : y <= last
  BY <1>5, <1>6, GreatestNumber
<1>9. bottom \in body /\ \A y \in body : y <= bottom
  BY <1>5, <1>6, GreatestNumber
<1>10. top \in body /\ \A y \in body : top <= y
  <2>1. body \in SUBSET Nat
    BY <1>5, <1>6
  <2> QED
    BY <1>6, <2>1, LeastNumber
<1>11. Place(op) = IF mine # {} THEN last
                   ELSE IF op.block = AnchorStart THEN top - 1 ELSE bottom
  BY <1>7
<1> DEFINE place == Place(op)
<1> HIDE DEF op, last, bottom, top, place
<1>12. /\ place \in 0 .. Len(paper)
       /\ \/ place \in mine /\ \A i \in mine : i <= place
          \/ /\ mine = {} /\ op.block = AnchorStart
             /\ place + 1 \in body /\ \A i \in body : place + 1 <= i
          \/ /\ mine = {} /\ op.block # AnchorStart
             /\ place \in body /\ \A i \in body : i <= place
  <2>1. CASE mine # {}
    <3>1. place = last
      BY <1>11, <2>1 DEF place
    <3>2. last \in 1 .. Len(paper)
      BY <1>6, <1>8, <2>1
    <3> QED
      BY <1>5, <1>8, <2>1, <3>1, <3>2
  <2>2. CASE mine = {} /\ op.block = AnchorStart
    <3>1. place = top - 1
      BY <1>11, <2>2 DEF place
    <3>2. top \in 1 .. Len(paper)
      BY <1>6, <1>10
    <3>3. place + 1 = top /\ place \in 0 .. Len(paper)
      BY <1>5, <3>1, <3>2
    <3> QED
      BY <1>10, <2>2, <3>3
  <2>3. CASE mine = {} /\ op.block # AnchorStart
    <3>1. place = bottom
      BY <1>11, <2>3 DEF place
    <3>2. bottom \in 1 .. Len(paper)
      BY <1>6, <1>9
    <3> QED
      BY <1>5, <1>9, <2>3, <3>1, <3>2
  <2> QED
    BY <2>1, <2>2, <2>3
<1>13. New(k) \in Nat \X Nat
  BY <1>1 DEF New, AnchorStart
<1> QED
  BY <1>2, <1>12, <1>13 DEF op, mine, body, place


\* Every step keeps the plan and the paper in line.
LEMMA PaperNext == PaperInv /\ [BlockOpsNext]_blockVars => PaperInv'
<1> SUFFICES ASSUME PaperInv, [BlockOpsNext]_blockVars PROVE PaperInv'
  OBVIOUS
<1>1. UNCHANGED agreement /\ agreement \in Agreements
  BY DEF BlockOpsNext, blockVars, AskFor, PlanBlockOps, StrikeBlock, InsertParagraph,
     WriteNext, DeliverBlockOps, PaperInv, PlanStands
<1>2. /\ \A b : Body(b)' = Body(b) /\ Strikes(b)' = Strikes(b)
      /\ (DOMAIN agreement)' = DOMAIN agreement
      /\ \A b, i : Own(b, i)' = Own(b, i)
      /\ \A k : New(k)' = New(k)
  BY <1>1, SameBlocks DEF Own, New
\* Nothing is written yet, so the operations asked for may change.
<1>3. ASSUME phase = "asking", planned = {}, UNCHANGED <<written, paper, struck, omitted>>
      PROVE  PaperHolds' /\ DeletionsShow'
  <2>1. written = {}
    BY <1>3 DEF PaperInv, PlanStands
  <2>2. \A b : ~Done(b) /\ ~Done(b)'
    BY <1>3, <2>1 DEF Done
  <2>3. PaperHolds'
    BY <1>1, <1>2, <1>3, <2>1 DEF PaperInv, PaperHolds
  <2>4. DeletionsShow'
    BY <1>1, <1>2, <1>3, <2>2 DEF PaperInv, DeletionsShow
  <2> QED
    BY <2>3, <2>4
<1>4. ASSUME NEW op \in Deletes \cup Inserts, AskFor(op) PROVE PaperInv'
  <2>1. phase = "asking" /\ planned = {} /\ written = {}
    BY <1>4 DEF AskFor, PaperInv, PlanStands
  <2>2. UNCHANGED <<planned, written, paper, struck, omitted>> /\ phase' \in {"asking", "rejected"}
    BY <1>4, <2>1 DEF AskFor
  <2>3. asked' = <<>> \/ asked' = Append(asked, op)
    BY <1>4 DEF AskFor
  <2>4. asked' \in Seq(Deletes \cup Inserts)
    <3>1. asked \in Seq(Deletes \cup Inserts)
      BY DEF PaperInv, PlanStands
    <3> QED
      BY <2>3, <3>1, SequenceGrows
  <2>5. (Deletes \cup Inserts)' = Deletes \cup Inserts
    BY <1>1, SameBlocks
  <2>6. PlanStands'
    BY <1>1, <2>1, <2>2, <2>4, <2>5 DEF PlanStands
  <2> QED
    BY <1>3, <2>1, <2>2, <2>6 DEF PaperInv
<1>5. CASE PlanBlockOps
  <2>1. phase = "asking" /\ planned = {} /\ written = {}
    BY <1>5 DEF PlanBlockOps, PaperInv, PlanStands
  <2>2. UNCHANGED <<asked, written, paper, struck, omitted>> /\ phase' = "writing"
    BY <1>5 DEF PlanBlockOps
  <2>3. (Deletes \cup Inserts)' = Deletes \cup Inserts /\ Plannable' = Plannable
    BY <1>1, <2>2, SameBlocks
  <2>4. planned' \subseteq Plannable'
    BY <1>5, <2>3 DEF PlanBlockOps, Plannable
  <2>5. PlanStands'
    BY <1>1, <2>1, <2>2, <2>3, <2>4 DEF PaperInv, PlanStands
  <2> QED
    BY <1>3, <2>1, <2>2, <2>5 DEF PaperInv
\* From here on the plan stays.
<1>6. ASSUME UNCHANGED <<asked, planned>>
      PROVE  /\ Deletions' = Deletions /\ Insertions' = Insertions
             /\ \A b : MarkedIn(b)' = MarkedIn(b)
             /\ asked' \in Seq((Deletes \cup Inserts)')
             /\ planned' \subseteq Plannable'
  <2>1. (Deletes \cup Inserts)' = Deletes \cup Inserts /\ Plannable' = Plannable
    BY <1>1, <1>6, SameBlocks
  <2>2. Deletions' = Deletions /\ Insertions' = Insertions /\ \A b : MarkedIn(b)' = MarkedIn(b)
    BY <1>1, <1>6, SamePlan
  <2>3. asked' \in Seq((Deletes \cup Inserts)')
    BY <1>6, <2>1 DEF PaperInv, PlanStands
  <2>4. planned' \subseteq Plannable'
    BY <1>6, <2>1 DEF PaperInv, PlanStands
  <2> QED
    BY <2>2, <2>3, <2>4
<1>7. ASSUME NEW k \in planned, StrikeBlock(k) PROVE PaperInv'
  <2> DEFINE c == asked[k].block
  <2>1. /\ k \in Deletions /\ written' = written \cup {k} /\ phase = "writing"
        /\ UNCHANGED <<asked, phase, planned, paper>>
        /\ struck' = struck \cup ({Own(c, i) : i \in Strikes(c)} \ MarkedIn(c))
        /\ omitted' = omitted \cup MarkedIn(c)
    BY <1>7 DEF StrikeBlock, WriteNext
  <2>2. PlanStands'
    BY <1>1, <1>6, <2>1 DEF PaperInv, PlanStands
  <2>3. written' \cap Insertions = written \cap Insertions
    BY <2>1 DEF Insertions
  <2>4. PaperHolds'
    BY <1>2, <1>6, <2>1, <2>3 DEF PaperInv, PaperHolds
  <2>5. \A b : Done(b)' <=> Done(b) \/ b = c
    BY <2>1 DEF Done, Deletions
  <2>6. ASSUME NEW b \in DOMAIN agreement, NEW i \in DOMAIN Body(b)
        PROVE  /\ Own(b, i) \in omitted' <=> Done(b)' /\ Own(b, i) \in MarkedIn(b)
               /\ Done(b)' /\ i \in Strikes(b) => Own(b, i) \in struck' \cup omitted'
    <3>1. Own(b, i) \in MarkedIn(c) => b = c
      BY DEF MarkedIn, Own
    <3>2. b = c /\ i \in Strikes(b) => Own(b, i) \in {Own(c, j) : j \in Strikes(c)}
      OBVIOUS
    <3>3. /\ Own(b, i) \in omitted <=> Done(b) /\ Own(b, i) \in MarkedIn(b)
          /\ Done(b) /\ i \in Strikes(b) => Own(b, i) \in struck \cup omitted
      BY DEF PaperInv, DeletionsShow
    <3> HIDE DEF c
    <3> QED
      BY <2>1, <2>5, <3>1, <3>2, <3>3
  <2>7. DeletionsShow'
    BY <1>2, <1>6, <2>1, <2>6 DEF DeletionsShow
  <2> QED
    BY <2>2, <2>4, <2>7 DEF PaperInv
<1>8. ASSUME NEW k \in planned, InsertParagraph(k) PROVE PaperInv'
  <2>1. /\ k \in Insertions /\ written' = written \cup {k} /\ phase = "writing"
        /\ UNCHANGED <<asked, phase, planned, struck, omitted>>
        /\ paper' = InsertAt(paper, Place(asked[k]) + 1, New(k))
    BY <1>8 DEF InsertParagraph, WriteNext
  <2>2. PlanStands'
    BY <1>1, <1>6, <2>1 DEF PaperInv, PlanStands
  <2>3. paper' \in Seq(Nat \X Nat) /\ ToSet(paper') = ToSet(paper) \cup {New(k)}
    <3>1. Place(asked[k]) \in 0 .. Len(paper) /\ New(k) \in Nat \X Nat
      BY <2>1, PlaceIs
    <3>2. paper \in Seq(Nat \X Nat)
      BY DEF PaperInv, PaperHolds
    <3>3. Place(asked[k]) + 1 \in 1 .. Len(paper) + 1
      BY <3>1, <3>2
    <3> DEFINE here == Place(asked[k]) + 1
               e == New(k)
               Pairs == Nat \X Nat
    <3>4. here \in 1 .. Len(paper) + 1 /\ e \in Pairs /\ paper \in Seq(Pairs)
      BY <3>1, <3>2, <3>3
    <3>8. paper' = InsertAt(paper, here, e)
      BY <2>1
    <3> HIDE DEF here, e, Pairs
    <3>5. /\ InsertAt(paper, here, e) \in Seq(Pairs)
          /\ ToSet(InsertAt(paper, here, e)) = ToSet(paper) \cup {e}
      BY <3>4, InsertedHas
    <3>9. InsertAt(paper, here, e) \in Seq(Nat \X Nat)
      BY <3>5 DEF Pairs
    <3>6. e = New(k)
      BY DEF e
    <3>7. ToSet(paper') = ToSet(paper) \cup {e} /\ paper' \in Seq(Nat \X Nat)
      BY <3>5, <3>8, <3>9, Zenon
    <3> QED
      BY <3>6, <3>7, Zenon
  <2>4. \A j \in Nat : New(j) = New(k) <=> j = k
    BY DEF New
  <2>5. \A j \in Nat : New(j) \in ToSet(paper') <=> j \in written' \cap Insertions
    BY <2>1, <2>3, <2>4 DEF PaperInv, PaperHolds
  <2>6. \A b \in DOMAIN agreement : \A i \in DOMAIN Body(b) : Own(b, i) \in ToSet(paper')
    BY <2>3 DEF PaperInv, PaperHolds
  <2>7. PaperHolds'
    BY <1>2, <1>6, <2>1, <2>3, <2>5, <2>6 DEF PaperHolds, ToSet
  <2>8. \A b : Done(b)' <=> Done(b)
    BY <2>1 DEF Done, Insertions, Deletions
  <2>9. DeletionsShow'
    BY <1>2, <1>6, <2>1, <2>8 DEF PaperInv, DeletionsShow
  <2> QED
    BY <2>2, <2>7, <2>9 DEF PaperInv
<1>9. CASE DeliverBlockOps
  <2>1. /\ UNCHANGED <<asked, planned, written, paper, struck, omitted>> /\ written = planned
        /\ phase' # "asking"
    BY <1>9 DEF DeliverBlockOps
  <2>2. \A b : Done(b)' = Done(b)
    BY <2>1 DEF Done
  <2>3. PlanStands'
    BY <1>1, <1>6, <2>1 DEF PaperInv, PlanStands
  <2>4. PaperHolds'
    BY <1>2, <1>6, <2>1 DEF PaperInv, PaperHolds
  <2>5. DeletionsShow'
    BY <1>2, <1>6, <2>1, <2>2 DEF PaperInv, DeletionsShow
  <2> QED
    BY <2>3, <2>4, <2>5 DEF PaperInv
<1>10. CASE UNCHANGED blockVars
  <2>1. UNCHANGED <<asked, phase, planned, written, paper, struck, omitted>>
    BY <1>10 DEF blockVars
  <2>2. \A b : Done(b)' = Done(b)
    BY <2>1 DEF Done
  <2>3. PlanStands'
    BY <1>1, <1>6, <2>1 DEF PaperInv, PlanStands
  <2>4. PaperHolds'
    BY <1>2, <1>6, <2>1 DEF PaperInv, PaperHolds
  <2>5. DeletionsShow'
    BY <1>2, <1>6, <2>1, <2>2 DEF PaperInv, DeletionsShow
  <2> QED
    BY <2>3, <2>4, <2>5 DEF PaperInv
<1> QED
  BY <1>4, <1>5, <1>7, <1>8, <1>9, <1>10 DEF BlockOpsNext


\* What a written deletion covers has a paragraph that may take the
\* placeholder.
LEMMA MarkFound ==
  ASSUME PlanStands, NEW k \in Deletions
  PROVE  /\ asked[k].block \in DOMAIN agreement
         /\ \E i \in DOMAIN Body(asked[k].block) :
              i \in Strikes(asked[k].block) /\ \A j \in Strikes(asked[k].block) : j <= i
<1> DEFINE c == asked[k].block
<1>1. k \in DOMAIN asked /\ ~Unplannable(asked[k]) /\ asked[k].op = "delete_block"
  BY DEF PlanStands, Plannable, Deletions
<1>2. c \in DOMAIN agreement /\ agreement \in Agreements
  <2>1. asked[k] \in Deletes \cup Inserts
    BY <1>1 DEF PlanStands
  <2> QED
    BY <1>1, <2>1 DEF PlanStands, Deletes, Inserts
<1>3. Strikes(c) # {}
  BY <1>1 DEF Unplannable
<1>4. /\ Len(Body(c)) \in Nat /\ DOMAIN Body(c) = 1 .. Len(Body(c))
      /\ Len(Kinds(c)) = Len(Body(c))
  <2> HIDE DEF c
  <2> QED
    BY <1>2, Bodies
<1>5. Strikes(c) \in SUBSET (1 .. Len(Body(c)))
  <2>1. TailStart(Kinds(c)) \in 1 .. Len(Kinds(c)) + 1
    BY <1>4, TailFacts
  <2> QED
    BY <1>4, <2>1 DEF Strikes
<1>6. \E i \in Strikes(c) : \A j \in Strikes(c) : j <= i
  <2> HIDE DEF c
  <2> QED
    BY <1>3, <1>4, <1>5, GreatestNumber
<1> QED
  BY <1>2, <1>4, <1>5, <1>6

\* A struck clause shows the placeholder or a replacement that was inserted.
LEMMA CoveredByPaper == PaperInv => HeadingsCovered
<1> SUFFICES ASSUME PaperInv, phase \in {"delivered", "withheld"},
                    NEW b \in DOMAIN agreement, agreement[b].heading = "live", StruckBlock(b)
             PROVE  \/ \E i \in DOMAIN Body(b) : Own(b, i) \in omitted
                    \/ \E k \in DOMAIN asked : Anchor(asked[k]) = b /\ New(k) \in ToSet(paper)
  BY DEF HeadingsCovered
<1>1. PlanStands /\ PaperHolds /\ DeletionsShow /\ written = planned
  BY DEF PaperInv, PlanStands
<1>2. CASE Anchored(b)
  <2>1. PICK k \in Insertions : Anchor(asked[k]) = b
    BY <1>2 DEF Anchored
  <2>2. k \in DOMAIN asked /\ k \in Nat /\ k \in written
    BY <1>1, <2>1 DEF PlanStands, Plannable, Insertions
  <2>3. New(k) \in ToSet(paper)
    BY <1>1, <2>1, <2>2 DEF PaperHolds
  <2> QED
    BY <2>1, <2>2, <2>3
<1>3. CASE ~Anchored(b)
  <2>1. PICK k \in Deletions : asked[k].block = b
    BY DEF StruckBlock
  <2>2. PICK i \in DOMAIN Body(b) : i \in Strikes(b) /\ \A j \in Strikes(b) : j <= i
    BY <1>1, <2>1, MarkFound
  <2>3. Own(b, i) \in MarkedIn(b)
    BY <1>3, <2>2 DEF MarkedIn, Placeholder
  <2>4. Done(b)
    BY <1>1, <2>1 DEF Done, Deletions
  <2> QED
    BY <1>1, <2>3, <2>4 DEF DeletionsShow
<1> QED
  BY <1>2, <1>3

\* Where the placeholder stands, all that may be struck is struck, and nothing
\* was to be inserted.
LEMMA AloneInPaper == PaperInv => OmittedAlone
<1> SUFFICES ASSUME PaperInv, NEW b \in DOMAIN agreement, NEW i \in DOMAIN Body(b),
                    Own(b, i) \in omitted
             PROVE  /\ \A p \in DOMAIN Body(b) \ {i} :
                         Own(b, p) \in struck \/ (p > i /\ Kinds(b)[p] \in {"signature", "weak"})
                    /\ \A k \in written : Anchor(asked[k]) = b => New(k) \notin ToSet(paper)
  BY DEF OmittedAlone
<1>1. PlanStands /\ PaperHolds /\ DeletionsShow
  BY DEF PaperInv
<1>2. Done(b) /\ Own(b, i) \in MarkedIn(b)
  BY <1>1 DEF DeletionsShow
<1>3. /\ Placeholder(b) /\ i \in Strikes(b)
      /\ \A j \in Strikes(b) : Own(b, j) \in MarkedIn(b) => j = i
  <2>1. PICK x \in Strikes(b) : /\ Own(b, i) = Own(b, x) /\ Placeholder(b)
                                /\ \A j \in Strikes(b) : j <= x
    BY <1>2 DEF MarkedIn
  <2>2. x = i
    BY <2>1 DEF Own
  <2>3. ASSUME NEW j \in Strikes(b), Own(b, j) \in MarkedIn(b) PROVE j = i
    <3>1. \A m \in Strikes(b) : m <= j
      BY <2>3 DEF MarkedIn, Own
    <3>2. j <= i /\ i <= j
      BY <2>1, <2>2, <3>1
    <3>3. i \in Int /\ j \in Int
      BY <2>1, <2>2 DEF Strikes
    <3> QED
      BY <3>2, <3>3
  <2> QED
    BY <2>1, <2>2, <2>3
<1>4. /\ Len(Body(b)) \in Nat /\ DOMAIN Body(b) = 1 .. Len(Body(b))
      /\ Len(Kinds(b)) = Len(Body(b))
  BY <1>1, Bodies DEF PlanStands
<1>5. ASSUME NEW p \in DOMAIN Body(b) \ {i}
      PROVE  Own(b, p) \in struck \/ (p > i /\ Kinds(b)[p] \in {"signature", "weak"})
  <2>1. CASE p \in Strikes(b)
    <3>1. Own(b, p) \in struck \cup omitted
      BY <1>1, <1>2, <2>1 DEF DeletionsShow
    <3>2. Own(b, p) \notin omitted
      BY <1>1, <1>3, <1>5, <2>1 DEF DeletionsShow
    <3> QED
      BY <3>1, <3>2
  <2>2. CASE p \notin Strikes(b)
    <3>1. /\ TailStart(Kinds(b)) \in 1 .. Len(Kinds(b)) + 1
          /\ \A j \in TailStart(Kinds(b)) .. Len(Kinds(b)) : Kinds(b)[j] \in {"signature", "weak"}
      BY <1>4, TailFacts
    <3>2. p \in TailStart(Kinds(b)) .. Len(Kinds(b)) /\ p > i
      BY <1>3, <1>4, <2>2, <3>1 DEF Strikes
    <3> QED
      BY <3>1, <3>2
  <2> QED
    BY <2>1, <2>2
<1>6. ASSUME NEW k \in written, Anchor(asked[k]) = b PROVE New(k) \notin ToSet(paper)
  <2>1. k \in planned /\ k \in Nat
    BY <1>1 DEF PlanStands, Plannable
  <2>2. k \notin Insertions
    BY <1>3, <1>6 DEF Placeholder, Anchored
  <2> QED
    BY <1>1, <2>1, <2>2 DEF PaperHolds
<1> QED
  BY <1>5, <1>6

-----------------------------------------------------------------------------
(* The accepted and the promised paper.                                    *)

\* What a written deletion strikes, to the paragraph.
StruckOf(b) == {Own(b, i) : i \in Strikes(b)} \ MarkedIn(b)

\* The paper is in order once writing begins, with nothing on it that was not
\* in the document or inserted; insertions are written in their turn; and what
\* is struck is what the written deletions strike.
GateInv ==
  /\ phase = "asking" => paper = Document
  /\ phase \notin {"asking", "rejected"} => paper \in Seq(Marks) /\ Sorted(paper, Order)
  /\ ToSet(paper) = OwnMarks \cup NewMarks(written \cap Insertions)
  /\ \A j \in written \cap Insertions : \A k \in Insertions \ written : j < k
  /\ struck = UNION {StruckOf(b) : b \in {b \in DOMAIN agreement : Done(b)}}
  /\ phase # "withheld"

\* What is accepted, and what was promised, is the same: the same marks, in
\* the same order.
LEMMA AcceptedHas ==
  ASSUME PaperInv, GateInv, phase = "writing"
  PROVE  /\ AcceptedPaper \in Seq(Marks) /\ Sorted(AcceptedPaper, Order)
         /\ ToSet(AcceptedPaper) = ToSet(paper) \ struck
<1>1. paper \in Seq(Marks) /\ Sorted(paper, Order)
  BY DEF GateInv
<1> DEFINE K == ToSet(paper) \ struck
<1>2. AcceptedPaper = Kept(paper, K)
  BY DEF AcceptedPaper
<1>3. K = ToSet(paper) \cap K
  OBVIOUS
<1> HIDE DEF K
<1>4. /\ Kept(paper, K) \in Seq(Marks) /\ ToSet(Kept(paper, K)) = ToSet(paper) \cap K
      /\ Sorted(Kept(paper, K), Order)
  BY <1>1, KeptHas
<1> QED
  BY <1>2, <1>3, <1>4 DEF K

\* The planned insertions at a place, in the transcript's order.
LEMMA NewAfterHas ==
  ASSUME PlanStands, NEW b
  PROVE  /\ NewAfter(b) \in Seq(Marks) /\ Sorted(NewAfter(b), Order)
         /\ ToSet(NewAfter(b)) = NewMarks({k \in Insertions : asked[k].block = b})
<1> DEFINE all == [k \in DOMAIN asked |-> New(k)]
           mine == NewMarks({k \in Insertions : asked[k].block = b})
           R == {r \in Marks \X Marks : r[1][2] < r[2][2]}
<1>1. agreement \in Agreements /\ asked \in Seq(Deletes \cup Inserts)
  BY DEF PlanStands
<1>2. \A k \in DOMAIN asked : New(k) \in Marks /\ Spot(New(k)) = asked[k].block
        /\ New(k)[1] = AnchorStart /\ New(k)[2] = k /\ k \in Nat
  BY <1>1, MarkFacts
<1>3. DOMAIN asked = 1 .. Len(asked) /\ Len(asked) \in Nat
  BY <1>1
<1>4. all \in Seq(Marks) /\ DOMAIN all = DOMAIN asked /\ \A k \in DOMAIN asked : all[k] = New(k)
  BY <1>2, <1>3
<1>5. Insertions \subseteq DOMAIN asked
  BY DEF PlanStands, Plannable, Insertions
<1>6. mine \subseteq ToSet(all)
  BY <1>4, <1>5 DEF ToSet, NewMarks
<1>7. NewAfter(b) = Kept(all, mine)
  BY DEF NewAfter, NewMarks
<1> HIDE DEF all
<1>8. Sorted(all, R)
  BY <1>2, <1>4 DEF Sorted
<1>9. \A p \in mine : /\ Spot(p) = b /\ p[1] = AnchorStart /\ p \in Marks
  BY <1>2, <1>5 DEF NewMarks
<1> HIDE DEF mine
<1>10. \A p, q \in mine : <<p, q>> \in R => <<p, q>> \in Order
  BY <1>9 DEF Order
<1> HIDE DEF R
<1>11. /\ Kept(all, mine) \in Seq(Marks) /\ ToSet(Kept(all, mine)) = ToSet(all) \cap mine
       /\ Sorted(Kept(all, mine), R)
  BY <1>4, <1>8, KeptHas
<1>12. Sorted(Kept(all, mine), Order)
  <2> DEFINE s == Kept(all, mine)
  <2>1. \A i \in DOMAIN s : s[i] \in mine
    BY <1>11 DEF ToSet
  <2>2. Sorted(s, R)
    BY <1>11
  <2> HIDE DEF s
  <2>3. Sorted(s, Order)
    BY <1>10, <2>1, <2>2 DEF Sorted
  <2> QED
    BY <2>3 DEF s
<1> QED
  BY <1>6, <1>7, <1>11, <1>12 DEF mine

\* What is left of a block.
LeftOf(b) ==
  {Own(b, i) : i \in {i \in DOMAIN Body(b) :
                 StruckBlock(b) /\ i \in Strikes(b) => Own(b, i) \in MarkedIn(b)}}

LEMMA ExpectedOfHas ==
  ASSUME PlanStands, NEW b \in DOMAIN agreement
  PROVE  /\ ExpectedOf(b) \in Seq(Marks) /\ Sorted(ExpectedOf(b), Order)
         /\ ToSet(ExpectedOf(b)) = LeftOf(b)
<1>1. agreement \in Agreements /\ asked \in Seq(Deletes \cup Inserts)
  BY DEF PlanStands
<1>2. /\ Owned(b) \in Seq(Marks) /\ Sorted(Owned(b), Order)
      /\ ToSet(Owned(b)) = {Own(b, i) : i \in DOMAIN Body(b)}
  BY <1>1, OwnedSorted
<1>3. ExpectedOf(b) = Kept(Owned(b), LeftOf(b))
  BY DEF ExpectedOf, LeftOf
<1>4. LeftOf(b) \subseteq ToSet(Owned(b))
  BY <1>2 DEF LeftOf
<1>5. /\ Kept(Owned(b), LeftOf(b)) \in Seq(Marks)
      /\ ToSet(Kept(Owned(b), LeftOf(b))) = ToSet(Owned(b)) \cap LeftOf(b)
      /\ Sorted(Kept(Owned(b), LeftOf(b)), Order)
  BY <1>2, KeptHas
<1> QED
  BY <1>3, <1>4, <1>5

\* A block as promised: what is left, then what is put after it.
LEMMA BlockHas ==
  ASSUME PlanStands, NEW b \in DOMAIN agreement
  PROVE  /\ ExpectedOf(b) \o NewAfter(b) \in Seq(Marks)
         /\ Sorted(ExpectedOf(b) \o NewAfter(b), Order)
         /\ ToSet(ExpectedOf(b) \o NewAfter(b)) =
              LeftOf(b) \cup NewMarks({k \in Insertions : asked[k].block = b})
         /\ \A p \in ToSet(ExpectedOf(b) \o NewAfter(b)) : p \in Marks /\ Spot(p) = b
<1> DEFINE s == ExpectedOf(b)
           t == NewAfter(b)
           new == NewMarks({k \in Insertions : asked[k].block = b})
<1>1. agreement \in Agreements /\ asked \in Seq(Deletes \cup Inserts)
  BY DEF PlanStands
<1>2. s \in Seq(Marks) /\ Sorted(s, Order) /\ ToSet(s) = LeftOf(b)
  BY ExpectedOfHas
<1>3. t \in Seq(Marks) /\ Sorted(t, Order) /\ ToSet(t) = new
  BY NewAfterHas
<1>4. \A p \in LeftOf(b) : p \in Marks /\ Spot(p) = b /\ p[1] # AnchorStart
  BY <1>1, MarkFacts DEF LeftOf, AnchorStart
<1>5. Insertions \subseteq DOMAIN asked
  BY DEF PlanStands, Plannable, Insertions
<1>6. \A p \in new : p \in Marks /\ Spot(p) = b /\ p[1] = AnchorStart
  BY <1>1, <1>5, MarkFacts DEF NewMarks
<1> HIDE DEF s, t, new
<1>7. \A p \in ToSet(s), q \in ToSet(t) : <<p, q>> \in Order
  BY <1>2, <1>3, <1>4, <1>6 DEF Order
<1>8. Sorted(s \o t, Order)
  BY <1>2, <1>3, <1>7, JoinedSorted
<1>9. s \o t \in Seq(Marks) /\ ToSet(s \o t) = ToSet(s) \cup ToSet(t)
  BY <1>2, <1>3, JoinedHas
<1>10. \A p \in ToSet(s \o t) : p \in Marks /\ Spot(p) = b
  BY <1>2, <1>3, <1>4, <1>6, <1>9
<1>11. ToSet(s \o t) = LeftOf(b) \cup new
  BY <1>2, <1>3, <1>9
<1> QED
  BY <1>8, <1>9, <1>10, <1>11 DEF s, t, new

LEMMA ExpectedHas ==
  ASSUME PlanStands
  PROVE  /\ ExpectedPaper \in Seq(Marks) /\ Sorted(ExpectedPaper, Order)
         /\ ToSet(ExpectedPaper) =
              (UNION {LeftOf(b) : b \in DOMAIN agreement}) \cup NewMarks(Insertions)
<1> DEFINE block(b) == ExpectedOf(b) \o NewAfter(b)
           parts == [b \in DOMAIN agreement |-> block(b)]
           new(b) == NewMarks({k \in Insertions : asked[k].block = b})
           front == NewAfter(AnchorStart)
           rest == FlattenSeq(parts)
<1>1. agreement \in Agreements /\ asked \in Seq(Deletes \cup Inserts)
  BY DEF PlanStands
<1>2. DOMAIN agreement = 1 .. Len(agreement) /\ Len(agreement) \in Nat
  BY <1>1, AgreementsAssumption
<1>3. \A b \in DOMAIN agreement :
        /\ block(b) \in Seq(Marks) /\ Sorted(block(b), Order)
        /\ ToSet(block(b)) = LeftOf(b) \cup new(b)
        /\ \A p \in ToSet(block(b)) : p \in Marks /\ Spot(p) = b
  BY BlockHas
<1> HIDE DEF block
<1>4. parts \in Seq(Seq(Marks)) /\ DOMAIN parts = DOMAIN agreement
  BY <1>2, <1>3
<1>5. \A b \in DOMAIN agreement : parts[b] = block(b)
  OBVIOUS
<1>6. ExpectedPaper = front \o rest
  BY DEF ExpectedPaper, block
<1> HIDE DEF parts
<1>7. \A b \in DOMAIN parts : Sorted(parts[b], Order)
  BY <1>3, <1>4, <1>5
<1>8. ASSUME NEW a \in DOMAIN parts, NEW b \in DOMAIN parts, a < b,
             NEW x \in ToSet(parts[a]), NEW y \in ToSet(parts[b])
      PROVE  <<x, y>> \in Order
  <2>1. x \in Marks /\ y \in Marks /\ Spot(x) = a /\ Spot(y) = b
    BY <1>3, <1>4, <1>5
  <2> QED
    BY <1>8, <2>1, SpotsInOrder
<1>9. /\ rest \in Seq(Marks) /\ Sorted(rest, Order)
      /\ ToSet(rest) = UNION {ToSet(parts[b]) : b \in DOMAIN parts}
  BY <1>4, <1>7, <1>8, FlattenedHas
<1>10. ToSet(rest) = UNION {LeftOf(b) \cup new(b) : b \in DOMAIN agreement}
  <2>1. \A b \in DOMAIN agreement : ToSet(parts[b]) = LeftOf(b) \cup new(b)
    BY <1>3, <1>5
  <2> HIDE DEF new, rest
  <2>2. {ToSet(parts[b]) : b \in DOMAIN parts} = {LeftOf(b) \cup new(b) : b \in DOMAIN agreement}
    BY <1>4, <2>1
  <2> QED
    BY <1>9, <2>2
<1>11. front \in Seq(Marks) /\ Sorted(front, Order) /\ ToSet(front) = new(AnchorStart)
  BY NewAfterHas
<1>12. Insertions \subseteq DOMAIN asked
  BY DEF PlanStands, Plannable, Insertions
<1>13. \A p \in new(AnchorStart) : p \in Marks /\ Spot(p) = AnchorStart
  BY <1>1, <1>12, MarkFacts DEF NewMarks
<1>14. \A y \in ToSet(rest) : y \in Marks /\ Spot(y) \in 1 .. Len(agreement)
  <2>1. SUFFICES ASSUME NEW b \in DOMAIN parts, NEW y \in ToSet(parts[b])
                 PROVE  y \in Marks /\ Spot(y) \in 1 .. Len(agreement)
    BY <1>9
  <2> QED
    BY <1>2, <1>3, <1>4, <1>5
<1> HIDE DEF rest
<1>15. \A x \in ToSet(front), y \in ToSet(rest) : <<x, y>> \in Order
  <2>1. SUFFICES ASSUME NEW x \in ToSet(front), NEW y \in ToSet(rest) PROVE <<x, y>> \in Order
    OBVIOUS
  <2>2. x \in Marks /\ y \in Marks /\ Spot(x) = 0 /\ Spot(y) \in 1 .. Len(agreement)
    BY <1>11, <1>13, <1>14 DEF AnchorStart
  <2>3. Spot(x) < Spot(y)
    BY <1>2, <2>2
  <2> QED
    BY <2>2, <2>3, SpotsInOrder
<1> HIDE DEF front
<1>16. Sorted(front \o rest, Order)
  BY <1>9, <1>11, <1>15, JoinedSorted
<1>17. front \o rest \in Seq(Marks) /\ ToSet(front \o rest) = ToSet(front) \cup ToSet(rest)
  BY <1>9, <1>11, JoinedHas
<1>18. NewMarks(Insertions) = new(AnchorStart) \cup UNION {new(b) : b \in DOMAIN agreement}
  <2>1. \A k \in Insertions : asked[k].block \in DOMAIN agreement \cup {AnchorStart}
    BY <1>1, <1>12, MarkFacts
  <2> QED
    BY <2>1 DEF NewMarks
<1>19. ToSet(front \o rest) =
         (UNION {LeftOf(b) : b \in DOMAIN agreement}) \cup NewMarks(Insertions)
  <2> HIDE DEF new
  <2> QED
    BY <1>10, <1>11, <1>17, <1>18
<1> QED
  BY <1>6, <1>16, <1>17, <1>19


\* When all is written, what was promised is accepted.
LEMMA GateOpens ==
  ASSUME PaperInv, GateInv, phase = "writing", written = planned
  PROVE  AcceptedPaper = ExpectedPaper
<1>1. PlanStands /\ agreement \in Agreements /\ asked \in Seq(Deletes \cup Inserts)
  BY DEF PaperInv, PlanStands
<1>2. \A b \in DOMAIN agreement : Done(b) <=> StruckBlock(b)
  BY DEF Done, StruckBlock, Deletions
<1>3. written \cap Insertions = Insertions
  BY DEF Insertions
<1>4. ToSet(paper) = OwnMarks \cup NewMarks(Insertions)
  BY <1>3 DEF GateInv
<1>5. ASSUME NEW b \in DOMAIN agreement, NEW i \in DOMAIN Body(b)
      PROVE  Own(b, i) \in struck <=>
               StruckBlock(b) /\ i \in Strikes(b) /\ Own(b, i) \notin MarkedIn(b)
  <2>1. ASSUME Own(b, i) \in struck
        PROVE  StruckBlock(b) /\ i \in Strikes(b) /\ Own(b, i) \notin MarkedIn(b)
    <3>1. PICK c \in DOMAIN agreement : Done(c) /\ Own(b, i) \in StruckOf(c)
      BY <2>1 DEF GateInv
    <3>2. c = b /\ i \in Strikes(c)
      BY <3>1 DEF StruckOf, Own
    <3> QED
      BY <1>2, <3>1, <3>2 DEF StruckOf
  <2>2. ASSUME StruckBlock(b), i \in Strikes(b), Own(b, i) \notin MarkedIn(b)
        PROVE  Own(b, i) \in struck
    BY <1>2, <2>2 DEF GateInv, StruckOf
  <2> QED
    BY <2>1, <2>2
<1>6. \A k \in Insertions : New(k) \notin struck
  <2>1. SUFFICES ASSUME NEW k \in Insertions, NEW c \in DOMAIN agreement,
                        New(k) \in StruckOf(c)
                 PROVE  FALSE
    BY DEF GateInv
  <2>2. c # 0
    BY <1>1, Bodies
  <2> QED
    BY <2>1, <2>2 DEF StruckOf, Own, New, AnchorStart
<1>7. OwnMarks \ struck = UNION {LeftOf(b) : b \in DOMAIN agreement}
  <2>1. ASSUME NEW b \in DOMAIN agreement, NEW i \in DOMAIN Body(b), Own(b, i) \notin struck
        PROVE  Own(b, i) \in LeftOf(b)
    BY <1>5, <2>1 DEF LeftOf
  <2>2. ASSUME NEW b \in DOMAIN agreement, NEW p \in LeftOf(b)
        PROVE  p \in OwnMarks \ struck
    <3>1. PICK i \in DOMAIN Body(b) :
            /\ p = Own(b, i)
            /\ StruckBlock(b) /\ i \in Strikes(b) => Own(b, i) \in MarkedIn(b)
      BY DEF LeftOf
    <3> QED
      BY <1>5, <3>1 DEF OwnMarks
  <2> QED
    BY <2>1, <2>2 DEF OwnMarks
<1>8. NewMarks(Insertions) \ struck = NewMarks(Insertions)
  BY <1>6 DEF NewMarks
<1>9. ToSet(AcceptedPaper) = ToSet(ExpectedPaper)
  <2>1. ToSet(AcceptedPaper) = ToSet(paper) \ struck
    BY AcceptedHas
  <2>2. ToSet(ExpectedPaper) =
          (UNION {LeftOf(b) : b \in DOMAIN agreement}) \cup NewMarks(Insertions)
    BY <1>1, ExpectedHas
  <2> QED
    BY <1>4, <1>7, <1>8, <2>1, <2>2
<1>10. AcceptedPaper \in Seq(Marks) /\ Sorted(AcceptedPaper, Order)
  BY AcceptedHas
<1>11. ExpectedPaper \in Seq(Marks) /\ Sorted(ExpectedPaper, Order)
  BY <1>1, ExpectedHas
<1>12. StrictOn(Order, Marks)
  BY <1>1, OrderStrict
<1> QED
  BY <1>9, <1>10, <1>11, <1>12, SortedEqual

-----------------------------------------------------------------------------
(* The paper stays in order.                                               *)

\* A new paragraph is placed after all that belongs before it, and before all
\* that belongs after it.
LEMMA PlacedInOrder ==
  ASSUME PaperInv, GateInv, phase = "writing", NEW k \in Insertions \ written
  PROVE  /\ \A i \in 1 .. Place(asked[k]) : <<paper[i], New(k)>> \in Order
         /\ \A i \in Place(asked[k]) + 1 .. Len(paper) : <<New(k), paper[i]>> \in Order
<1> DEFINE c == asked[k].block
           place == Place(asked[k])
           mine == Mine(asked[k])
           body == InBody(asked[k])
<1>1. /\ PlanStands /\ agreement \in Agreements /\ asked \in Seq(Deletes \cup Inserts)
      /\ Insertions \subseteq DOMAIN asked /\ k \in DOMAIN asked
  BY DEF PaperInv, PlanStands, Plannable, Insertions
<1>2. /\ paper \in Seq(Marks) /\ Sorted(paper, Order)
      /\ DOMAIN paper = 1 .. Len(paper) /\ Len(paper) \in Nat
  BY DEF GateInv
<1>3. StrictOn(Order, Marks)
  BY <1>1, OrderStrict
<1>4. /\ New(k) \in Marks /\ Spot(New(k)) = c /\ New(k)[1] = AnchorStart /\ New(k)[2] = k
      /\ c \in Nat /\ k \in Nat
  BY <1>1, MarkFacts
<1>5. ASSUME NEW i \in DOMAIN paper
      PROVE  \/ \E b \in DOMAIN agreement : \E q \in DOMAIN Body(b) : paper[i] = Own(b, q)
             \/ \E m \in written \cap Insertions : paper[i] = New(m)
  <2>1. paper[i] \in OwnMarks \cup NewMarks(written \cap Insertions)
    BY DEF GateInv, ToSet
  <2> QED
    BY <2>1 DEF OwnMarks, NewMarks
<1>6. ASSUME NEW i \in DOMAIN paper, Spot(paper[i]) = c, paper[i][1] = AnchorStart
      PROVE  i \in mine
  <2>1. PICK m \in written \cap Insertions : paper[i] = New(m)
    <3>1. ~\E b \in DOMAIN agreement : \E q \in DOMAIN Body(b) : paper[i] = Own(b, q)
      BY <1>1, <1>6, MarkFacts DEF AnchorStart
    <3> QED
      BY <1>5, <3>1
  <2>2. asked[m].block = c
    BY <1>1, <1>6, <2>1, MarkFacts
  <2> QED
    BY <2>1, <2>2 DEF Mine
<1>7. ASSUME NEW i \in DOMAIN paper, paper[i][1] # AnchorStart
      PROVE  /\ Spot(paper[i]) # 0
             /\ Spot(paper[i]) = Anchor(asked[k]) => i \in body
  <2>1. PICK b \in DOMAIN agreement : \E q \in DOMAIN Body(b) : paper[i] = Own(b, q)
    <3>1. ~\E m \in written \cap Insertions : paper[i] = New(m)
      BY <1>1, <1>7, MarkFacts
    <3> QED
      BY <1>5, <3>1
  <2>2. PICK q \in DOMAIN Body(b) : paper[i] = Own(b, q)
    BY <2>1
  <2>3. Spot(paper[i]) = b /\ b # 0
    BY <1>1, <2>2, MarkFacts
  <2> QED
    BY <2>2, <2>3 DEF InBody
<1>8. \A i \in DOMAIN paper : paper[i] \in Marks /\ Spot(paper[i]) \in Nat /\ paper[i][2] \in Nat
  <2>1. \A i \in DOMAIN paper : paper[i] \in Marks
    BY <1>2
  <2> QED
    BY <1>1, <2>1, MarkNumbers
<1>9. /\ place \in 0 .. Len(paper)
      /\ Anchor(asked[k]) = IF c = AnchorStart THEN 1 ELSE c
      /\ \/ place \in mine /\ \A i \in mine : i <= place
         \/ /\ mine = {} /\ c = AnchorStart
            /\ place + 1 \in body /\ \A i \in body : place + 1 <= i
         \/ /\ mine = {} /\ c # AnchorStart
            /\ place \in body /\ \A i \in body : i <= place
  BY PlaceIs DEF Anchor
<1>10. mine \subseteq DOMAIN paper /\ body \subseteq DOMAIN paper
  BY DEF Mine, InBody
\* What the anchor's own paragraphs are.
<1>11. ASSUME NEW i \in body
       PROVE  /\ paper[i] \in Marks /\ paper[i][1] # AnchorStart
              /\ Spot(paper[i]) = Anchor(asked[k])
  <2>1. PICK q \in DOMAIN Body(Anchor(asked[k])) : paper[i] = Own(Anchor(asked[k]), q)
    BY DEF InBody
  <2>2. Anchor(asked[k]) \in DOMAIN agreement
    BY PlaceIs
  <2> QED
    BY <1>1, <2>1, <2>2, MarkFacts DEF AnchorStart
\* What was inserted at the anchor is earlier in the transcript.
<1>12. ASSUME NEW i \in mine
       PROVE  /\ paper[i] \in Marks /\ paper[i][1] = AnchorStart /\ Spot(paper[i]) = c
              /\ paper[i][2] \in Nat /\ paper[i][2] < k
  <2>1. PICK j \in written : paper[i] = New(j) /\ asked[j].block = c
    BY DEF Mine
  <2>2. j \in DOMAIN asked /\ j \in Nat
    <3>1. j \in DOMAIN asked
      BY <1>1 DEF PlanStands, Plannable
    <3> QED
      BY <1>1, <3>1, MarkFacts
  <2>3. j \in Insertions
    <3>1. New(j) \in ToSet(paper)
      BY <1>10, <2>1 DEF ToSet
    <3> QED
      BY <2>2, <3>1 DEF PaperInv, PaperHolds
  <2>4. j < k
    BY <2>1, <2>3 DEF GateInv
  <2> QED
    BY <1>1, <2>1, <2>2, <2>4, MarkFacts
<1> HIDE DEF c, place, mine, body
<1>13. /\ \A i, j \in 1 .. Len(paper) : i < j => <<paper[i], paper[j]>> \in Order
       /\ \A x, y, z \in Marks : <<x, y>> \in Order /\ <<y, z>> \in Order => <<x, z>> \in Order
  BY <1>2, <1>3 DEF Sorted, StrictOn
\* Between what is sorted.
<1>14. ASSUME NEW i \in 1 .. Len(paper), NEW j \in 1 .. Len(paper), i < j
       PROVE  \/ Spot(paper[i]) < Spot(paper[j])
              \/ /\ Spot(paper[i]) = Spot(paper[j])
                 /\ \/ paper[i][1] # AnchorStart /\ paper[j][1] = AnchorStart
                    \/ (paper[i][1] = AnchorStart <=> paper[j][1] = AnchorStart)
  BY <1>13, <1>14 DEF Order
<1>15. CASE place \in mine /\ \A i \in mine : i <= place
  <2>1. place \in 1 .. Len(paper)
    BY <1>2, <1>10, <1>15
  <2>2. <<paper[place], New(k)>> \in Order
    BY <1>4, <1>12, <1>15 DEF Order
  <2>3. ASSUME NEW i \in 1 .. place PROVE <<paper[i], New(k)>> \in Order
    <3>1. CASE i = place
      BY <2>2, <3>1
    <3>2. CASE i # place
      <4>1. i < place /\ i \in 1 .. Len(paper)
        BY <2>1, <3>2
      <4>2. paper[i] \in Marks /\ paper[place] \in Marks
        BY <1>2, <1>8, <2>1, <4>1
      <4> QED
        BY <1>4, <1>13, <2>1, <2>2, <4>1, <4>2
    <3> QED
      BY <3>1, <3>2
  <2>4. ASSUME NEW i \in place + 1 .. Len(paper) PROVE <<New(k), paper[i]>> \in Order
    <3>1. place < i /\ i \in 1 .. Len(paper) /\ i \in DOMAIN paper
      BY <1>2, <2>1
    <3>2. i \notin mine
      BY <1>15, <2>1, <3>1
    <3>3. Spot(paper[place]) = c /\ paper[place][1] = AnchorStart
      BY <1>12, <1>15
    <3>4. Spot(paper[i]) # c \/ paper[i][1] # AnchorStart
      BY <1>6, <3>1, <3>2
    <3>5. c < Spot(paper[i])
      BY <1>14, <2>1, <3>1, <3>3, <3>4
    <3> QED
      BY <1>4, <1>8, <3>1, <3>5, SpotsInOrder
  <2> QED
    BY <2>3, <2>4 DEF place
<1>16. CASE mine = {} /\ c = AnchorStart /\ place + 1 \in body /\ \A i \in body : place + 1 <= i
  <2> DEFINE top == place + 1
  <2>1. top \in 1 .. Len(paper)
    BY <1>2, <1>10, <1>16
  <2>2. Spot(paper[top]) = 1 /\ paper[top][1] # AnchorStart
    BY <1>9, <1>11, <1>16
  <2>3. top \in body /\ \A i \in body : top <= i
    BY <1>16
  <2>4. c = 0 /\ place \in Nat
    BY <1>9, <1>16 DEF AnchorStart
  <2>5. \A i \in 1 .. place : i < top /\ i \in 1 .. Len(paper)
    BY <2>1, <2>4
  <2> HIDE DEF top
  <2>6. ASSUME NEW i \in 1 .. place PROVE FALSE
    <3>1. i < top /\ i \in 1 .. Len(paper) /\ i \in DOMAIN paper
      BY <1>2, <2>5
    <3>2. i \notin body
      BY <2>1, <2>3, <3>1
    <3>3. Spot(paper[i]) \in {0, 1} /\ paper[i][1] # AnchorStart
      <4>1. \/ Spot(paper[i]) < 1
            \/ Spot(paper[i]) = 1 /\ paper[i][1] # AnchorStart
        BY <1>14, <2>1, <2>2, <3>1
      <4>2. Spot(paper[i]) \in Nat
        BY <1>8, <3>1
      <4>3. Spot(paper[i]) # 0 \/ paper[i][1] # AnchorStart
        BY <1>6, <1>16, <2>4, <3>1
      <4> QED
        BY <4>1, <4>2, <4>3
    <3>4. Anchor(asked[k]) = 1
      BY <1>9, <1>16
    <3> QED
      BY <1>7, <3>1, <3>2, <3>3, <3>4
  <2>7. ASSUME NEW i \in place + 1 .. Len(paper) PROVE <<New(k), paper[i]>> \in Order
    <3>1. i \in 1 .. Len(paper) /\ i \in DOMAIN paper /\ top <= i
      BY <1>2, <2>4 DEF top
    <3>2. Spot(paper[i]) >= 1
      <4>1. CASE i = top
        BY <2>2, <4>1
      <4>2. CASE i # top
        <5>1. top < i
          BY <2>1, <3>1, <4>2
        <5>2. Spot(paper[i]) \in Nat
          BY <1>8, <3>1
        <5> QED
          BY <1>14, <2>1, <2>2, <3>1, <5>1, <5>2
      <4> QED
        BY <4>1, <4>2
    <3>3. Spot(New(k)) < Spot(paper[i])
      BY <1>4, <1>8, <2>4, <3>1, <3>2
    <3> QED
      BY <1>4, <1>8, <3>1, <3>3, SpotsInOrder
  <2> QED
    BY <2>6, <2>7 DEF place
<1>17. CASE mine = {} /\ c # AnchorStart /\ place \in body /\ \A i \in body : i <= place
  <2>1. place \in 1 .. Len(paper)
    BY <1>2, <1>10, <1>17
  <2>2. Spot(paper[place]) = c /\ paper[place][1] # AnchorStart /\ paper[place] \in Marks
    BY <1>9, <1>11, <1>17
  <2>3. <<paper[place], New(k)>> \in Order
    BY <1>4, <2>2 DEF Order
  <2>4. ASSUME NEW i \in 1 .. place PROVE <<paper[i], New(k)>> \in Order
    <3>1. CASE i = place
      BY <2>3, <3>1
    <3>2. CASE i # place
      <4>1. i < place /\ i \in 1 .. Len(paper)
        BY <2>1, <3>2
      <4>2. paper[i] \in Marks /\ paper[place] \in Marks
        BY <1>2, <1>8, <2>1, <4>1
      <4> QED
        BY <1>4, <1>13, <2>1, <2>3, <4>1, <4>2
    <3> QED
      BY <3>1, <3>2
  <2>5. ASSUME NEW i \in place + 1 .. Len(paper) PROVE <<New(k), paper[i]>> \in Order
    <3>1. place < i /\ i \in 1 .. Len(paper) /\ i \in DOMAIN paper
      BY <1>2, <2>1
    <3>2. i \notin body /\ i \notin mine
      BY <1>17, <2>1, <3>1
    <3>3. Spot(paper[i]) # c
      BY <1>6, <1>7, <1>9, <1>17, <3>1, <3>2
    <3>4. c < Spot(paper[i])
      BY <1>14, <2>1, <2>2, <3>1, <3>3
    <3> QED
      BY <1>4, <1>8, <3>1, <3>4, SpotsInOrder
  <2> QED
    BY <2>4, <2>5 DEF place
<1> QED
  BY <1>9, <1>15, <1>16, <1>17

LEMMA GateInit == BlockOpsInit => GateInv
<1> SUFFICES ASSUME BlockOpsInit PROVE GateInv
  OBVIOUS
<1>1. /\ agreement \in Agreements /\ phase = "asking" /\ asked = <<>> /\ written = {}
      /\ struck = {} /\ paper = Document
  BY DEF BlockOpsInit, Document
<1>2. asked \in Seq(Deletes \cup Inserts)
  BY <1>1
<1>3. ToSet(paper) = OwnMarks
  BY <1>1, <1>2, DocumentSorted
<1>4. NewMarks(written \cap Insertions) = {}
  BY <1>1 DEF NewMarks
<1>5. \A b : ~Done(b)
  BY <1>1 DEF Done
<1> QED
  BY <1>1, <1>3, <1>4, <1>5 DEF GateInv

\* Nothing the order is made of changes while the plan stays.
LEMMA SameOrder ==
  ASSUME UNCHANGED agreement
  PROVE  /\ OwnMarks' = OwnMarks /\ Document' = Document
         /\ \A K : NewMarks(K)' = NewMarks(K)
         /\ UNCHANGED asked => Marks' = Marks /\ Order' = Order
<1>1. OwnMarks' = OwnMarks
  BY SameBlocks DEF OwnMarks, Own
<1>2. Document' = Document
  BY SameBlocks DEF Document, Owned, Own
<1>3. \A K : NewMarks(K)' = NewMarks(K)
  BY DEF NewMarks, New
<1>4. ASSUME UNCHANGED asked PROVE Marks' = Marks /\ Order' = Order
  <2>1. Marks' = Marks
    BY <1>1, <1>4 DEF Marks, NewMarks, New
  <2>2. \A p : Spot(p)' = Spot(p)
    BY <1>4 DEF Spot
  <2> QED
    BY <2>1, <2>2 DEF Order
<1> QED
  BY <1>1, <1>2, <1>3, <1>4

\* Every step keeps the paper in order.
LEMMA GateNext == PaperInv /\ GateInv /\ [BlockOpsNext]_blockVars => GateInv'
<1> SUFFICES ASSUME PaperInv, GateInv, [BlockOpsNext]_blockVars PROVE GateInv'
  OBVIOUS
<1>1. UNCHANGED agreement /\ agreement \in Agreements /\ asked \in Seq(Deletes \cup Inserts)
  BY DEF BlockOpsNext, blockVars, AskFor, PlanBlockOps, StrikeBlock, InsertParagraph,
     WriteNext, DeliverBlockOps, PaperInv, PlanStands
<1>2. OwnMarks' = OwnMarks /\ Document' = Document /\ (DOMAIN agreement)' = DOMAIN agreement
  BY <1>1, SameOrder
\* While nothing is written, the paper is the document.
<1>3. ASSUME phase = "asking", UNCHANGED <<written, paper, struck>>,
             \/ phase' \in {"asking", "rejected"}
             \/ phase' = "writing" /\ UNCHANGED asked
      PROVE  GateInv'
  <2>1. written = {} /\ written' = {} /\ paper' = Document
    BY <1>3 DEF PaperInv, PlanStands, GateInv
  <2>2. (\A b : ~Done(b)) /\ (\A b : ~Done(b)')
    BY <2>1 DEF Done
  <2>3. struck' = {}
    BY <1>3, <2>2 DEF GateInv
  <2>4. struck' = UNION {StruckOf(b)' : b \in {b \in DOMAIN agreement : Done(b)'}}
    BY <2>2, <2>3
  <2>5. Document \in Seq(Marks) /\ Sorted(Document, Order) /\ ToSet(Document) = OwnMarks
    BY <1>1, DocumentSorted
  <2>6. phase' \notin {"asking", "rejected"} => paper' \in Seq(Marks') /\ Sorted(paper', Order')
    BY <1>1, <1>3, <2>1, <2>5, SameOrder
  <2>7. ToSet(paper') = OwnMarks /\ NewMarks(written' \cap Insertions') = {}
    BY <2>1, <2>5 DEF NewMarks
  <2>8. (\A j \in written \cap Insertions : \A k \in Insertions \ written : j < k)'
    BY <2>1
  <2>9. phase' # "withheld" /\ (phase' = "asking" => paper' = Document')
    BY <1>2, <1>3, <2>1
  <2>10. (struck = UNION {StruckOf(b) : b \in {b \in DOMAIN agreement : Done(b)}})'
    BY <1>2, <2>2, <2>3
  <2>11. (ToSet(paper) = OwnMarks \cup NewMarks(written \cap Insertions))'
    BY <1>2, <2>7 DEF ToSet, NewMarks, New
  <2> QED
    BY <2>6, <2>8, <2>9, <2>10, <2>11 DEF GateInv
<1>4. ASSUME NEW op \in Deletes \cup Inserts, AskFor(op) PROVE GateInv'
  <2>1. phase = "asking" /\ UNCHANGED <<written, paper, struck>> /\ phase' \in {"asking", "rejected"}
    BY <1>4 DEF AskFor
  <2> QED
    BY <1>3, <2>1
<1>5. CASE PlanBlockOps
  <2>1. /\ phase = "asking" /\ UNCHANGED <<written, paper, struck, asked>>
        /\ phase' = "writing"
    BY <1>5 DEF PlanBlockOps
  <2> QED
    BY <1>3, <2>1
\* From then on the plan, and the order with it, stays.
<1>6. ASSUME UNCHANGED <<asked, planned>>
      PROVE  /\ Deletions' = Deletions /\ Insertions' = Insertions
             /\ Marks' = Marks /\ Order' = Order
             /\ \A b : StruckOf(b)' = StruckOf(b)
             /\ \A K : NewMarks(K)' = NewMarks(K)
  <2>1. /\ Deletions' = Deletions /\ Insertions' = Insertions
        /\ \A b : MarkedIn(b)' = MarkedIn(b)
    BY <1>1, <1>6, SamePlan
  <2>2. \A b : StruckOf(b)' = StruckOf(b)
    BY <1>1, <2>1, SameBlocks DEF StruckOf, Own
  <2> QED
    BY <1>1, <1>6, <2>1, <2>2, SameOrder
<1>7. ASSUME NEW k \in planned, StrikeBlock(k) PROVE GateInv'
  <2> DEFINE c == asked[k].block
  <2>1. /\ k \in Deletions /\ written' = written \cup {k} /\ phase = "writing"
        /\ UNCHANGED <<asked, phase, planned, paper>>
        /\ struck' = struck \cup StruckOf(c)
    BY <1>7 DEF StrikeBlock, WriteNext, StruckOf
  <2>2. written' \cap Insertions = written \cap Insertions /\ Insertions \ written' = Insertions \ written
    BY <2>1 DEF Insertions
  <2>3. \A b : Done(b)' <=> Done(b) \/ b = c
    BY <2>1 DEF Done, Deletions
  <2>4. c \in DOMAIN agreement
    BY <2>1, MarkFound DEF PaperInv
  <2>5. struck' = UNION {StruckOf(b) : b \in {b \in DOMAIN agreement : Done(b)'}}
    <3> HIDE DEF c
    <3>1. {b \in DOMAIN agreement : Done(b)'} = {b \in DOMAIN agreement : Done(b)} \cup {c}
      BY <2>3, <2>4
    <3>2. struck = UNION {StruckOf(b) : b \in {b \in DOMAIN agreement : Done(b)}}
      BY DEF GateInv
    <3> QED
      BY <2>1, <3>1, <3>2
  <2>6. (struck = UNION {StruckOf(b) : b \in {b \in DOMAIN agreement : Done(b)}})'
    BY <1>2, <1>6, <2>1, <2>5
  <2>7. (ToSet(paper) = OwnMarks \cup NewMarks(written \cap Insertions))'
    BY <1>2, <1>6, <2>1, <2>2 DEF GateInv, ToSet, NewMarks, New
  <2>8. (\A j \in written \cap Insertions : \A m \in Insertions \ written : j < m)'
    BY <1>6, <2>1, <2>2 DEF GateInv
  <2>9. paper' \in Seq(Marks') /\ Sorted(paper', Order')
    BY <1>6, <2>1 DEF GateInv
  <2> QED
    BY <2>1, <2>6, <2>7, <2>8, <2>9 DEF GateInv
<1>8. ASSUME NEW k \in planned, InsertParagraph(k) PROVE GateInv'
  <2>1. /\ k \in Insertions /\ k \notin written /\ written' = written \cup {k} /\ phase = "writing"
        /\ UNCHANGED <<asked, phase, planned, struck, omitted>>
        /\ paper' = InsertAt(paper, Place(asked[k]) + 1, New(k))
        /\ \A j \in Insertions \ written : k <= j
    BY <1>8 DEF InsertParagraph, WriteNext
  <2>2. /\ paper \in Seq(Marks) /\ Sorted(paper, Order) /\ Len(paper) \in Nat
        /\ ToSet(paper) = OwnMarks \cup NewMarks(written \cap Insertions)
    BY <2>1 DEF GateInv
  <2>3. /\ paper' \in Seq(Marks) /\ Sorted(paper', Order)
        /\ ToSet(paper') = ToSet(paper) \cup {New(k)}
    <3> DEFINE here == Place(asked[k]) + 1
               e == New(k)
    <3>1. Place(asked[k]) \in 0 .. Len(paper)
      BY <2>1, PlaceIs
    <3>2. /\ \A i \in 1 .. Place(asked[k]) : <<paper[i], e>> \in Order
          /\ \A i \in here .. Len(paper) : <<e, paper[i]>> \in Order
      BY <2>1, PlacedInOrder
    <3>3. here \in 1 .. Len(paper) + 1 /\ here - 1 = Place(asked[k])
      BY <2>2, <3>1
    <3>4. e \in Marks
      <4>1. k \in DOMAIN asked
        BY <2>1 DEF PaperInv, PlanStands, Plannable
      <4> QED
        BY <1>1, <4>1, MarkFacts
    <3>5. paper' = InsertAt(paper, here, e)
      BY <2>1
    <3> HIDE DEF here, e
    <3>6. \A i \in 1 .. here - 1 : <<paper[i], e>> \in Order
      BY <3>2, <3>3
    <3>7. Sorted(InsertAt(paper, here, e), Order)
      BY <2>2, <3>2, <3>3, <3>4, <3>6, InsertedSorted
    <3>8. /\ InsertAt(paper, here, e) \in Seq(Marks)
          /\ ToSet(InsertAt(paper, here, e)) = ToSet(paper) \cup {e}
      <4>1. paper \in Seq(Marks) /\ here \in 1 .. Len(paper) + 1
        BY <2>2, <3>3
      <4> QED
        BY <3>4, <4>1, InsertedHas
    <3>9. ToSet(paper') = ToSet(paper) \cup {e}
      BY <3>5, <3>8, Zenon
    <3>10. paper' \in Seq(Marks) /\ Sorted(paper', Order)
      BY <3>5, <3>7, <3>8, Zenon
    <3> QED
      BY <3>9, <3>10 DEF e
  <2>4. written' \cap Insertions = (written \cap Insertions) \cup {k}
    BY <2>1
  <2>5. NewMarks(written' \cap Insertions) = NewMarks(written \cap Insertions) \cup {New(k)}
    BY <2>4 DEF NewMarks
  <2>6. ToSet(paper') = OwnMarks \cup NewMarks(written' \cap Insertions)
    BY <2>2, <2>3, <2>5
  <2>7. (ToSet(paper) = OwnMarks \cup NewMarks(written \cap Insertions))'
    BY <1>2, <1>6, <2>1, <2>6 DEF ToSet, NewMarks, New
  <2>8. \A j \in written' \cap Insertions : \A m \in Insertions \ written' : j < m
    <3>1. SUFFICES ASSUME NEW j \in written' \cap Insertions, NEW m \in Insertions \ written'
                   PROVE  j < m
      OBVIOUS
    <3>2. m \in Insertions \ written /\ m # k
      BY <2>1, <3>1
    <3>3. CASE j = k
      <4>1. k <= m /\ k \in Nat /\ m \in Nat
        BY <1>1, <2>1, <3>2 DEF PaperInv, PlanStands, Plannable, Insertions
      <4> QED
        BY <3>2, <3>3, <4>1
    <3>4. CASE j # k
      BY <2>4, <3>1, <3>2, <3>4 DEF GateInv
    <3> QED
      BY <3>3, <3>4
  <2>9. (\A j \in written \cap Insertions : \A m \in Insertions \ written : j < m)'
    BY <1>6, <2>1, <2>8
  <2>10. \A b : Done(b)' <=> Done(b)
    BY <2>1 DEF Done, Insertions, Deletions
  <2>11. (struck = UNION {StruckOf(b) : b \in {b \in DOMAIN agreement : Done(b)}})'
    BY <1>2, <1>6, <2>1, <2>10 DEF GateInv
  <2>12. paper' \in Seq(Marks') /\ Sorted(paper', Order')
    BY <1>6, <2>1, <2>3
  <2> QED
    BY <2>1, <2>7, <2>9, <2>11, <2>12 DEF GateInv
\* Nothing is written any more.
<1>9. ASSUME UNCHANGED <<asked, planned, written, paper, struck>>,
             \/ phase' = phase
             \/ phase = "writing" /\ phase' \in {"delivered", "nothing written"}
      PROVE  GateInv'
  <2>1. \A b : Done(b)' <=> Done(b)
    BY <1>9 DEF Done
  <2>2. (struck = UNION {StruckOf(b) : b \in {b \in DOMAIN agreement : Done(b)}})'
    BY <1>2, <1>6, <1>9, <2>1 DEF GateInv
  <2>3. (ToSet(paper) = OwnMarks \cup NewMarks(written \cap Insertions))'
    BY <1>2, <1>6, <1>9 DEF GateInv, ToSet, NewMarks, New
  <2>4. (\A j \in written \cap Insertions : \A m \in Insertions \ written : j < m)'
    BY <1>6, <1>9 DEF GateInv
  <2>5. phase' \notin {"asking", "rejected"} => paper' \in Seq(Marks') /\ Sorted(paper', Order')
    BY <1>6, <1>9 DEF GateInv
  <2>6. (phase' = "asking" => paper' = Document') /\ phase' # "withheld"
    BY <1>2, <1>9 DEF GateInv
  <2> QED
    BY <2>2, <2>3, <2>4, <2>5, <2>6 DEF GateInv
<1>10. CASE DeliverBlockOps
  <2>1. /\ UNCHANGED <<asked, planned, written, paper, struck>> /\ written = planned
        /\ phase = "writing"
        /\ phase' = IF planned = {} THEN "nothing written"
                    ELSE IF AcceptedPaper = ExpectedPaper THEN "delivered" ELSE "withheld"
    BY <1>10 DEF DeliverBlockOps
  <2>2. AcceptedPaper = ExpectedPaper
    BY <2>1, GateOpens
  <2>3. phase' \in {"delivered", "nothing written"}
    BY <2>1, <2>2
  <2> QED
    BY <1>9, <2>1, <2>3
<1>11. CASE UNCHANGED blockVars
  <2>1. UNCHANGED <<asked, planned, written, paper, struck, phase>>
    BY <1>11 DEF blockVars
  <2> QED
    BY <1>9, <2>1
<1> QED
  BY <1>4, <1>5, <1>7, <1>8, <1>10, <1>11 DEF BlockOpsNext

\* Whatever the document, the transcript and the operations refused, a clause
\* is struck with no signature lost, no heading left bare and no placeholder
\* beside a body, and the document is not withheld.
THEOREM ClausesAlwaysStruckCleanly == BlockOpsSpec => []ClausesStruckCleanly
<1>1. PlanInv => SignaturesStand
  BY ClearableHasNoSignature DEF PlanInv, SignaturesStand
<1>2. GateInv => phase # "withheld"
  BY DEF GateInv
<1>3. PlanInv /\ PaperInv /\ GateInv => ClausesStruckCleanly
  BY <1>1, <1>2, CoveredByPaper, AloneInPaper DEF ClausesStruckCleanly
<1>4. QED
  BY <1>3, PlanInit, PlanNext, PaperInit, PaperNext, GateInit, GateNext, PTL DEF BlockOpsSpec

-----------------------------------------------------------------------------
(* The change sets.                                                        *)

\* What a compilation may leave: every issue of it landed whole or is listed
\* as refused, and where protections must be named they landed, there is no
\* insertion left to name them, or all their hosts landed.
Settled(landed, hosts) ==
  /\ landed \subseteq Working(dropped)
  /\ \A k \in landed : issue[k].fate = "lands"
  /\ Working(dropped) \subseteq landed \cup refused
  /\ internal =>
       \/ Ledger \subseteq landed
       \/ Inserting(dropped) = {}
       \/ hosts # {} /\ hosts \subseteq landed

Documents ==
  {NoDocument, NotDelivered} \cup
  [status : {"compiled", "delivered"}, landed : SUBSET Keys, hosts : SUBSET Keys]

\* Every compilation that does not settle rolls an issue out.
RedlineInv ==
  /\ issue \in [Keys -> IssueRecord] /\ internal \in BOOLEAN
  /\ pass \in Nat /\ document \in Documents
  /\ pass + Cardinality(Working(dropped)) <= Cardinality(Edited) \/ document # NoDocument
  /\ pass <= Cardinality(Edited) + 1
  /\ PenRefused \subseteq dropped /\ dropped \subseteq PenRefused \cup refused
  /\ document.status \in {"compiled", "delivered"} => Settled(document.landed, document.hosts)
  /\ Delivered => ~(internal /\ ProposesProtection /\ Inserting(dropped) = {})

\* The sets of issues are finite, and what is left counts at most all.
LEMMA EditedFinite ==
  ASSUME NEW out
  PROVE  /\ IsFiniteSet(Working(out)) /\ Cardinality(Working(out)) \in Nat
         /\ IsFiniteSet(Edited) /\ Cardinality(Edited) \in Nat
         /\ Cardinality(Working(out)) <= Cardinality(Edited)
<1>1. IsFiniteSet(Edited)
  BY KeyAssumption, FS_Subset DEF Edited
<1> QED
  BY <1>1, FS_Subset, FS_CardinalityType DEF Working

\* Rolling out one of those left leaves fewer.
LEMMA FewerLeft ==
  ASSUME NEW out, NEW again, again \cap Working(out) # {}
  PROVE  Cardinality(Working(out \cup again)) < Cardinality(Working(out))
<1>1. Working(out \cup again) \subseteq Working(out) /\ Working(out \cup again) # Working(out)
  BY DEF Working
<1>2. /\ Cardinality(Working(out \cup again)) <= Cardinality(Working(out))
      /\ Cardinality(Working(out \cup again)) # Cardinality(Working(out))
  BY <1>1, EditedFinite, FS_Subset, Zenon
<1> QED
  BY <1>2, EditedFinite

\* A document is not one that is still to come.
LEMMA DocumentShape ==
  ASSUME NEW landed, NEW hosts, NEW status \in {"compiled", "delivered"}
  PROVE  LET d == [status |-> status, landed |-> landed, hosts |-> hosts] IN
         d # NoDocument /\ d # NotDelivered
  BY DEF NoDocument, NotDelivered

\* Nothing is compiled at first.
LEMMA RedlineInitInv == RedlineInit => RedlineInv
<1> SUFFICES ASSUME RedlineInit PROVE RedlineInv
  OBVIOUS
<1>1. /\ issue \in [Keys -> IssueRecord] /\ internal \in BOOLEAN /\ pass = 0
      /\ dropped = PenRefused /\ document = NoDocument
  BY DEF RedlineInit
<1>2. pass + Cardinality(Working(dropped)) <= Cardinality(Edited)
  BY <1>1, EditedFinite
<1> QED
  BY <1>1, <1>2, EditedFinite DEF RedlineInv, Documents, NoDocument, Delivered

\* A compilation settles, or rolls out what failed and is done again.
LEMMA CompileSettles ==
  ASSUME RedlineInv, Compile
  PROVE  RedlineInv'
<1>0. /\ document = NoDocument /\ Working(dropped) # {} /\ pass' = pass + 1
      /\ UNCHANGED <<issue, internal, critical>>
  BY DEF Compile
<1>1. PICK hosts \in Hosts(dropped), opens \in BOOLEAN :
        LET landed == IF opens THEN {k \in Working(dropped) : issue[k].fate # "fails"} ELSE {}
            failed == IF opens THEN {k \in Working(dropped) : issue[k].fate # "lands"}
                               ELSE Working(dropped)
        IN /\ refused' = refused \cup failed
           /\ Compiled(failed, landed, hosts)
  BY DEF Compile
<1> DEFINE landed == IF opens THEN {k \in Working(dropped) : issue[k].fate # "fails"} ELSE {}
           failed == IF opens THEN {k \in Working(dropped) : issue[k].fate # "lands"}
                              ELSE Working(dropped)
           half == failed \cap landed
           stranded == {k \in failed : k \in hosts \/ (k \in Ledger /\ internal)}
           again == IF half # {} THEN failed ELSE stranded
<1>2. /\ landed \subseteq Working(dropped) /\ failed \subseteq Working(dropped)
      /\ Working(dropped) \subseteq landed \cup failed
      /\ half = {} => \A k \in landed : issue[k].fate = "lands"
      /\ refused' = refused \cup failed
      /\ Working(dropped) \subseteq Keys
  BY <1>1 DEF Working, Edited, IssueRecord, Fates
<1>3. IF again # {} THEN dropped' = dropped \cup again /\ UNCHANGED document
      ELSE /\ document' = [status |-> "compiled", landed |-> landed, hosts |-> hosts]
           /\ UNCHANGED dropped
  BY <1>1 DEF Compiled
<1>4. again \subseteq failed
  OBVIOUS
<1>5. hosts \subseteq Inserting(dropped)
  BY DEF Hosts
<1>6. internal =>
        \/ Unhosted(dropped) = {}
        \/ Inserting(dropped) = {}
        \/ hosts # {}
  <2> SUFFICES ASSUME internal, Unhosted(dropped) # {}, Inserting(dropped) # {}
               PROVE  hosts # {}
    OBVIOUS
  <2>1. Hosts(dropped) = (SUBSET Inserting(dropped)) \ {{}}
    BY Zenon DEF Hosts
  <2> QED
    BY <2>1
<1>7. Inserting(dropped) \subseteq Working(dropped)
  BY DEF Inserting
<1>8. /\ Edited' = Edited /\ PenRefused' = PenRefused /\ Ledger' = Ledger
      /\ \A out : Working(out)' = Working(out)
  BY <1>0 DEF Edited, PenRefused, Ledger, Working
<1>9. pass \in Nat /\ pass + Cardinality(Working(dropped)) <= Cardinality(Edited)
  BY <1>0 DEF RedlineInv
<1>10. Cardinality(Working(dropped)) \in Nat \ {0} /\ Cardinality(Edited) \in Nat
  BY <1>0, EditedFinite, FS_EmptySet
<1>11. pass' \in Nat /\ pass' <= Cardinality(Edited) + 1
  BY <1>0, <1>9, <1>10
<1> HIDE DEF landed, failed, stranded, again
<1>12. CASE again # {}
  <2>1. dropped' = dropped \cup again /\ document' = document
    BY <1>3, <1>12
  <2>2. Cardinality(Working(dropped \cup again)) < Cardinality(Working(dropped))
    BY <1>2, <1>4, <1>12, FewerLeft
  <2>3. Working(dropped)' = Working(dropped \cup again)
    BY <1>8, <2>1 DEF Working
  <2>4. Cardinality(Working(dropped \cup again)) \in Nat
    BY EditedFinite
  <2>5. pass' + Cardinality(Working(dropped)') <= Cardinality(Edited)
    BY <1>0, <1>9, <1>10, <2>2, <2>3, <2>4
  <2>6. PenRefused \subseteq dropped' /\ dropped' \subseteq PenRefused \cup refused'
    BY <1>2, <1>4, <2>1 DEF RedlineInv
  <2> QED
    BY <1>0, <1>8, <1>11, <2>1, <2>5, <2>6 DEF RedlineInv, Documents, NoDocument, Delivered
<1>13. CASE again = {}
  <2>1. document' = [status |-> "compiled", landed |-> landed, hosts |-> hosts] /\ dropped' = dropped
    BY <1>3, <1>13
  <2>2. half = {} /\ stranded = {}
    <3>1. half # {} => failed # {}
      OBVIOUS
    <3> QED
      BY <1>13, <3>1 DEF again
  <2>3. \A k \in failed : k \notin hosts /\ ~(k \in Ledger /\ internal)
    BY <2>2 DEF stranded
  <2>4. hosts \subseteq landed
    BY <1>2, <1>5, <1>7, <2>3
  <2>5. internal /\ Unhosted(dropped) = {} => Ledger \subseteq landed
    BY <1>2, <1>7, <2>3 DEF Unhosted
  <2>6. /\ Working(dropped)' = Working(dropped) /\ Inserting(dropped)' = Inserting(dropped)
    BY <1>0, <2>1 DEF Working, Edited, Inserting
  <2>8. document'.status = "compiled" /\ document'.landed = landed /\ document'.hosts = hosts
    BY <2>1
  <2>9. document' \in Documents /\ document' # NoDocument
    BY <1>2, <1>5, <1>7, <2>1, DocumentShape DEF Documents
  <2>10. PenRefused \subseteq dropped' /\ dropped' \subseteq PenRefused \cup refused'
    BY <1>2, <2>1 DEF RedlineInv
  <2>11. Settled(document.landed, document.hosts)'
    <3>1. \A k \in landed : issue[k].fate = "lands"
      BY <1>2, <2>2
    <3>2. landed \subseteq Working(dropped) /\ Working(dropped) \subseteq landed \cup refused'
      BY <1>2
    <3>3. internal => \/ Ledger \subseteq landed
                      \/ Inserting(dropped) = {}
                      \/ hosts # {} /\ hosts \subseteq landed
      BY <1>6, <2>4, <2>5
    <3>4. issue' = issue /\ internal' = internal
      BY <1>0
    <3> QED
      BY <1>8, <2>6, <2>8, <3>1, <3>2, <3>3, <3>4, Zenon DEF Settled
  <2> QED
    BY <1>0, <1>8, <1>11, <2>8, <2>9, <2>10, <2>11 DEF RedlineInv, Delivered
<1> QED
  BY <1>12, <1>13

\* Every step keeps it.
LEMMA RedlineStep == RedlineInv /\ [RedlineNext]_redlineVars => RedlineInv'
<1> SUFFICES ASSUME RedlineInv, [RedlineNext]_redlineVars PROVE RedlineInv'
  OBVIOUS
<1>1. CASE Compile
  BY <1>1, CompileSettles
<1>2. ASSUME UNCHANGED <<issue, internal, critical, dropped, refused>>,
             pass' \in {pass, pass + 1}, document' \in Documents, document' # NoDocument,
             pass' <= Cardinality(Edited) + 1,
             document'.status \in {"compiled", "delivered"} =>
               Settled(document'.landed, document'.hosts),
             document'.status = "delivered" =>
               ~(internal /\ ProposesProtection /\ Inserting(dropped) = {})
      PROVE  RedlineInv'
  BY <1>2 DEF RedlineInv, Settled, Working, Edited, Inserting, Ledger, PenRefused,
              Delivered, ProposesProtection
<1>3. CASE CompileRefused
  <2>1. pass \in Nat /\ pass + Cardinality(Working(dropped)) <= Cardinality(Edited)
    BY <1>3 DEF RedlineInv, CompileRefused
  <2>2. pass + 1 <= Cardinality(Edited) + 1
    BY <2>1, EditedFinite
  <2> QED
    BY <1>2, <1>3, <2>2 DEF CompileRefused, Documents, NotDelivered, NoDocument
<1>4. CASE NothingToCompile
  <2>1. Settled({}, {})
    BY <1>4 DEF NothingToCompile, Settled, Inserting
  <2> QED
    BY <1>2, <1>4, <2>1 DEF NothingToCompile, NothingLeft, Documents, NoDocument, RedlineInv
<1>5. CASE DeliverRedline
  <2>1. /\ document.status = "compiled" /\ Settled(document.landed, document.hosts)
        /\ document \in [status : {"compiled", "delivered"}, landed : SUBSET Keys, hosts : SUBSET Keys]
    <3>1. document.status = "compiled" /\ document \in Documents
      BY <1>5 DEF DeliverRedline, RedlineInv
    <3>2. NoDocument.status # "compiled" /\ NotDelivered.status # "compiled"
      BY DEF NoDocument, NotDelivered
    <3> QED
      BY <3>1, <3>2 DEF RedlineInv, Documents
  <2>2. UNCHANGED <<issue, internal, critical, pass, dropped, refused>> /\ pass <= Cardinality(Edited) + 1
    BY <1>5 DEF DeliverRedline, RedlineInv
  <2>3. CASE document' = NotDelivered
    BY <1>2, <2>2, <2>3 DEF NotDelivered, NoDocument, Documents
  <2>4. CASE /\ ~(internal /\ ProposesProtection /\ Inserting(dropped) = {})
             /\ document' = [document EXCEPT !.status = "delivered"]
    <3>1. /\ document'.status = "delivered" /\ document'.landed = document.landed
          /\ document'.hosts = document.hosts
          /\ document' = [status |-> "delivered", landed |-> document.landed, hosts |-> document.hosts]
          /\ document' \in Documents
      BY <2>1, <2>4 DEF Documents
    <3>2. document' # NoDocument
      BY <3>1, DocumentShape
    <3> QED
      BY <1>2, <2>1, <2>2, <2>4, <3>1, <3>2
  <2> QED
    BY <1>5, <2>3, <2>4 DEF DeliverRedline
<1>6. CASE UNCHANGED redlineVars
  BY <1>6 DEF redlineVars, RedlineInv, Settled, Working, Edited, Inserting, Ledger, PenRefused,
              Delivered, ProposesProtection
<1> QED
  BY <1>1, <1>3, <1>4, <1>5, <1>6 DEF RedlineNext

\* It holds throughout.
LEMMA RedlineInvariant == RedlineSpec => []RedlineInv
  BY RedlineInitInv, RedlineStep, PTL DEF RedlineSpec

\* However many issues, and whatever lands of them: the compilations end, and
\* what is delivered holds whole change sets only and accounts for each.
THEOREM WholeChangeSetsHold == RedlineSpec => []WholeChangeSets
<1>1. ASSUME RedlineInv PROVE WholeChangeSets
  <2>1. ASSUME Delivered
        PROVE  /\ \A k \in document.landed : issue[k].fate = "lands" /\ k \notin PenRefused
               /\ Edited \subseteq document.landed \cup refused \cup PenRefused
    BY <1>1, <2>1 DEF RedlineInv, Delivered, Settled, Working
  <2> QED
    BY <1>1, <2>1 DEF WholeChangeSets, RedlineInv
<1> QED
  BY <1>1, RedlineInvariant, PTL

\* No redline with internal notes goes out without the protections proposed:
\* inserted, or named on insertions that landed.
THEOREM ProtectionHolds == RedlineSpec => []ProtectionNamed
<1>1. ASSUME RedlineInv PROVE ProtectionNamed
  BY <1>1 DEF ProtectionNamed, RedlineInv, Delivered, Settled
<1> QED
  BY <1>1, RedlineInvariant, PTL

=============================================================================
