----------------------------- MODULE PicksProofs -----------------------------
(***************************************************************************)
(* What Picked does to an empty sequence, at the end of a sequence, at its *)
(* head and to its beginning: enough to follow a queue in which others     *)
(* wait too, and a reader behind its writer.                               *)
(***************************************************************************)
EXTENDS Picks, FiniteSetTheorems, SequenceTheorems, TLAPS

LEMMA PlacesType ==
    ASSUME NEW S, NEW q \in Seq(S), NEW W
    PROVE  /\ Places(q, W) \subseteq 1 .. Len(q) /\ Len(q) \in Nat
           /\ IsFiniteSet(Places(q, W)) /\ Cardinality(Places(q, W)) \in Nat
<1>1. Len(q) \in Nat /\ IsFiniteSet(1 .. Len(q))
  BY FS_Interval
<1>2. Places(q, W) \in SUBSET (1 .. Len(q))
  BY DEF Places
<1>3. IsFiniteSet(Places(q, W))
  BY <1>1, <1>2, FS_Subset
<1> QED
  BY <1>1, <1>2, <1>3, FS_CardinalityType

\* The ranks of the places grow from 1 to the number of picks.
LEMMA RankGrows ==
    ASSUME NEW S, NEW q \in Seq(S), NEW W,
           NEW i \in Places(q, W)
    PROVE  /\ Rank(q, W, i) \in 1 .. Cardinality(Places(q, W))
           /\ \A k \in Places(q, W) : i < k => Rank(q, W, i) < Rank(q, W, k)
<1> DEFINE P == Places(q, W)
           Below(k) == {j \in P : j <= k}
<1>1. P \subseteq Int /\ IsFiniteSet(P) /\ Cardinality(P) \in Nat
  BY PlacesType
<1>2. \A k \in P : IsFiniteSet(Below(k)) /\ Cardinality(Below(k)) \in Nat
  <2> TAKE k \in P
  <2>1. Below(k) \in SUBSET P
    OBVIOUS
  <2>2. IsFiniteSet(Below(k))
    BY <1>1, <2>1, FS_Subset
  <2> QED
    BY <2>2, FS_CardinalityType
<1>3. Cardinality(Below(i)) <= Cardinality(P)
  <2>1. Below(i) \in SUBSET P
    OBVIOUS
  <2> QED
    BY <1>1, <2>1, FS_Subset
<1>4. Cardinality(Below(i)) # 0
  <2>1. i \in Below(i)
    BY <1>1
  <2> QED
    BY <1>2, <2>1, FS_EmptySet
<1>5. ASSUME NEW k \in P, i < k
      PROVE  Cardinality(Below(i)) < Cardinality(Below(k))
  <2>1. Below(i) \in SUBSET Below(k)
    BY <1>1, <1>5
  <2>2. k \in Below(k) /\ k \notin Below(i)
    BY <1>1, <1>5
  <2>3. /\ Cardinality(Below(i)) <= Cardinality(Below(k))
        /\ Cardinality(Below(k)) = Cardinality(Below(i)) => Below(k) = Below(i)
    BY <1>2, <2>1, FS_Subset
  <2> HIDE DEF Below
  <2> QED
    BY <1>2, <2>2, <2>3
<1>6. \A k \in P : Rank(q, W, k) = Cardinality(Below(k))
  BY DEF Rank
<1> HIDE DEF Below
<1> QED
  BY <1>1, <1>2, <1>3, <1>4, <1>5, <1>6

\* Every rank is taken.
LEMMA RankOnto ==
    ASSUME NEW S, NEW q \in Seq(S), NEW W,
           NEW n \in 1 .. Cardinality(Places(q, W))
    PROVE  \E i \in Places(q, W) : Rank(q, W, i) = n
<1> DEFINE P == Places(q, W)
           C == Cardinality(P)
           f == [i \in P |-> Rank(q, W, i)]
<1>1. P \subseteq Int /\ IsFiniteSet(P) /\ C \in Nat
  BY PlacesType
<1>2. \A i, k \in P : i < k => f[i] < f[k]
  BY RankGrows
<1>3. f \in [P -> 1 .. C]
  BY RankGrows
<1>4. f \in Injection(P, 1 .. C)
  <2>1. \A i \in P : f[i] \in Int
    BY <1>3
  <2> HIDE DEF f, P
  <2>2. \A i, k \in P : f[i] = f[k] => i = k
    BY <1>1, <1>2, <2>1
  <2> QED
    BY <1>3, <2>2 DEF Injection, IsInjective
<1>5. IsFiniteSet(1 .. C) /\ Cardinality(1 .. C) = C
  BY <1>1, FS_Interval
<1>6. f \in Surjection(P, 1 .. C)
  BY <1>4, <1>5, FS_Injection
<1> QED
  BY <1>6 DEF Surjection

\* The pick at a rank is what its place holds.
LEMMA PickedAt ==
    ASSUME NEW S, NEW q \in Seq(S), NEW W
    PROVE  /\ Picked(q, W) \in Seq(S)
           /\ Len(Picked(q, W)) = Cardinality(Places(q, W))
           /\ \A i \in Places(q, W) : Picked(q, W)[Rank(q, W, i)] = q[i]
<1> DEFINE P == Places(q, W)
           C == Cardinality(P)
           at(n) == CHOOSE i \in P : Rank(q, W, i) = n
<1>1. P \subseteq 1 .. Len(q) /\ Len(q) \in Nat /\ C \in Nat
  BY PlacesType
<1>2. \A n \in 1 .. C : at(n) \in P /\ Rank(q, W, at(n)) = n
  BY RankOnto
<1>3. \A n \in 1 .. C : q[at(n)] \in S
  BY <1>1, <1>2
<1>4. Picked(q, W) = [n \in 1 .. C |-> q[at(n)]]
  BY DEF Picked
<1>5. \A i \in P : Rank(q, W, i) \in 1 .. C /\ at(Rank(q, W, i)) = i
  <2> TAKE i \in P
  <2> DEFINE r == Rank(q, W, i)
             k == at(r)
  <2>1. r \in 1 .. C
    BY RankGrows
  <2>2. k \in P /\ Rank(q, W, k) = r
    BY <1>2, <2>1
  <2>3. ~(i < k) /\ ~(k < i)
    <3>1. i < k => Rank(q, W, i) < Rank(q, W, k)
      BY <2>2, RankGrows
    <3>2. k < i => Rank(q, W, k) < Rank(q, W, i)
      BY <2>2, RankGrows
    <3> HIDE DEF k
    <3> QED
      BY <2>1, <2>2, <3>1, <3>2, <1>1
  <2> HIDE DEF k
  <2>4. k = i
    BY <1>1, <2>2, <2>3
  <2> QED
    BY <2>1, <2>4 DEF k
<1> HIDE DEF at, P, C
<1>6. [n \in 1 .. C |-> q[at(n)]] \in Seq(S) /\ Len([n \in 1 .. C |-> q[at(n)]]) = C
  BY <1>1, <1>3
<1> QED
  BY <1>4, <1>5, <1>6 DEF P, C

LEMMA PickedEmpty ==
    ASSUME NEW W
    PROVE  Picked(<<>>, W) = <<>>
<1>1. Places(<<>>, W) = {}
  BY DEF Places
<1>2. Cardinality(Places(<<>>, W)) = 0 /\ <<>> \in Seq({})
  BY <1>1, FS_EmptySet
<1>3. Picked(<<>>, W) \in Seq({}) /\ Len(Picked(<<>>, W)) = 0
  BY <1>2, PickedAt
<1> QED
  BY <1>3, EmptySeq

\* All that is picked is in the sequence and in the set.
LEMMA PickedType ==
    ASSUME NEW S, NEW q \in Seq(S), NEW W
    PROVE  /\ Picked(q, W) \in Seq(S)
           /\ \A n \in 1 .. Len(Picked(q, W)) :
                 \E i \in 1 .. Len(q) : q[i] \in W /\ Picked(q, W)[n] = q[i]
<1>1. ASSUME NEW n \in 1 .. Len(Picked(q, W))
      PROVE  \E i \in 1 .. Len(q) : q[i] \in W /\ Picked(q, W)[n] = q[i]
  <2>1. n \in 1 .. Cardinality(Places(q, W))
    BY PickedAt
  <2>2. PICK i \in Places(q, W) : Rank(q, W, i) = n
    BY <2>1, RankOnto
  <2>3. Picked(q, W)[n] = q[i]
    BY <2>2, PickedAt
  <2>4. i \in 1 .. Len(q) /\ q[i] \in W
    BY DEF Places
  <2> QED
    BY <2>3, <2>4
<1> QED
  BY <1>1, PickedAt

\* A sequence is what is picked, if as many places hold it in the same order.
LEMMA PickedIs ==
    ASSUME NEW S, NEW q \in Seq(S), NEW W, NEW r \in Seq(S),
           Len(r) = Cardinality(Places(q, W)),
           \A i \in Places(q, W) : r[Rank(q, W, i)] = q[i]
    PROVE  Picked(q, W) = r
<1>1. Picked(q, W) \in Seq(S) /\ Len(Picked(q, W)) = Len(r)
  BY PickedAt
<1>2. ASSUME NEW n \in 1 .. Len(r)
      PROVE  Picked(q, W)[n] = r[n]
  <2>1. PICK i \in Places(q, W) : Rank(q, W, i) = n
    BY RankOnto
  <2> QED
    BY <2>1, PickedAt
<1> QED
  BY <1>1, <1>2, SeqEqual

\* At the end of a sequence.
LEMMA PickedAppend ==
    ASSUME NEW S, NEW q \in Seq(S), NEW x \in S, NEW W
    PROVE  Picked(Append(q, x), W) =
              IF x \in W THEN Append(Picked(q, W), x) ELSE Picked(q, W)
<1> DEFINE Q == Append(q, x)
           n == Len(q) + 1
           P == Places(q, W)
<1>1. /\ Q \in Seq(S) /\ Len(Q) = n /\ n \in Nat /\ n - 1 \in Nat
      /\ Q[n] = x /\ \A i \in 1 .. n - 1 : Q[i] = q[i]
  BY AppendProperties
<1>2. P \subseteq 1 .. n - 1 /\ IsFiniteSet(P) /\ Cardinality(P) \in Nat
  BY PlacesType
<1>3. /\ Picked(q, W) \in Seq(S) /\ Len(Picked(q, W)) = Cardinality(P)
      /\ \A i \in P : Picked(q, W)[Rank(q, W, i)] = q[i]
  BY PickedAt
<1>4. Places(Q, W) = IF x \in W THEN P \cup {n} ELSE P
  <2>1. Places(Q, W) = {i \in 1 .. n : Q[i] \in W} /\ P = {i \in 1 .. n - 1 : q[i] \in W}
    BY <1>1 DEF Places
  <2> HIDE DEF Q, P, n
  <2> QED
    BY <1>1, <2>1
<1>5. ASSUME NEW i \in P
      PROVE  Rank(Q, W, i) = Rank(q, W, i)
  <2>1. {j \in Places(Q, W) : j <= i} = {j \in P : j <= i}
    <3> HIDE DEF Q, P, n
    <3> QED
      BY <1>1, <1>2, <1>4
  <2> QED
    BY <2>1 DEF Rank
<1>6. CASE x \notin W
  <2>1. Places(Q, W) = P
    BY <1>4, <1>6
  <2>2. \A i \in Places(Q, W) : Picked(q, W)[Rank(Q, W, i)] = Q[i]
    BY <1>1, <1>2, <1>3, <1>5, <2>1
  <2> HIDE DEF Q, P
  <2>3. Picked(Q, W) = Picked(q, W)
    BY <1>1, <1>3, <2>1, <2>2, PickedIs
  <2> QED
    BY <1>6, <2>3 DEF Q
<1>7. CASE x \in W
  <2> DEFINE r == Append(Picked(q, W), x)
  <2>1. Places(Q, W) = P \cup {n} /\ n \notin P
    BY <1>1, <1>2, <1>4, <1>7
  <2>2. Cardinality(Places(Q, W)) = Cardinality(P) + 1
    BY <1>2, <2>1, FS_AddElement
  <2>3. Rank(Q, W, n) = Cardinality(P) + 1
    <3>1. \A j \in Places(Q, W) : j <= n
      <4>1. n <= n /\ \A j \in 1 .. n - 1 : j <= n
        BY <1>1
      <4> HIDE DEF P, n, Q
      <4> QED
        BY <1>2, <2>1, <4>1
    <3>2. {j \in Places(Q, W) : j <= n} = Places(Q, W)
      BY <3>1
    <3> QED
      BY <2>2, <3>2 DEF Rank
  <2>4. /\ r \in Seq(S) /\ Len(r) = Cardinality(P) + 1
        /\ r[Cardinality(P) + 1] = x
        /\ \A k \in 1 .. Cardinality(P) : r[k] = Picked(q, W)[k]
    BY <1>2, <1>3, AppendProperties
  <2>5. \A i \in P : r[Rank(Q, W, i)] = Q[i]
    <3> TAKE i \in P
    <3>1. Rank(q, W, i) \in 1 .. Cardinality(P)
      BY RankGrows
    <3> QED
      BY <1>1, <1>2, <1>3, <1>5, <2>4, <3>1
  <2>6. \A i \in Places(Q, W) : r[Rank(Q, W, i)] = Q[i]
    BY <1>1, <2>1, <2>3, <2>4, <2>5
  <2> HIDE DEF Q, P, r
  <2>7. Picked(Q, W) = r
    BY <1>1, <2>2, <2>4, <2>6, PickedIs
  <2> QED
    BY <1>7, <2>7 DEF Q, r
<1> QED
  BY <1>6, <1>7

\* At the head of a sequence.
LEMMA PickedTail ==
    ASSUME NEW S, NEW q \in Seq(S), q # <<>>, NEW W
    PROVE  Picked(q, W) =
              IF Head(q) \in W THEN <<Head(q)>> \o Picked(Tail(q), W)
              ELSE Picked(Tail(q), W)
<1> DEFINE t == Tail(q)
           h == Head(q)
           n == Len(t)
           T == Places(t, W)
           Shift(U) == {j + 1 : j \in U}
           k == IF h \in W THEN 1 ELSE 0
<1>1. /\ t \in Seq(S) /\ Len(q) = n + 1 /\ n \in Nat /\ h \in S /\ q[1] = h
      /\ \A i \in 1 .. n : t[i] = q[i + 1]
  BY HeadTailProperties, LenProperties, EmptySeq
<1>2. T \subseteq 1 .. n /\ IsFiniteSet(T) /\ Cardinality(T) \in Nat
  BY <1>1, PlacesType
<1>3. /\ Picked(t, W) \in Seq(S) /\ Len(Picked(t, W)) = Cardinality(T)
      /\ \A i \in T : Picked(t, W)[Rank(t, W, i)] = t[i]
  <2> HIDE DEF t
  <2> QED
    BY <1>1, PickedAt
<1>4. ASSUME NEW U \in SUBSET T
      PROVE  /\ IsFiniteSet(Shift(U)) /\ Cardinality(Shift(U)) = Cardinality(U)
             /\ Cardinality(U) \in Nat /\ 1 \notin Shift(U)
  <2> DEFINE f == [j \in U |-> j + 1]
  <2>1. IsFiniteSet(U) /\ U \subseteq 1 .. n
    BY <1>2, FS_Subset
  <2>2. f \in Bijection(U, Shift(U))
    <3>1. f \in [U -> Shift(U)] /\ \A i, j \in U : f[i] = f[j] => i = j
      BY <2>1
    <3>2. \A y \in Shift(U) : \E i \in U : f[i] = y
      OBVIOUS
    <3> QED
      BY <3>1, <3>2 DEF Bijection, Injection, Surjection, IsInjective
  <2>3. ExistsBijection(U, Shift(U))
    BY <2>2 DEF ExistsBijection
  <2>4. 1 \notin Shift(U)
    BY <2>1
  <2> QED
    BY <2>1, <2>3, <2>4, FS_Bijection, FS_CardinalityType
<1>5. Places(q, W) = Shift(T) \cup (IF h \in W THEN {1} ELSE {})
  <2>1. Places(q, W) = {i \in 1 .. n + 1 : q[i] \in W} /\ T = {i \in 1 .. n : t[i] \in W}
    BY <1>1 DEF Places
  <2>2. \A i \in 1 .. n + 1 : i # 1 => i - 1 \in 1 .. n /\ t[i - 1] = q[i] /\ i = (i - 1) + 1
    BY <1>1
  <2> HIDE DEF t, h, n, T
  <2>3. \A i \in Places(q, W) : i # 1 => i - 1 \in T
    BY <2>1, <2>2
  <2>4. \A i \in Places(q, W) : i # 1 => i \in Shift(T)
    BY <1>1, <2>1, <2>2, <2>3
  <2>5. \A j \in T : j + 1 \in Places(q, W)
    BY <1>1, <2>1
  <2>6. 1 \in Places(q, W) <=> h \in W
    BY <1>1, <2>1
  <2> QED
    BY <2>4, <2>5, <2>6
<1>6. Cardinality(Places(q, W)) = Cardinality(T) + k
  <2>1. IsFiniteSet(Shift(T)) /\ Cardinality(Shift(T)) = Cardinality(T) /\ 1 \notin Shift(T)
    BY <1>4
  <2>2. Cardinality(Shift(T) \cup {1}) = Cardinality(Shift(T)) + 1
    BY <2>1, FS_AddElement
  <2>3. CASE h \in W
    BY <1>5, <2>1, <2>2, <2>3
  <2>4. CASE h \notin W
    <3>1. Places(q, W) = Shift(T)
      BY <1>5, <2>4
    <3> HIDE DEF T
    <3> QED
      BY <1>2, <2>1, <2>4, <3>1
  <2> QED
    BY <2>3, <2>4
<1>7. ASSUME NEW i \in T
      PROVE  Rank(q, W, i + 1) = Rank(t, W, i) + k
  <2> DEFINE U == {j \in T : j <= i}
  <2>1. /\ IsFiniteSet(Shift(U)) /\ Cardinality(Shift(U)) = Cardinality(U)
        /\ Cardinality(U) \in Nat /\ 1 \notin Shift(U)
    BY <1>4
  <2>2. {j \in Places(q, W) : j <= i + 1} = Shift(U) \cup (IF h \in W THEN {1} ELSE {})
    BY <1>2, <1>5
  <2>3. Cardinality(Shift(U) \cup {1}) = Cardinality(Shift(U)) + 1
    BY <2>1, FS_AddElement
  <2>4. Rank(t, W, i) = Cardinality(U)
    BY DEF Rank
  <2>5. Rank(q, W, i + 1) = Cardinality(Shift(U) \cup (IF h \in W THEN {1} ELSE {}))
    BY <2>2 DEF Rank
  <2>6. CASE h \in W
    BY <2>1, <2>3, <2>4, <2>5, <2>6
  <2>7. CASE h \notin W
    <3>1. Rank(q, W, i + 1) = Cardinality(Shift(U))
      <4>1. Shift(U) \cup (IF h \in W THEN {1} ELSE {}) = Shift(U)
        BY <2>7
      <4> QED
        BY <2>5, <4>1
    <3> HIDE DEF U
    <3> QED
      BY <2>1, <2>4, <2>7, <3>1
  <2> QED
    BY <2>6, <2>7
<1>8. CASE h \notin W
  <2>1. \A i \in Places(q, W) : Picked(t, W)[Rank(q, W, i)] = q[i]
    <3> TAKE i \in Places(q, W)
    <3>1. PICK j \in T : i = j + 1
      BY <1>5, <1>8
    <3>2. Rank(t, W, j) \in Nat
      <4> HIDE DEF t
      <4>1. Rank(t, W, j) \in 1 .. Cardinality(T)
        BY <1>1, RankGrows
      <4> QED
        BY <1>2, <4>1
    <3>3. Rank(q, W, i) = Rank(t, W, j)
      BY <1>7, <1>8, <3>1, <3>2
    <3> QED
      BY <1>1, <1>2, <1>3, <3>1, <3>3
  <2>2. Len(Picked(t, W)) = Cardinality(Places(q, W))
    BY <1>2, <1>3, <1>6, <1>8
  <2>3. Picked(q, W) = Picked(t, W)
    BY <1>3, <2>1, <2>2, PickedIs
  <2> QED
    BY <1>8, <2>3
<1>9. CASE h \in W
  <2> DEFINE r == <<h>> \o Picked(t, W)
  <2>1. <<h>> \in Seq(S) /\ Len(<<h>>) = 1 /\ <<h>>[1] = h
    BY <1>1
  <2>2. /\ r \in Seq(S) /\ Len(r) = 1 + Cardinality(T)
        /\ \A i \in 1 .. 1 + Cardinality(T) :
              r[i] = IF i <= 1 THEN h ELSE Picked(t, W)[i - 1]
    <3>1. /\ r \in Seq(S) /\ Len(r) = 1 + Cardinality(T)
          /\ \A i \in 1 .. 1 + Cardinality(T) :
                r[i] = IF i <= 1 THEN <<h>>[i] ELSE Picked(t, W)[i - 1]
      BY <1>3, <2>1, ConcatProperties
    <3>2. \A i \in 1 .. 1 + Cardinality(T) : i <= 1 => <<h>>[i] = h
      BY <1>2, <2>1
    <3> HIDE DEF r
    <3> QED
      BY <3>1, <3>2
  <2>3. Rank(q, W, 1) = 1
    <3>1. {j \in Places(q, W) : j <= 1} = {1}
      BY <1>2, <1>5, <1>9
    <3> QED
      BY <3>1, FS_Singleton DEF Rank
  <2>4. \A j \in T : r[Rank(q, W, j + 1)] = q[j + 1]
    <3> TAKE j \in T
    <3>1. Rank(t, W, j) \in 1 .. Cardinality(T)
      BY <1>1, RankGrows
    <3>2. Rank(q, W, j + 1) = Rank(t, W, j) + 1
      BY <1>7, <1>9
    <3>3. r[Rank(t, W, j) + 1] = Picked(t, W)[Rank(t, W, j)]
      <4> HIDE DEF r, t
      <4> QED
        BY <1>2, <2>2, <3>1
    <3> QED
      BY <1>1, <1>2, <1>3, <3>2, <3>3
  <2>5. r[1] = h
    BY <1>2, <2>2
  <2>6. \A i \in Places(q, W) : r[Rank(q, W, i)] = q[i]
    <3> TAKE i \in Places(q, W)
    <3> HIDE DEF r
    <3>1. CASE i = 1
      BY <1>1, <2>3, <2>5, <3>1
    <3>2. CASE i # 1
      <4>1. PICK j \in T : i = j + 1
        BY <1>5, <3>2
      <4> QED
        BY <2>4, <4>1
    <3> QED
      BY <3>1, <3>2
  <2>7. Len(r) = Cardinality(Places(q, W))
    BY <1>2, <1>6, <1>9, <2>2
  <2> HIDE DEF r
  <2>8. Picked(q, W) = r
    BY <2>2, <2>6, <2>7, PickedIs
  <2> QED
    BY <1>9, <2>8 DEF r
<1> QED
  BY <1>8, <1>9

\* A beginning of a sequence.
LEMMA BeginningType ==
    ASSUME NEW S, NEW q \in Seq(S), NEW k \in 0 .. Len(q)
    PROVE  /\ SubSeq(q, 1, k) \in Seq(S) /\ Len(SubSeq(q, 1, k)) = k
           /\ k \in Nat /\ Len(q) \in Nat
           /\ \A i \in 1 .. k : SubSeq(q, 1, k)[i] = q[i]
<1>1. Len(q) \in Nat
  BY LenProperties
<1>2. \A i \in 1 .. k : i \in 1 .. Len(q) /\ q[i] \in S
  BY <1>1
<1>3. SubSeq(q, 1, k) = [i \in 1 .. k |-> q[i]]
  BY <1>1
<1> HIDE DEF SubSeq
<1> QED
  BY <1>1, <1>2, <1>3

\* One beginning of another.
LEMMA BeginningOf ==
    ASSUME NEW S, NEW q \in Seq(S), NEW n \in 0 .. Len(q), NEW k \in 0 .. n
    PROVE  SubSeq(SubSeq(q, 1, n), 1, k) = SubSeq(q, 1, k)
<1>1. /\ SubSeq(q, 1, n) \in Seq(S) /\ Len(SubSeq(q, 1, n)) = n
      /\ k \in 0 .. Len(q) /\ Len(q) \in Nat
      /\ \A i \in 1 .. n : SubSeq(q, 1, n)[i] = q[i]
  BY BeginningType
<1>2. /\ SubSeq(SubSeq(q, 1, n), 1, k) \in Seq(S)
      /\ Len(SubSeq(SubSeq(q, 1, n), 1, k)) = k
      /\ \A i \in 1 .. k : SubSeq(SubSeq(q, 1, n), 1, k)[i] = SubSeq(q, 1, n)[i]
  BY <1>1, BeginningType
<1>3. /\ SubSeq(q, 1, k) \in Seq(S) /\ Len(SubSeq(q, 1, k)) = k
      /\ \A i \in 1 .. k : SubSeq(q, 1, k)[i] = q[i]
  BY <1>1, BeginningType
<1>4. \A i \in 1 .. k : i \in 1 .. n
  BY <1>1
<1> QED
  BY <1>1, <1>2, <1>3, <1>4, SeqEqual

\* What is picked from the beginning of a sequence is the beginning of what is
\* picked from all of it.
LEMMA PickedPrefix ==
    ASSUME NEW S, NEW q \in Seq(S), NEW W, NEW n \in 0 .. Len(q)
    PROVE  LET p == SubSeq(q, 1, n)
           IN  /\ Len(Picked(p, W)) <= Len(Picked(q, W))
               /\ \A k \in 1 .. Len(Picked(p, W)) : Picked(p, W)[k] = Picked(q, W)[k]
<1> DEFINE p == SubSeq(q, 1, n)
<1>1. /\ p \in Seq(S) /\ Len(p) = n /\ n \in Nat /\ Len(q) \in Nat
      /\ \A i \in 1 .. n : p[i] = q[i]
  BY BeginningType
<1> HIDE DEF p
<1>2. Places(p, W) = {i \in Places(q, W) : i <= n}
  <2>1. Places(p, W) = {i \in 1 .. n : p[i] \in W}
    BY <1>1 DEF Places
  <2> QED
    BY <1>1, <2>1 DEF Places
<1>3. Cardinality(Places(p, W)) <= Cardinality(Places(q, W))
  BY <1>2, PlacesType, FS_Subset
<1>4. /\ Len(Picked(p, W)) = Cardinality(Places(p, W))
      /\ Len(Picked(q, W)) = Cardinality(Places(q, W))
  BY <1>1, PickedAt
<1>5. ASSUME NEW k \in 1 .. Cardinality(Places(p, W))
      PROVE  Picked(p, W)[k] = Picked(q, W)[k]
  <2>1. PICK i \in Places(p, W) : Rank(p, W, i) = k
    BY <1>1, RankOnto
  <2>2. i \in Places(q, W) /\ i \in 1 .. n
    BY <1>1, <1>2, <2>1, PlacesType
  <2>3. {j \in Places(q, W) : j <= i} = {j \in Places(p, W) : j <= i}
    BY <1>1, <1>2, <2>2, PlacesType
  <2>4. Rank(q, W, i) = k
    BY <2>1, <2>3 DEF Rank
  <2>5. Picked(p, W)[k] = p[i] /\ Picked(q, W)[k] = q[i]
    BY <1>1, <2>1, <2>2, <2>4, PickedAt
  <2> QED
    BY <1>1, <2>2, <2>5
<1> QED
  BY <1>3, <1>4, <1>5 DEF p

\* Among the places of a set there is a first.
LEMMA FirstPlace ==
    ASSUME NEW S, NEW q \in Seq(S), NEW W, Places(q, W) # {}
    PROVE  \E i \in Places(q, W) : \A j \in Places(q, W) : i <= j
<1> DEFINE C == Cardinality(Places(q, W))
<1>1. Places(q, W) \subseteq Int /\ C \in Nat /\ C # 0
  BY PlacesType, FS_EmptySet
<1>2. 1 \in 1 .. C
  BY <1>1
<1>3. PICK i \in Places(q, W) : Rank(q, W, i) = 1
  BY <1>2, RankOnto
<1>4. ASSUME NEW j \in Places(q, W), j < i PROVE FALSE
  <2>1. Rank(q, W, j) \in 1 .. C /\ Rank(q, W, j) < 1
    BY <1>3, <1>4, RankGrows
  <2> QED
    BY <1>1, <2>1
<1> QED
  BY <1>1, <1>3, <1>4
=============================================================================
