---------------------------- MODULE FramingProofs ----------------------------
(***************************************************************************)
(* What is proved of Framing: the frames on the stream are those of the    *)
(* messages sent, so that a reader never asks for more than was sent, and  *)
(* the two ends are a pipe of messages as long as no two Encodes mix.      *)
(***************************************************************************)
EXTENDS Framing, PicksProofs

\* Among numbers there is a least.
LEMMA Least ==
    ASSUME NEW m \in Nat, NEW P \in SUBSET (1 .. m), P # {}
    PROVE  \E i \in P : \A j \in P : i <= j
<1> DEFINE q == [i \in 1 .. m |-> i]
<1>1. q \in Seq(Int) /\ Len(q) = m /\ \A i \in 1 .. m : q[i] = i
  OBVIOUS
<1> HIDE DEF q
<1>2. Places(q, P) = P
  BY <1>1 DEF Places
<1> QED
  BY <1>1, <1>2, FirstPlace

\* Induction up to m, from the first place that a set leaves out.
LEMMA UpTo ==
    ASSUME NEW m \in Nat, NEW T, 0 \in T,
           \A k \in 1 .. m : k - 1 \in T => k \in T
    PROVE  \A k \in 0 .. m : k \in T
<1> DEFINE q == [i \in 1 .. m + 1 |-> i - 1]
           W == (0 .. m) \ T
<1>1. q \in Seq(Int) /\ Len(q) = m + 1 /\ \A i \in 1 .. m + 1 : q[i] = i - 1
  OBVIOUS
<1> HIDE DEF q
<1>2. \A i \in 1 .. m + 1 : i \in Places(q, W) <=> i - 1 \notin T
  BY <1>1 DEF Places
<1>3. Places(q, W) \subseteq 1 .. m + 1
  BY <1>1, PlacesType
<1>4. SUFFICES ASSUME NEW k \in 0 .. m, k \notin T
               PROVE  FALSE
  OBVIOUS
<1>5. k + 1 \in Places(q, W)
  <2> DEFINE c == k + 1
  <2>1. c \in 1 .. m + 1 /\ c - 1 = k
    BY <1>4
  <2> HIDE DEF c
  <2>2. c \in Places(q, W)
    BY <1>2, <1>4, <2>1
  <2> QED
    BY <2>2 DEF c
<1>6. PICK i \in Places(q, W) : \A j \in Places(q, W) : i <= j
  BY <1>1, <1>5, FirstPlace
<1>7. i \in 1 .. m + 1 /\ i - 1 \notin T
  BY <1>2, <1>3
<1>8. i - 1 # 0 /\ i - 1 \in 1 .. m
  BY <1>7
<1>9. i - 1 - 1 \notin T
  BY <1>7, <1>8
<1>10. i - 1 \in Places(q, W)
  BY <1>2, <1>8, <1>9
<1> QED
  BY <1>6, <1>7, <1>10

\* Totals is defined, and adds up one number after the other.
LEMMA TotalsAre ==
    ASSUME NEW f \in Seq(Int)
    PROVE  /\ Totals(f) \in [0 .. Len(f) -> Int] /\ Totals(f)[0] = 0
           /\ \A k \in 1 .. Len(f) : Totals(f)[k] = Totals(f)[k - 1] + f[k]
<1> DEFINE Adds(g, k) == g = [i \in 0 .. k |-> IF i = 0 THEN 0 ELSE g[i - 1] + f[i]]
           Some(k) == \E g \in [0 .. k -> Int] : Adds(g, k)
           T == {k \in 0 .. Len(f) : Some(k)}
<1>1. Len(f) \in Nat /\ \A k \in 1 .. Len(f) : f[k] \in Int
  BY LenProperties
<1>2. 0 \in T
  <2>1. [i \in 0 .. 0 |-> 0] \in [0 .. 0 -> Int] /\ Adds([i \in 0 .. 0 |-> 0], 0)
    OBVIOUS
  <2>2. Some(0)
    BY <2>1
  <2> HIDE DEF Some
  <2> QED
    BY <1>1, <2>2
<1>3. ASSUME NEW k \in 1 .. Len(f), k - 1 \in T
      PROVE  k \in T
  <2>1. PICK g \in [0 .. k - 1 -> Int] : Adds(g, k - 1)
    BY <1>3
  <2> DEFINE h == [i \in 0 .. k |-> IF i = k THEN g[k - 1] + f[k] ELSE g[i]]
  <2>2. h \in [0 .. k -> Int]
    BY <1>1
  <2>3. \A i \in 0 .. k : h[i] = IF i = 0 THEN 0 ELSE h[i - 1] + f[i]
    <3> TAKE i \in 0 .. k
    <3>1. CASE i = k
      BY <1>1, <3>1
    <3>2. CASE i # k
      <4>1. g[i] = IF i = 0 THEN 0 ELSE g[i - 1] + f[i]
        BY <1>1, <2>1, <3>2
      <4>2. h[i] = g[i] /\ (i # 0 => h[i - 1] = g[i - 1])
        BY <1>1, <3>2
      <4> QED
        BY <4>1, <4>2
    <3> QED
      BY <3>1, <3>2
  <2> HIDE DEF h
  <2>4. Adds(h, k)
    BY <2>2, <2>3
  <2>5. Some(k)
    BY <2>2, <2>4
  <2> HIDE DEF Some
  <2> QED
    BY <1>1, <2>5
<1>4. Len(f) \in T
  <2> HIDE DEF T
  <2>1. \A k \in 0 .. Len(f) : k \in T
    BY <1>1, <1>2, <1>3, UpTo
  <2> QED
    BY <1>1, <2>1
<1>5. PICK g \in [0 .. Len(f) -> Int] : Adds(g, Len(f))
  BY <1>4
<1>6. Adds(Totals(f), Len(f))
  BY <1>5 DEF Totals
<1> HIDE DEF T
<1>7. \A i \in 0 .. Len(f) :
        Totals(f)[i] = IF i = 0 THEN 0 ELSE Totals(f)[i - 1] + f[i]
  BY <1>6
<1> DEFINE U == {k \in 0 .. Len(f) : Totals(f)[k] \in Int}
<1>8. \A k \in 0 .. Len(f) : k \in U
  <2>1. 0 \in U
    BY <1>1, <1>7
  <2>2. ASSUME NEW k \in 1 .. Len(f), k - 1 \in U PROVE k \in U
    <3>1. k \in 0 .. Len(f) /\ k # 0 /\ f[k] \in Int
      BY <1>1
    <3>2. Totals(f)[k] = Totals(f)[k - 1] + f[k]
      BY <1>7, <3>1
    <3> QED
      BY <2>2, <3>1, <3>2
  <2> HIDE DEF U
  <2> QED
    BY <1>1, <2>1, <2>2, UpTo
<1>9. Totals(f) \in [0 .. Len(f) -> Int]
  BY <1>6, <1>8
<1>10. 0 \in 0 .. Len(f) /\ \A k \in 1 .. Len(f) : k \in 0 .. Len(f) /\ k # 0
  BY <1>1
<1> QED
  BY <1>7, <1>9, <1>10

\* The totals of a beginning are the beginning of the totals.
LEMMA TotalsAgree ==
    ASSUME NEW f \in Seq(Int), NEW e \in Seq(Int), Len(f) <= Len(e),
           \A k \in 1 .. Len(f) : e[k] = f[k]
    PROVE  \A k \in 0 .. Len(f) : Totals(e)[k] = Totals(f)[k]
<1> DEFINE T == {k \in 0 .. Len(f) : Totals(e)[k] = Totals(f)[k]}
<1>1. Len(f) \in Nat /\ Len(e) \in Nat
  BY LenProperties
<1>2. 0 \in T
  BY <1>1, TotalsAre
<1>3. ASSUME NEW k \in 1 .. Len(f), k - 1 \in T
      PROVE  k \in T
  <2>1. k \in 1 .. Len(e)
    BY <1>1
  <2>2. Totals(e)[k] = Totals(e)[k - 1] + e[k] /\ Totals(f)[k] = Totals(f)[k - 1] + f[k]
    BY <2>1, TotalsAre
  <2> QED
    BY <1>1, <1>3, <2>2
<1>4. \A k \in 0 .. Len(f) : k \in T
  <2> HIDE DEF T
  <2> QED
    BY <1>1, <1>2, <1>3, UpTo
<1> QED
  BY <1>4

(* ------------------------------ The prefix ------------------------------ *)

\* Division and rest, with the numbers that remain.
LEMMA Division ==
    ASSUME NEW n \in Nat, NEW d \in Nat \ {0}
    PROVE  /\ n \div d \in Nat /\ n % d \in 0 .. d - 1
           /\ n = d * (n \div d) + (n % d)
  OBVIOUS

\* To divide twice is to divide by the product.
LEMMA DivisionTwice ==
    ASSUME NEW n \in Nat, NEW d \in Nat \ {0}, NEW e \in Nat \ {0}
    PROVE  (n \div d) \div e = n \div (e * d) /\ e * d \in Nat \ {0}
  OBVIOUS

\* The bytes of a prefix have positive worths.
LEMMA WeightsType ==
    /\ PrefixLen \in Nat \ {0} /\ Limit \in Nat \ {0}
    /\ \A k \in 1 .. PrefixLen : Weights[k] \in Nat \ {0}
<1>1. PrefixLen \in Nat /\ PrefixLen # 0
  BY FramingAssumption, LenProperties, EmptySeq DEF PrefixLen
<1>2. \A k \in 1 .. PrefixLen : Weights[k] \in Nat \ {0}
  BY FramingAssumption, LenProperties DEF PrefixLen
<1>3. Weights[PrefixLen] \in Nat \ {0}
  BY <1>1, <1>2
<1>4. Limit \in Nat \ {0}
  BY <1>3, FramingAssumption DEF Limit
<1> QED
  BY <1>1, <1>2, <1>4

\* A prefix is made of as many bytes as there are worths.
LEMMA PrefixType ==
    ASSUME NEW n \in Nat
    PROVE  /\ Prefix(n) \in Seq(Byte) /\ Len(Prefix(n)) = PrefixLen
           /\ \A k \in 1 .. PrefixLen : Prefix(n)[k] = (n \div Weights[k]) % Base
<1>1. \A k \in 1 .. PrefixLen : (n \div Weights[k]) % Base \in Byte
  <2> TAKE k \in 1 .. PrefixLen
  <2>1. n \div Weights[k] \in Nat
    BY WeightsType, Division
  <2> QED
    BY <2>1, Division, FramingAssumption DEF Byte
<1> QED
  BY <1>1, WeightsType DEF Prefix

\* What the reader makes of the bytes of a prefix is a length a prefix can hold.
LEMMA SizeType ==
    ASSUME NEW p, \A k \in 1 .. PrefixLen : p[k] \in Byte
    PROVE  SizeOf(p) \in 0 .. Limit - 1
<1> DEFINE f == [k \in 1 .. PrefixLen |-> p[k] * Weights[k]]
           T == {k \in 0 .. PrefixLen :
                   k > 0 => Totals(f)[k] \in 0 .. Base * Weights[k] - 1}
<1>1. \A k \in 1 .. PrefixLen : p[k] * Weights[k] \in Int
  BY WeightsType, FramingAssumption DEF Byte
<1>2. /\ f \in Seq(Int) /\ Len(f) = PrefixLen
      /\ \A k \in 1 .. PrefixLen : f[k] = p[k] * Weights[k]
  BY <1>1, WeightsType
<1> HIDE DEF f
<1>3. 0 \in T
  BY WeightsType
<1>4. ASSUME NEW k \in 1 .. PrefixLen, k - 1 \in T
      PROVE  k \in T
  <2>1. Totals(f)[k] = Totals(f)[k - 1] + p[k] * Weights[k]
    BY <1>2, TotalsAre
  <2>2. Totals(f)[k - 1] \in 0 .. Weights[k] - 1
    <3>1. CASE k = 1
      BY <3>1, <1>2, TotalsAre, FramingAssumption
    <3>2. CASE k # 1
      BY <3>2, <1>4, FramingAssumption, WeightsType
    <3> QED
      BY <3>1, <3>2
  <2>3. p[k] * Weights[k] \in 0 .. (Base - 1) * Weights[k]
    BY WeightsType, FramingAssumption DEF Byte
  <2>4. (Base - 1) * Weights[k] = Base * Weights[k] - Weights[k] /\ Weights[k] \in Nat
    BY WeightsType, FramingAssumption
  <2> HIDE DEF T
  <2> DEFINE w == Weights[k]
             u == Base * w
             v == p[k] * w
             t == Totals(f)[k - 1]
  <2>5. /\ u \in Int /\ v \in 0 .. u - w /\ w \in Nat /\ t \in 0 .. w - 1
        /\ Totals(f)[k] = t + v
    BY <2>1, <2>2, <2>3, <2>4, FramingAssumption
  <2> HIDE DEF u, v, w, t
  <2>6. Totals(f)[k] \in 0 .. u - 1
    BY <2>5
  <2>7. Totals(f)[k] \in 0 .. Base * Weights[k] - 1
    BY <2>6 DEF u, w
  <2> QED
    BY <2>7, WeightsType DEF T
<1>5. \A k \in 0 .. PrefixLen : k \in T
  <2> HIDE DEF T
  <2> QED
    BY <1>3, <1>4, WeightsType, UpTo
<1>6. Totals(f)[PrefixLen] \in 0 .. Base * Weights[PrefixLen] - 1
  BY <1>5, WeightsType
<1> QED
  BY <1>6 DEF f, SizeOf, Limit

\* A length that fits its prefix is read as it was written.
THEOREM SizeOfPrefix ==
    ASSUME NEW n \in Nat, n < Limit
    PROVE  SizeOf(Prefix(n)) = n
<1> DEFINE f == [k \in 1 .. PrefixLen |-> Prefix(n)[k] * Weights[k]]
           T == {k \in 0 .. PrefixLen : k > 0 =>
                   Totals(f)[k] + (Base * Weights[k]) * (n \div (Base * Weights[k])) = n}
<1>1. \A k \in 1 .. PrefixLen : Prefix(n)[k] * Weights[k] \in Int
  <2> TAKE k \in 1 .. PrefixLen
  <2>1. Prefix(n)[k] \in Byte
    BY PrefixType, WeightsType
  <2> QED
    BY <2>1, WeightsType, FramingAssumption DEF Byte
<1>2. /\ f \in Seq(Int) /\ Len(f) = PrefixLen
      /\ \A k \in 1 .. PrefixLen : f[k] = Prefix(n)[k] * Weights[k]
  BY <1>1, WeightsType
<1> HIDE DEF f
<1>3. 0 \in T
  BY WeightsType
<1>4. ASSUME NEW k \in 1 .. PrefixLen, k - 1 \in T
      PROVE  k \in T
  <2> DEFINE w == Weights[k]
             d == n \div w
             e == n \div (Base * w)
  <2>1. /\ w \in Nat \ {0} /\ Base \in Nat \ {0} /\ d \in Nat /\ e \in Nat
        /\ Base * w \in Nat \ {0}
    BY WeightsType, FramingAssumption, Division, DivisionTwice
  <2>2. Totals(f)[k] = Totals(f)[k - 1] + (d % Base) * w
    BY <1>2, TotalsAre, PrefixType
  <2>3. Totals(f)[k - 1] + w * d = n
    <3>1. CASE k = 1
      <4>1. Totals(f)[0] = 0 /\ w = 1 /\ d = n
        BY <3>1, <1>2, TotalsAre, FramingAssumption
      <4> QED
        BY <3>1, <4>1, <2>1
    <3>2. CASE k # 1
      BY <3>2, <1>4, FramingAssumption, WeightsType
    <3> QED
      BY <3>1, <3>2
  <2>4. d = Base * e + (d % Base) /\ d % Base \in Nat
    <3>1. d \div Base = e
      BY <2>1, DivisionTwice
    <3>2. d \in Nat /\ Base \in Nat \ {0}
      BY <2>1
    <3> HIDE DEF d, e
    <3>3. d = Base * (d \div Base) + (d % Base) /\ d % Base \in 0 .. Base - 1
      BY <3>2, Division
    <3> QED
      BY <3>1, <3>2, <3>3
  <2>5. w * d = (Base * w) * e + (d % Base) * w
    <3> HIDE DEF d, e, w
    <3>1. w * d = w * (Base * e + (d % Base))
      BY <2>4
    <3>2. w * (Base * e + (d % Base)) = (Base * w) * e + (d % Base) * w
      BY <2>1, <2>4
    <3> QED
      BY <3>1, <3>2
  <2>6. Totals(f)[k - 1] \in Int
    BY <1>2, TotalsAre
  <2>7. Totals(f)[k] + (Base * w) * e = n
    <3>1. (Base * w) * e \in Int /\ (d % Base) * w \in Int
      BY <2>1, <2>4
    <3> HIDE DEF d, e, w
    <3> QED
      BY <2>2, <2>3, <2>5, <2>6, <3>1
  <2> QED
    BY <2>7
<1>5. \A k \in 0 .. PrefixLen : k \in T
  <2> HIDE DEF T
  <2> QED
    BY <1>3, <1>4, WeightsType, UpTo
<1>6. Totals(f)[PrefixLen] + Limit * (n \div Limit) = n
  BY <1>5, WeightsType DEF Limit
<1>7. n \div Limit = 0
  BY WeightsType
<1>8. Totals(f)[PrefixLen] \in Int /\ Limit \in Nat
  BY <1>2, TotalsAre, WeightsType
<1>9. Totals(f)[PrefixLen] = n
  BY <1>6, <1>7, <1>8
<1> QED
  BY <1>9 DEF f, SizeOf

(* ------------------------------ The stream ------------------------------ *)

\* What two sequences are, one behind the other.
LEMMA Concatenation ==
    ASSUME NEW S, NEW p \in Seq(S), NEW q \in Seq(S)
    PROVE  /\ p \o q \in Seq(S) /\ Len(p \o q) = Len(p) + Len(q)
           /\ \A j \in 1 .. Len(p) : (p \o q)[j] = p[j]
           /\ \A j \in 1 .. Len(q) : (p \o q)[Len(p) + j] = q[j]
OBVIOUS

\* A frame in the proto format is a length and a message, in the other a message
\* and a brace; it is never empty.
LEMMA FrameType ==
    ASSUME NEW form, NEW b \in Seq(Byte)
    PROVE  /\ Frame(form, b) \in Seq(0 .. Base) /\ Len(Frame(form, b)) \in Nat \ {0}
           /\ form = "proto" =>
                /\ Len(Frame(form, b)) = PrefixLen + Len(b)
                /\ \A j \in 1 .. PrefixLen : Frame(form, b)[j] = Prefix(Len(b))[j]
                /\ \A j \in 1 .. Len(b) : Frame(form, b)[PrefixLen + j] = b[j]
           /\ form # "proto" =>
                /\ Len(Frame(form, b)) = Len(b) + 1
                /\ \A j \in 1 .. Len(b) : Frame(form, b)[j] = b[j]
                /\ Frame(form, b)[Len(b) + 1] = Brace
<1>1. Len(b) \in Nat /\ b \in Seq(0 .. Base) /\ Base \in Nat \ {0}
  BY FramingAssumption DEF Byte
<1>2. CASE form = "proto"
  <2> DEFINE p == Prefix(Len(b))
  <2>1. p \in Seq(0 .. Base) /\ Len(p) = PrefixLen /\ PrefixLen \in Nat \ {0}
    BY <1>1, PrefixType, WeightsType DEF Byte
  <2>2. Frame(form, b) = p \o b
    BY <1>2 DEF Frame
  <2> HIDE DEF p
  <2>3. /\ p \o b \in Seq(0 .. Base) /\ Len(p \o b) = Len(p) + Len(b)
        /\ \A j \in 1 .. Len(p) : (p \o b)[j] = p[j]
        /\ \A j \in 1 .. Len(b) : (p \o b)[Len(p) + j] = b[j]
    <3>1. p \in Seq(0 .. Base) /\ b \in Seq(0 .. Base)
      BY <1>1, <2>1
    <3> QED
      BY ONLY <3>1, Concatenation
  <2>4. /\ Frame(form, b) \in Seq(0 .. Base)
        /\ Len(Frame(form, b)) = PrefixLen + Len(b)
        /\ \A j \in 1 .. PrefixLen : Frame(form, b)[j] = p[j]
        /\ \A j \in 1 .. Len(b) : Frame(form, b)[PrefixLen + j] = b[j]
    BY <2>1, <2>2, <2>3
  <2>5. Len(Frame(form, b)) \in Nat \ {0}
    BY <1>1, <2>1, <2>4
  <2> QED
    BY <1>2, <2>4, <2>5 DEF p
<1>3. CASE form # "proto"
  <2>1. Frame(form, b) = Append(b, Brace) /\ Brace \in 0 .. Base
    BY <1>1, <1>3 DEF Frame, Brace
  <2>2. /\ Append(b, Brace) \in Seq(0 .. Base) /\ Len(Append(b, Brace)) = Len(b) + 1
        /\ \A j \in 1 .. Len(b) : Append(b, Brace)[j] = b[j]
        /\ Append(b, Brace)[Len(b) + 1] = Brace
    BY <1>1, <2>1
  <2> QED
    BY <1>1, <1>3, <2>1, <2>2
<1> QED
  BY <1>2, <1>3

\* Where the frames of messages end.
LEMMA EndsAre ==
    ASSUME NEW form, NEW q \in Seq(Bodies)
    PROVE  /\ EndsOf(form, q) \in [0 .. Len(q) -> Nat] /\ EndsOf(form, q)[0] = 0
           /\ \A i \in 1 .. Len(q) :
                EndsOf(form, q)[i] = EndsOf(form, q)[i - 1] + Len(Frame(form, q[i]))
<1> DEFINE f == [i \in 1 .. Len(q) |-> Len(Frame(form, q[i]))]
           E == EndsOf(form, q)
           T == {i \in 0 .. Len(q) : E[i] \in Nat}
<1>1. Len(q) \in Nat /\ \A i \in 1 .. Len(q) : Len(Frame(form, q[i])) \in Nat
  BY FrameType, FramingAssumption
<1>2. /\ f \in Seq(Int) /\ Len(f) = Len(q) /\ E = Totals(f)
      /\ \A i \in 1 .. Len(q) : f[i] = Len(Frame(form, q[i]))
  BY <1>1 DEF EndsOf
<1> HIDE DEF f, E
<1>3. /\ E \in [0 .. Len(q) -> Int] /\ E[0] = 0
      /\ \A i \in 1 .. Len(q) : E[i] = E[i - 1] + Len(Frame(form, q[i]))
  BY <1>2, TotalsAre
<1>4. \A i \in 0 .. Len(q) : i \in T
  <2>1. 0 \in T
    BY <1>1, <1>3
  <2>2. \A i \in 1 .. Len(q) : i - 1 \in T => i \in T
    BY <1>1, <1>3
  <2> HIDE DEF T
  <2> QED
    BY <1>1, <2>1, <2>2, UpTo
<1> QED
  BY <1>3, <1>4 DEF E

\* One message more ends behind the others.
LEMMA EndsAppend ==
    ASSUME NEW form, NEW q \in Seq(Bodies), NEW b \in Bodies
    PROVE  /\ \A i \in 0 .. Len(q) : EndsOf(form, Append(q, b))[i] = EndsOf(form, q)[i]
           /\ EndsOf(form, Append(q, b))[Len(q) + 1]
                 = EndsOf(form, q)[Len(q)] + Len(Frame(form, b))
<1> DEFINE p == Append(q, b)
           f == [i \in 1 .. Len(q) |-> Len(Frame(form, q[i]))]
           e == [i \in 1 .. Len(p) |-> Len(Frame(form, p[i]))]
<1>1. /\ p \in Seq(Bodies) /\ Len(p) = Len(q) + 1 /\ Len(q) \in Nat
      /\ p[Len(q) + 1] = b /\ \A i \in 1 .. Len(q) : p[i] = q[i]
  OBVIOUS
<1> HIDE DEF p
<1>2. /\ \A i \in 1 .. Len(q) : Len(Frame(form, q[i])) \in Nat
      /\ \A i \in 1 .. Len(p) : Len(Frame(form, p[i])) \in Nat
  BY <1>1, FrameType, FramingAssumption
<1>3. /\ f \in Seq(Int) /\ Len(f) = Len(q) /\ e \in Seq(Int) /\ Len(e) = Len(p)
      /\ \A i \in 1 .. Len(q) : e[i] = f[i]
  BY <1>1, <1>2
<1>4. EndsOf(form, q) = Totals(f) /\ EndsOf(form, p) = Totals(e)
  BY DEF EndsOf
<1> HIDE DEF f, e
<1>5. \A i \in 0 .. Len(q) : EndsOf(form, p)[i] = EndsOf(form, q)[i]
  <2>1. Len(f) <= Len(e) /\ \A i \in 1 .. Len(f) : e[i] = f[i]
    BY <1>1, <1>3
  <2>2. \A i \in 0 .. Len(f) : Totals(e)[i] = Totals(f)[i]
    BY <1>3, <2>1, TotalsAgree
  <2> QED
    BY <1>3, <1>4, <2>2
<1>6. EndsOf(form, p)[Len(q) + 1] = EndsOf(form, p)[Len(q)] + Len(Frame(form, b))
  <2>1. Len(q) + 1 \in 1 .. Len(p) /\ Len(q) + 1 - 1 = Len(q)
    BY <1>1
  <2> QED
    BY <1>1, <2>1, EndsAre
<1> QED
  BY <1>1, <1>5, <1>6 DEF p

\* What is written behind what lies on a stream.
LEMMA LiesOnto ==
    ASSUME NEW S, NEW w \in Seq(S), NEW x \in Seq(S), NEW r \in Nat, NEW at \in Nat,
           NEW n \in Nat, NEW f, Lies(w, r, f, n, at)
    PROVE  /\ Lies(w \o x, r, f, n, at)
           /\ at + n = r + Len(w) /\ (\A j \in 1 .. Len(x) : f[n + j] = x[j])
                => Lies(w \o x, r, f, n + Len(x), at)
<1>1. /\ Len(w) \in Nat /\ Len(x) \in Nat /\ Len(w \o x) = Len(w) + Len(x)
      /\ \A i \in 1 .. Len(w) : (w \o x)[i] = w[i]
      /\ \A i \in 1 .. Len(x) : (w \o x)[Len(w) + i] = x[i]
  OBVIOUS
<1>2. at + n <= r + Len(w) /\ \A j \in 1 .. n : at + j > r => w[at + j - r] = f[j]
  BY DEF Lies
<1>3. ASSUME NEW j \in 1 .. n, at + j > r
      PROVE  (w \o x)[at + j - r] = f[j]
  <2>1. at + j - r \in 1 .. Len(w)
    BY <1>1, <1>2, <1>3
  <2> QED
    BY <1>1, <1>2, <1>3, <2>1
<1>4. Lies(w \o x, r, f, n, at)
  <2>1. at + n <= r + Len(w \o x)
    BY <1>1, <1>2
  <2> QED
    BY <1>3, <2>1 DEF Lies
<1>5. ASSUME at + n = r + Len(w), \A j \in 1 .. Len(x) : f[n + j] = x[j]
      PROVE  Lies(w \o x, r, f, n + Len(x), at)
  <2>1. ASSUME NEW j \in n + 1 .. n + Len(x)
        PROVE  (w \o x)[at + j - r] = f[j]
    <3> DEFINE i == j - n
    <3>1. j \in Int /\ n + 1 <= j /\ j <= n + Len(x) /\ at + n = r + Len(w)
      BY <1>1, <1>5
    <3>2. i \in 1 .. Len(x) /\ n + i = j
      BY <1>1, <3>1
    <3> DEFINE l == Len(w)
    <3>3. l \in Int /\ at + n = r + l
      BY <1>1, <3>1
    <3> HIDE DEF l
    <3>4. at + j - r = l + (j - n)
      BY <3>1, <3>3
    <3>5. at + j - r = Len(w) + i
      BY <3>4 DEF l
    <3> HIDE DEF i
    <3> QED
      BY <1>1, <1>5, <3>2, <3>5
  <2>2. \A j \in 1 .. n + Len(x) : at + j > r => (w \o x)[at + j - r] = f[j]
    <3> TAKE j \in 1 .. n + Len(x)
    <3>1. j \in 1 .. n \/ j \in n + 1 .. n + Len(x)
      BY <1>1
    <3> QED
      BY <1>3, <2>1, <3>1
  <2>3. at + (n + Len(x)) <= r + Len(w \o x)
    BY <1>1, <1>5
  <2> QED
    BY <2>2, <2>3 DEF Lies
<1> QED
  BY <1>4, <1>5

\* What has been taken off in front.
LEMMA TakenOff ==
    ASSUME NEW S, NEW w \in Seq(S), NEW k \in 0 .. Len(w)
    PROVE  LET v == SubSeq(w, k + 1, Len(w))
           IN  /\ v \in Seq(S) /\ Len(v) = Len(w) - k /\ Len(w) \in Nat
               /\ \A i \in 1 .. Len(w) - k : v[i] = w[k + i]
<1>1. Len(w) \in Nat
  BY LenProperties
<1>2. SubSeq(w, k + 1, Len(w)) = [i \in 1 .. Len(w) - k |-> w[k + i]]
  BY <1>1
<1>3. \A i \in 1 .. Len(w) - k : w[k + i] \in S
  BY <1>1
<1> HIDE DEF SubSeq
<1> QED
  BY <1>1, <1>2, <1>3

\* What lies on the stream lies there when the reader has gone on.
LEMMA LiesRead ==
    ASSUME NEW S, NEW w \in Seq(S), NEW k \in 0 .. Len(w), NEW r \in Nat,
           NEW at \in Nat, NEW n \in Nat, NEW f, Lies(w, r, f, n, at)
    PROVE  Lies(SubSeq(w, k + 1, Len(w)), r + k, f, n, at)
<1> DEFINE v == SubSeq(w, k + 1, Len(w))
<1>1. /\ Len(v) = Len(w) - k /\ Len(w) \in Nat
      /\ \A i \in 1 .. Len(w) - k : v[i] = w[k + i]
  BY TakenOff
<1> HIDE DEF v
<1>2. at + n <= r + Len(w) /\ \A j \in 1 .. n : at + j > r => w[at + j - r] = f[j]
  BY DEF Lies
<1>3. ASSUME NEW j \in 1 .. n, at + j > r + k
      PROVE  v[at + j - (r + k)] = f[j]
  <2>1. at + j - (r + k) \in 1 .. Len(w) - k /\ at + j > r
    BY <1>1, <1>2, <1>3
  <2>2. v[at + j - (r + k)] = w[k + (at + j - (r + k))]
    BY <1>1, <2>1
  <2>3. k + (at + j - (r + k)) = at + j - r
    OBVIOUS
  <2> QED
    BY <1>2, <2>1, <2>2, <2>3
<1>4. at + n <= r + k + Len(v)
  BY <1>1, <1>2
<1> QED
  BY <1>3, <1>4 DEF Lies, v

\* What a cut leaves.
LEMMA LiesCut ==
    ASSUME NEW S, NEW w \in Seq(S), NEW l \in 0 .. Len(w), NEW r \in Nat,
           NEW at \in Nat, NEW n \in Nat, NEW m \in 0 .. n, NEW f,
           Lies(w, r, f, n, at), at + m <= r + l
    PROVE  Lies(SubSeq(w, 1, l), r, f, m, at)
<1> DEFINE v == SubSeq(w, 1, l)
<1>1. Len(v) = l /\ Len(w) \in Nat /\ \A i \in 1 .. l : v[i] = w[i]
  BY BeginningType
<1> HIDE DEF v
<1>2. \A j \in 1 .. n : at + j > r => w[at + j - r] = f[j]
  BY DEF Lies
<1>3. ASSUME NEW j \in 1 .. m, at + j > r
      PROVE  v[at + j - r] = f[j]
  <2>1. at + j - r \in 1 .. l /\ j \in 1 .. n
    BY <1>1, <1>3
  <2> QED
    BY <1>1, <1>2, <1>3, <2>1
<1> QED
  BY <1>1, <1>3 DEF Lies, v

(* ------------------------------- The types ------------------------------ *)

\* The head and the tail of one or two Writes.
LEMMA FewWrites ==
    ASSUME NEW x, NEW y
    PROVE  /\ Head(<<x, y>>) = x /\ Tail(<<x, y>>) = <<y>> /\ Len(<<x, y>>) = 2
           /\ Head(<<x>>) = x /\ Tail(<<x>>) = <<>> /\ Len(<<x>>) = 1
  OBVIOUS

\* What an Encode has to write is made of bytes, and of the brace in JSON.
LEMMA WritesOfType ==
    ASSUME TypeOK, NEW b \in Bodies
    PROVE  /\ WritesOf(b) \in Seq(Seq(0 .. Base)) /\ WritesOf(b) # <<>>
           /\ format = "proto" =>
                /\ WritesOf(b) \in Seq(Seq(Byte))
                /\ WritesOf(b) = <<Prefix(Len(b)), b>>
           /\ format # "proto" => WritesOf(b) = <<Append(b, Brace)>>
<1>1. /\ b \in Seq(Byte) /\ b \in Seq(0 .. Base) /\ Len(b) \in Nat
      /\ Brace \in 0 .. Base
  BY FramingAssumption DEF Byte, Brace
<1>2. Prefix(Len(b)) \in Seq(Byte) /\ Prefix(Len(b)) \in Seq(0 .. Base)
  BY <1>1, PrefixType, FramingAssumption DEF Byte
<1>3. Append(b, Brace) \in Seq(0 .. Base)
  BY <1>1
<1>4. CASE format = "proto"
  BY <1>1, <1>2, <1>4 DEF WritesOf
<1>5. CASE format # "proto"
  BY <1>1, <1>3, <1>5 DEF WritesOf
<1> QED
  BY <1>4, <1>5

\* What is left of a Write or of the stream is made of what they were.
LEMMA PrefixesType ==
    ASSUME NEW S, NEW q \in Seq(S), NEW p \in Prefixes(q)
    PROVE  /\ p \in Seq(S) /\ Len(p) \in 0 .. Len(q) /\ p = SubSeq(q, 1, Len(p))
           /\ \A j \in 1 .. Len(p) : p[j] = q[j]
           /\ (p # q => Len(p) < Len(q)) /\ (p # <<>> => Len(p) > 0)
<1>1. PICK l \in 0 .. Len(q) : p = SubSeq(q, 1, l)
  BY DEF Prefixes
<1>2. /\ p \in Seq(S) /\ Len(p) = l /\ l \in Nat /\ Len(q) \in Nat
      /\ \A j \in 1 .. l : p[j] = q[j]
  BY <1>1, BeginningType
<1>3. l = Len(q) => p = q
  BY <1>2, SeqEqual
<1> QED
  BY <1>1, <1>2, <1>3

\* All of a sequence is a beginning of it.
LEMMA WholePrefix ==
    ASSUME NEW S, NEW q \in Seq(S)
    PROVE  q \in Prefixes(q)
<1>1. Len(q) \in 0 .. Len(q)
  BY LenProperties
<1>2. SubSeq(q, 1, Len(q)) = q
  BY <1>1, BeginningType, SeqEqual
<1> QED
  BY <1>1, <1>2 DEF Prefixes

\* The bytes a Write has on the stream when it is cut.
LEMMA CutsType ==
    ASSUME TypeOK, OwnFormat, NEW c \in Cuts
    PROVE  /\ c.part \in Seq(0 .. Base)
           /\ format = "proto" => c.part \in Seq(Byte)
           /\ c.mixes \in BOOLEAN
           /\ c.part = <<>> \/ \E s \in Senders :
                /\ writes[s] # <<>> /\ c.mixes = Mixes(s)
                /\ c.part \in Prefixes(Head(writes[s])) /\ c.part # Head(writes[s])
<1>1. CASE c = [part |-> <<>>, mixes |-> FALSE]
  BY <1>1
<1>2. CASE c # [part |-> <<>>, mixes |-> FALSE]
  <2>1. PICK s \in Senders :
          /\ writes[s] # <<>>
          /\ \E p \in Prefixes(Head(writes[s])) \ {Head(writes[s]), <<>>} :
                c = [part |-> p, mixes |-> Mixes(s)]
    BY <1>2 DEF Cuts
  <2>2. /\ c.part \in Prefixes(Head(writes[s])) /\ c.part # Head(writes[s])
        /\ c.mixes = Mixes(s) /\ Mixes(s) \in BOOLEAN
    BY <2>1 DEF Mixes
  <2>3. Head(writes[s]) \in Seq(0 .. Base)
    BY <2>1 DEF TypeOK
  <2>4. format = "proto" => Head(writes[s]) \in Seq(Byte)
    BY <2>1 DEF OwnFormat
  <2> QED
    BY <2>1, <2>2, <2>3, <2>4, PrefixesType
<1> QED
  BY <1>1, <1>2

\* What a sequence holds.
LEMMA ElementOf ==
    ASSUME NEW S, NEW q \in Seq(S), NEW i \in 1 .. Len(q)
    PROVE  q[i] \in S
  OBVIOUS

\* The first brace.
LEMMA FirstBrace ==
    ASSUME NEW q \in Seq(0 .. Base), Brace \in ToSet(q)
    PROVE  LET k == Min({i \in 1 .. Len(q) : q[i] = Brace})
           IN  /\ k \in 1 .. Len(q) /\ q[k] = Brace
               /\ \A i \in 1 .. k - 1 : q[i] # Brace /\ q[i] \in Byte
<1> DEFINE P == {i \in 1 .. Len(q) : q[i] = Brace}
           k == Min(P)
<1>1. P = Places(q, {Brace}) /\ P # {} /\ Len(q) \in Nat
  BY DEF Places, ToSet
<1>2. \E i \in P : \A j \in P : i <= j
  BY <1>1, FirstPlace
<1>3. k \in P /\ \A j \in P : k <= j
  BY <1>2 DEF Min
<1> HIDE DEF k
<1>4. ASSUME NEW i \in 1 .. k - 1
      PROVE  q[i] # Brace /\ q[i] \in Byte
  <2>1. i \in 1 .. Len(q) /\ i \notin P
    BY <1>1, <1>3
  <2>2. q[i] \in 0 .. Base
    BY <2>1, ElementOf
  <2> QED
    BY <2>1, <2>2, FramingAssumption DEF Brace, Byte
<1> QED
  BY <1>3, <1>4 DEF k

\* What the first bytes of the stream are, and what is left.
LEMMA TakeType ==
    ASSUME NEW S, NEW q \in Seq(S), NEW n \in 0 .. Len(q)
    PROVE  /\ SubSeq(q, n + 1, Len(q)) \in Seq(S)
           /\ SubSeq(q, 1, n) \in Seq(S) /\ Len(SubSeq(q, 1, n)) = n
           /\ \A i \in 1 .. n : SubSeq(q, 1, n)[i] = q[i]
  BY TakenOff, BeginningType

\* A step keeps the types, the Writes of the Encodes and what is for a format.
LEMMA TypesStep ==
    ASSUME TypeOK, Encoding, OwnFormat, [Next]_vars
    PROVE  TypeOK' /\ Encoding' /\ OwnFormat'
<1> USE FramingAssumption
<1>0. format \in {"proto", "json"}
  BY DEF TypeOK
<1>1. ASSUME NEW s \in Senders, NEW b \in Bodies, BeginEncode(s, b)
      PROVE  TypeOK' /\ Encoding' /\ OwnFormat'
  <2>0. /\ WritesOf(b) \in Seq(Seq(0 .. Base)) /\ b \in Seq(Byte)
        /\ format = "proto" => WritesOf(b) \in Seq(Seq(Byte))
    BY WritesOfType
  <2>1. TypeOK'
    <3>1. /\ writes \in [Senders -> Seq(Seq(0 .. Base))] /\ body \in [Senders -> Seq(Byte)]
          /\ encodes \in 0 .. MaxEncodes /\ MaxEncodes \in Nat
      BY DEF TypeOK
    <3>2. /\ writes' \in [Senders -> Seq(Seq(0 .. Base))]
          /\ body' \in [Senders -> Seq(Byte)] /\ encodes' \in 0 .. MaxEncodes
      BY <1>1, <2>0, <3>1 DEF BeginEncode
    <3> QED
      BY <1>1, <3>2 DEF TypeOK, BeginEncode, decoderVars
  <2>2. Encoding'
    BY <1>1 DEF TypeOK, Encoding, BeginEncode, Midway, WritesOf
  <2>3. OwnFormat'
    BY <1>1, <2>0 DEF TypeOK, OwnFormat, BeginEncode, decoderVars
  <2> QED
    BY <2>1, <2>2, <2>3
<1>2. ASSUME NEW s \in Senders, Write(s)
      PROVE  TypeOK' /\ Encoding' /\ OwnFormat'
  <2> DEFINE h == Head(writes[s])
             t == Tail(writes[s])
  <2>1. /\ writes[s] \in Seq(Seq(0 .. Base)) /\ writes[s] # <<>>
        /\ h \in Seq(0 .. Base) /\ t \in Seq(Seq(0 .. Base))
        /\ wire' = wire \o h /\ writes' = [writes EXCEPT ![s] = t]
        /\ UNCHANGED <<format, body, encodes, fin, decoderVars, broken>>
    BY <1>2 DEF TypeOK, Write
  <2>2. format = "proto" => h \in Seq(Byte) /\ t \in Seq(Seq(Byte))
    <3>1. format = "proto" => writes[s] \in Seq(Seq(Byte))
      BY DEF OwnFormat
    <3> QED
      BY <2>1, <3>1
  <2>3. sent' \in Seq(Bodies) /\ garbled' \in BOOLEAN
    BY <1>2 DEF TypeOK, Encoding, Write, Mixes
  <2>4. t = <<>> \/ (format = "proto" /\ t = <<body[s]>>)
    <3>1. body[s] \in Bodies /\ (writes[s] = WritesOf(body[s]) \/ writes[s] = <<body[s]>>)
      BY <2>1 DEF Encoding
    <3>2. CASE writes[s] = <<body[s]>>
      BY <3>2, FewWrites
    <3>3. CASE writes[s] = WritesOf(body[s])
      <4>1. CASE format = "proto"
        <5>1. writes[s] = <<Prefix(Len(body[s])), body[s]>>
          BY <3>1, <3>3, <4>1, WritesOfType
        <5> QED
          BY <4>1, <5>1, FewWrites
      <4>2. CASE format # "proto"
        <5>1. writes[s] = <<Append(body[s], Brace)>>
          BY <3>1, <3>3, <4>2, WritesOfType
        <5> QED
          BY <5>1, FewWrites
      <4> QED
        BY <4>1, <4>2
    <3> QED
      BY <3>1, <3>2, <3>3
  <2> HIDE DEF h, t
  <2>5. TypeOK'
    <3>1. wire' \in Seq(0 .. Base) /\ writes' \in [Senders -> Seq(Seq(0 .. Base))]
      <4>1. wire \in Seq(0 .. Base) /\ writes \in [Senders -> Seq(Seq(0 .. Base))]
        BY DEF TypeOK
      <4> QED
        BY <2>1, <4>1
    <3> QED
      BY <2>1, <2>3, <3>1 DEF TypeOK, decoderVars
  <2>6. Encoding'
    BY <2>1, <2>4 DEF TypeOK, Encoding, Midway, WritesOf
  <2>7. OwnFormat'
    <3>1. CASE format = "proto"
      <4>1. wire \in Seq(Byte) /\ writes \in [Senders -> Seq(Seq(Byte))]
        BY <3>1 DEF OwnFormat
      <4>2. wire' \in Seq(Byte) /\ writes' \in [Senders -> Seq(Seq(Byte))]
        BY <2>1, <2>2, <3>1, <4>1
      <4> QED
        BY <2>1, <3>1, <4>2 DEF OwnFormat
    <3>2. CASE format # "proto"
      BY <2>1, <3>2 DEF OwnFormat, decoderVars
    <3> QED
      BY <3>1, <3>2
  <2> QED
    BY <2>5, <2>6, <2>7
<1>3. ASSUME NEW s \in Senders, WriteFails(s)
      PROVE  TypeOK' /\ Encoding' /\ OwnFormat'
  <2>1. TypeOK'
    BY <1>3 DEF TypeOK, WriteFails, decoderVars
  <2>2. Encoding'
    BY <1>3 DEF TypeOK, Encoding, WriteFails, Midway, WritesOf
  <2>3. OwnFormat'
    BY <1>3 DEF TypeOK, OwnFormat, WriteFails, decoderVars
  <2> QED
    BY <2>1, <2>2, <2>3
<1>4. ASSUME NEW c \in Cuts, \/ wire' = wire \o c.part
                              \/ wire' \in Prefixes(wire \o c.part),
             {fin, broken, fin', broken'} \subseteq BOOLEAN, garbled' \in BOOLEAN,
             UNCHANGED <<format, writes, body, encodes, sent, decoderVars>>
      PROVE  TypeOK' /\ Encoding' /\ OwnFormat'
  <2>1. wire' \in Seq(0 .. Base)
    <3>1. wire \o c.part \in Seq(0 .. Base)
      BY CutsType DEF TypeOK
    <3> QED
      BY <1>4, <3>1, PrefixesType
  <2>2. format = "proto" => wire' \in Seq(Byte)
    <3>1. format = "proto" => wire \o c.part \in Seq(Byte)
      BY CutsType DEF OwnFormat
    <3> QED
      BY <1>4, <3>1, PrefixesType
  <2>3. TypeOK'
    BY <1>4, <2>1 DEF TypeOK, decoderVars
  <2>4. Encoding'
    BY <1>4 DEF Encoding, WritesOf, Midway
  <2>5. OwnFormat'
    BY <1>4, <2>2 DEF OwnFormat, decoderVars
  <2> QED
    BY <2>3, <2>4, <2>5
<1>5. CASE Close
  <2>1. PICK c \in Cuts : wire' = wire \o c.part /\ garbled' = (garbled \/ c.mixes)
    BY <1>5 DEF Close
  <2>2. garbled' \in BOOLEAN /\ {fin, broken, fin', broken'} \subseteq BOOLEAN
    BY <1>5, <2>1 DEF Close, TypeOK
  <2> QED
    BY <1>4, <1>5, <2>1, <2>2 DEF Close
<1>6. CASE Break
  <2>1. PICK c \in Cuts :
          wire' \in Prefixes(wire \o c.part) /\ garbled' = (garbled \/ c.mixes)
    BY <1>6 DEF Break
  <2>2. garbled' \in BOOLEAN /\ {fin, broken, fin', broken'} \subseteq BOOLEAN
    BY <1>6, <2>1 DEF Break, TypeOK
  <2> QED
    BY <1>4, <1>6, <2>1, <2>2 DEF Break
<1>7. ASSUME NEW n \in 0 .. Len(wire), Take(n), UNCHANGED <<format, encoderVars, broken>>,
             reader' \in {"size", "data", "eof", "error"}, need' \in 0 .. Limit - 1,
             got' \in Seq(Seq(Byte)), format # "proto" => reader' # "data"
      PROVE  TypeOK' /\ Encoding' /\ OwnFormat'
  <2>1. wire' \in Seq(0 .. Base) /\ (format = "proto" => wire' \in Seq(Byte))
    BY <1>7, TakeType DEF TypeOK, OwnFormat, Take
  <2>2. TypeOK'
    BY <1>7, <2>1 DEF TypeOK, encoderVars
  <2>3. Encoding'
    BY <1>7 DEF Encoding, WritesOf, Midway, encoderVars
  <2>4. OwnFormat'
    BY <1>7, <2>1 DEF OwnFormat, encoderVars
  <2> QED
    BY <2>2, <2>3, <2>4
<1>8. Len(wire) \in Nat /\ need \in 0 .. Limit - 1 /\ Limit \in Nat
  BY WeightsType DEF TypeOK
<1>9. CASE DecodeSize
  <2>1. PrefixLen \in 0 .. Len(wire) /\ wire \in Seq(Byte)
    BY <1>8, <1>9, WeightsType DEF DecodeSize, OwnFormat
  <2>2. need' \in 0 .. Limit - 1
    <3>1. \A k \in 1 .. PrefixLen : SubSeq(wire, 1, PrefixLen)[k] \in Byte
      BY <2>1, TakeType, WeightsType
    <3> QED
      BY <1>9, <3>1, SizeType DEF DecodeSize
  <2> QED
    BY <1>7, <1>9, <2>1, <2>2 DEF DecodeSize, TypeOK
<1>10. ASSUME NEW b \in Seq(Byte), NEW n \in 0 .. Len(wire), Take(n), Unmarshal(b),
              UNCHANGED <<format, encoderVars, broken>>
       PROVE  TypeOK' /\ Encoding' /\ OwnFormat'
  <2>1. got' \in Seq(Seq(Byte))
    <3>1. got \in Seq(Seq(Byte)) /\ Append(got, b) \in Seq(Seq(Byte))
      BY DEF TypeOK
    <3> QED
      BY <1>10, <3>1 DEF Unmarshal
  <2>2. reader' \in {"size", "error"} /\ need' = need
    BY <1>10 DEF Unmarshal
  <2> QED
    BY <1>7, <1>8, <1>10, <2>1, <2>2
<1>11. CASE DecodeData
  <2>1. need \in 0 .. Len(wire) /\ wire \in Seq(Byte)
    BY <1>8, <1>11 DEF DecodeData, OwnFormat
  <2> QED
    BY <1>10, <1>11, <2>1, TakeType DEF DecodeData
<1>12. CASE DecodeValue
  <2> DEFINE k == Min({i \in 1 .. Len(wire) : wire[i] = Brace})
  <2>1. /\ k \in 1 .. Len(wire) /\ \A i \in 1 .. k - 1 : wire[i] \in Byte
        /\ wire \in Seq(0 .. Base)
    BY <1>12, FirstBrace DEF DecodeValue, TypeOK
  <2>2. Take(k) /\ Unmarshal(SubSeq(wire, 1, k - 1)) /\ UNCHANGED <<format, encoderVars, broken>>
    BY <1>12 DEF DecodeValue
  <2> HIDE DEF k
  <2>3. k - 1 \in 0 .. Len(wire) /\ k \in 0 .. Len(wire) /\ k - 1 \in Nat
    BY <1>8, <2>1
  <2>4. SubSeq(wire, 1, k - 1) \in Seq(Byte)
    <3> DEFINE v == SubSeq(wire, 1, k - 1)
    <3>1. v \in Seq(0 .. Base) /\ Len(v) = k - 1 /\ \A i \in 1 .. k - 1 : v[i] = wire[i]
      BY <2>1, <2>3, BeginningType
    <3> HIDE DEF v
    <3>2. \A i \in 1 .. Len(v) : v[i] \in Byte
      BY <2>1, <3>1
    <3>3. v \in Seq(Byte)
      BY <3>1, <3>2
    <3> QED
      BY <3>3 DEF v
  <2> QED
    BY <1>10, <2>2, <2>3, <2>4
<1>13. ASSUME NEW n, ReadFullFails(n)
       PROVE  TypeOK' /\ Encoding' /\ OwnFormat'
  <2>1. /\ Take(Len(wire)) /\ reader' \in {"eof", "error"}
        /\ UNCHANGED <<format, encoderVars, need, got, broken>>
    BY <1>13 DEF ReadFullFails, DecodeEnds
  <2> QED
    BY <1>7, <1>8, <2>1 DEF TypeOK
<1>14. CASE UNCHANGED vars
  <2>1. TypeOK'
    BY <1>14 DEF TypeOK, vars, encoderVars, decoderVars
  <2>2. Encoding'
    BY <1>14 DEF Encoding, WritesOf, Midway, vars, encoderVars
  <2>3. OwnFormat'
    BY <1>14 DEF OwnFormat, vars, encoderVars, decoderVars
  <2> QED
    BY <2>1, <2>2, <2>3
<1> QED
  BY <1>1, <1>2, <1>3, <1>5, <1>6, <1>9, <1>11, <1>12, <1>13, <1>14
     DEF Next, Decode, ProtoFails, JsonFails

(* ------------------------------ The frames ------------------------------ *)

\* The places of the stream are numbers.
LEMMA Measures ==
    ASSUME TypeOK, Received
    PROVE  /\ Len(sent) \in Nat /\ Len(got) \in 0 .. Len(sent)
           /\ Len(wire) \in Nat /\ PrefixLen \in Nat \ {0}
           /\ FrameEnds \in [0 .. Len(sent) -> Nat] /\ ReadTo \in Nat
           /\ ReadTo = FrameEnds[Len(got)] + (IF reader = "data" THEN PrefixLen ELSE 0)
           /\ StreamEnd(wire) = ReadTo + Len(wire)
           /\ \A i \in 1 .. Len(sent) :
                /\ sent[i] \in Bodies /\ sent[i] \in Seq(Byte)
                /\ Len(Frame(format, sent[i])) \in Nat \ {0}
                /\ FrameEnds[i] = FrameEnds[i - 1] + Len(Frame(format, sent[i]))
<1>1. Len(sent) \in Nat /\ Len(got) \in 0 .. Len(sent) /\ Len(wire) \in Nat
  BY DEF TypeOK, Received
<1>2. /\ FrameEnds \in [0 .. Len(sent) -> Nat]
      /\ \A i \in 1 .. Len(sent) :
           FrameEnds[i] = FrameEnds[i - 1] + Len(Frame(format, sent[i]))
  BY EndsAre DEF FrameEnds, TypeOK
<1>3. \A i \in 1 .. Len(sent) : sent[i] \in Bodies /\ sent[i] \in Seq(Byte)
  BY FramingAssumption DEF TypeOK
<1>4. ReadTo \in Nat
  <2>1. FrameEnds[Len(got)] \in Nat
    BY <1>1, <1>2
  <2> QED
    BY <2>1, WeightsType DEF ReadTo
<1> QED
  BY <1>1, <1>2, <1>3, <1>4, WeightsType, FrameType DEF ReadTo, StreamEnd

\* What lies on the stream lies there when it goes on.
LEMMA IntactOnto ==
    ASSUME TypeOK, Received, NEW n \in Len(got) .. Len(sent), Intact(wire, n),
           NEW x \in Seq(0 .. Base)
    PROVE  Intact(wire \o x, n)
<1> SUFFICES ASSUME NEW i \in Len(got) + 1 .. n
             PROVE  LET f == Frame(format, sent[i])
                    IN  Lies(wire \o x, ReadTo, f, Len(f), FrameEnds[i - 1])
  BY DEF Intact
<1> DEFINE f == Frame(format, sent[i])
<1>1. i \in 1 .. Len(sent) /\ i - 1 \in 0 .. Len(sent)
  BY Measures
<1>2. Len(f) \in Nat /\ FrameEnds[i - 1] \in Nat /\ ReadTo \in Nat
  BY <1>1, Measures
<1>3. Lies(wire, ReadTo, f, Len(f), FrameEnds[i - 1])
  BY DEF Intact
<1>4. wire \in Seq(0 .. Base)
  BY DEF TypeOK
<1> HIDE DEF f
<1>5. Lies(wire \o x, ReadTo, f, Len(f), FrameEnds[i - 1])
  BY <1>2, <1>3, <1>4, LiesOnto
<1> QED
  BY <1>5 DEF f

\* What an Encode that does not mix puts on a stream that goes on, all of a
\* Write or a part of it, goes on with the frame of its message.
LEMMA Piece ==
    ASSUME TypeOK, Encoding, Unmixed, Received, ~fin, ~broken,
           reader \in {"size", "data"},
           NEW n \in Len(got) .. Len(sent), Framed(n),
           NEW s \in Senders, writes[s] # <<>>, ~Mixes(s),
           NEW x \in Prefixes(Head(writes[s]))
    PROVE  LET w == wire \o x
               f == Frame(format, body[s])
               part == StreamEnd(w) - FrameEnds[n]
           IN  /\ body[s] \in Bodies /\ Fits(body[s]) /\ n = Len(sent)
               /\ Intact(w, n) /\ x \in Seq(0 .. Base) /\ Len(f) \in Nat
               /\ Lies(w, ReadTo, f, part, FrameEnds[n])
               /\ reader = "data" /\ Len(got) = n => need = Len(body[s])
               /\ part \in 0 .. Len(f)
               /\ x # Head(writes[s]) => part # Len(f)
               /\ x = Head(writes[s]) =>
                    IF Len(writes[s]) = 1 THEN part = Len(f)
                    ELSE format = "proto" /\ part = PrefixLen /\ part < Len(f)
<1> DEFINE w == wire \o x
           b == body[s]
           f == Frame(format, b)
           h == Head(writes[s])
           E == FrameEnds[n]
<1>1. /\ b \in Bodies /\ b \in Seq(Byte) /\ b # <<>> /\ Len(b) \in Nat /\ Len(b) > 0
      /\ writes[s] = WritesOf(b) \/ (Midway(s) /\ writes[s] = <<b>>)
      /\ n = Len(sent) /\ Intact(wire, n) /\ wire \in Seq(0 .. Base)
  <2>1. b \in Bodies /\ (writes[s] = WritesOf(b) \/ (Midway(s) /\ writes[s] = <<b>>))
    BY DEF Encoding
  <2>2. b \in Seq(Byte) /\ b # <<>>
    BY <2>1, FramingAssumption, BodiesAssumption
  <2>3. Len(b) \in Nat /\ Len(b) > 0
    BY <2>2
  <2>4. n = Len(sent) /\ Intact(wire, n)
    BY DEF Framed
  <2> QED
    BY <2>1, <2>2, <2>3, <2>4 DEF TypeOK
<1>2. /\ h \in Seq(0 .. Base) /\ x \in Seq(0 .. Base) /\ Len(x) \in 0 .. Len(h)
      /\ Len(h) \in Nat /\ (x # h => Len(x) < Len(h))
      /\ \A j \in 1 .. Len(x) : x[j] = h[j]
  <2>1. h \in Seq(0 .. Base)
    BY DEF TypeOK
  <2> HIDE DEF h
  <2> QED
    BY <2>1, PrefixesType DEF h
<1>3. Intact(w, n)
  BY <1>1, <1>2, IntactOnto
<1>4. /\ E \in Nat /\ ReadTo \in Nat /\ Len(wire) \in Nat /\ PrefixLen \in Nat \ {0}
      /\ StreamEnd(wire) = ReadTo + Len(wire) /\ Len(x) \in Nat
      /\ StreamEnd(w) = StreamEnd(wire) + Len(x)
  <2>1. Len(w) = Len(wire) + Len(x) /\ Len(x) \in Nat
    BY <1>1, <1>2
  <2>2. /\ E \in Nat /\ ReadTo \in Nat /\ Len(wire) \in Nat
        /\ PrefixLen \in Nat \ {0} /\ StreamEnd(wire) = ReadTo + Len(wire)
    BY <1>1, Measures
  <2>3. StreamEnd(w) = ReadTo + (Len(wire) + Len(x))
    BY <2>1 DEF StreamEnd
  <2> HIDE DEF w
  <2> QED
    BY <2>1, <2>2, <2>3
<1>5. /\ Len(f) \in Nat \ {0}
      /\ format = "proto" =>
           /\ Len(f) = PrefixLen + Len(b)
           /\ \A j \in 1 .. PrefixLen : f[j] = Prefix(Len(b))[j]
           /\ \A j \in 1 .. Len(b) : f[PrefixLen + j] = b[j]
      /\ format # "proto" => f = Append(b, Brace)
  BY <1>1, FrameType DEF Frame
<1>6. CASE Midway(s)
  <2>1. format = "proto" /\ Len(writes[s]) = 1 /\ h = b
    <3>1. format = "proto" /\ Len(writes[s]) = 1
      BY <1>6 DEF Midway
    <3>2. writes[s] # WritesOf(b)
      <4>1. WritesOf(b) = <<Prefix(Len(b)), b>>
        BY <1>1, <3>1, WritesOfType
      <4>2. Len(WritesOf(b)) = 2
        BY <4>1
      <4>3. writes[s] = WritesOf(b) => Len(writes[s]) = Len(WritesOf(b))
        OBVIOUS
      <4>4. Len(writes[s]) # Len(WritesOf(b))
        BY <3>1, <4>2
      <4> QED
        BY <4>3, <4>4
    <3> QED
      BY <1>1, <3>1, <3>2, FewWrites
  <2>2. /\ Begun(wire, n, b) /\ StreamEnd(wire) = E + PrefixLen
    BY <1>6 DEF Framed
  <2>3. /\ Fits(b) /\ (reader = "data" /\ Len(got) = n => need = Len(b))
        /\ Lies(wire, ReadTo, f, StreamEnd(wire) - E, E)
    BY <2>2 DEF Begun
  <2>4. StreamEnd(wire) - E = PrefixLen
    BY <1>4, <2>2
  <2>5. \A j \in 1 .. Len(x) : f[PrefixLen + j] = x[j]
    BY <1>2, <1>5, <2>1
  <2> HIDE DEF f, E, h
  <2>6. Lies(w, ReadTo, f, PrefixLen + Len(x), E)
    BY <1>1, <1>2, <1>4, <2>2, <2>3, <2>4, <2>5, LiesOnto
  <2>7. StreamEnd(w) - E = PrefixLen + Len(x)
    <3>1. E + PrefixLen + Len(x) - E = PrefixLen + Len(x)
      BY <1>4
    <3> QED
      BY <1>4, <2>2, <3>1
  <2>8. /\ PrefixLen + Len(x) \in 0 .. Len(f)
        /\ (x # h => PrefixLen + Len(x) # Len(f))
        /\ (x = h => PrefixLen + Len(x) = Len(f))
    <3>1. Len(f) = PrefixLen + Len(h) /\ Len(h) \in Nat /\ PrefixLen \in Nat
      BY <1>2, <1>4, <1>5, <2>1
    <3>2. Len(x) \in 0 .. Len(h) /\ (x # h => Len(x) < Len(h))
      BY <1>2
    <3> HIDE DEF f, h
    <3> QED
      BY <3>1, <3>2
  <2> HIDE DEF w, b
  <2> QED
    BY <1>1, <1>2, <1>3, <1>5, <2>1, <2>3, <2>6, <2>7, <2>8 DEF f, E, h, w, b
<1>7. CASE ~Midway(s)
  <2>1. writes[s] = WritesOf(b)
    BY <1>1, <1>7
  <2>2. Fits(b) /\ \A t \in Senders : ~Midway(t)
    BY <1>7, <1>1, WeightsType DEF Mixes, Fits
  <2>3. StreamEnd(wire) = E
    BY <2>2 DEF Framed
  <2>4. ~(reader = "data" /\ Len(got) = n)
    BY <1>1, <1>4, <2>3, Measures
  <2>5. Lies(wire, ReadTo, f, 0, E)
    BY <1>4, <2>3 DEF Lies
  <2>6. /\ \A j \in 1 .. Len(h) : f[j] = h[j]
        /\ IF format = "proto" THEN Len(h) = PrefixLen /\ Len(writes[s]) = 2
           ELSE h = f /\ Len(writes[s]) = 1
    <3>1. CASE format = "proto"
      <4>1. writes[s] = <<Prefix(Len(b)), b>>
        BY <1>1, <2>1, <3>1, WritesOfType
      <4>2. h = Prefix(Len(b)) /\ Len(writes[s]) = 2 /\ Len(Prefix(Len(b))) = PrefixLen
        BY <1>1, <4>1, FewWrites, PrefixType
      <4> QED
        BY <1>5, <3>1, <4>2
    <3>2. CASE format # "proto"
      <4>1. writes[s] = <<Append(b, Brace)>>
        BY <1>1, <2>1, <3>2, WritesOfType
      <4> QED
        BY <1>5, <3>2, <4>1, FewWrites
    <3> QED
      BY <3>1, <3>2
  <2>7. \A j \in 1 .. Len(x) : f[0 + j] = x[j]
    BY <1>2, <2>6
  <2> HIDE DEF f, E, h
  <2>8. Lies(w, ReadTo, f, 0 + Len(x), E)
    <3>1. E + 0 = ReadTo + Len(wire) /\ 0 \in Nat
      BY <1>4, <2>3
    <3> QED
      BY <1>1, <1>2, <1>4, <2>5, <2>7, <3>1, LiesOnto
  <2>9. StreamEnd(w) - E = Len(x) /\ 0 + Len(x) = Len(x)
    BY <1>4, <2>3
  <2>10. /\ Len(x) \in 0 .. Len(f)
         /\ (x # h => Len(x) # Len(f))
         /\ x = h => IF Len(writes[s]) = 1 THEN Len(x) = Len(f)
                     ELSE format = "proto" /\ Len(x) = PrefixLen /\ Len(x) < Len(f)
    <3>1. CASE format = "proto"
      <4>1. /\ Len(f) = PrefixLen + Len(b) /\ Len(h) = PrefixLen /\ Len(writes[s]) = 2
        BY <1>5, <2>6, <3>1
      <4>2. Len(h) < Len(f) /\ Len(f) \in Nat
        BY <1>1, <1>4, <4>1
      <4> QED
        BY <1>2, <3>1, <4>1, <4>2
    <3>2. CASE format # "proto"
      BY <1>2, <2>6, <3>2
    <3> QED
      BY <3>1, <3>2
  <2> HIDE DEF w, b
  <2> QED
    BY <1>1, <1>2, <1>3, <1>5, <2>2, <2>4, <2>8, <2>9, <2>10 DEF f, E, h, w, b
<1> QED
  BY <1>6, <1>7

\* A message sent more has its frame behind the others.
LEMMA OneMore ==
    ASSUME TypeOK, Received, NEW b \in Bodies, sent' = Append(sent, b),
           UNCHANGED <<format, got, reader>>
    PROVE  /\ Len(sent') = Len(sent) + 1 /\ sent'[Len(sent) + 1] = b
           /\ \A i \in 1 .. Len(sent) : sent'[i] = sent[i]
           /\ \A i \in 0 .. Len(sent) : FrameEnds'[i] = FrameEnds[i]
           /\ FrameEnds'[Len(sent) + 1] = FrameEnds[Len(sent)] + Len(Frame(format, b))
           /\ ReadTo' = ReadTo
<1>1. /\ Len(sent') = Len(sent) + 1 /\ sent'[Len(sent) + 1] = b
      /\ \A i \in 1 .. Len(sent) : sent'[i] = sent[i]
      /\ sent \in Seq(Bodies)
  BY DEF TypeOK
<1>2. FrameEnds' = EndsOf(format, Append(sent, b))
  BY DEF FrameEnds
<1>3. /\ \A i \in 0 .. Len(sent) : FrameEnds'[i] = FrameEnds[i]
      /\ FrameEnds'[Len(sent) + 1] = FrameEnds[Len(sent)] + Len(Frame(format, b))
  BY <1>1, <1>2, EndsAppend DEF FrameEnds
<1>4. ReadTo' = ReadTo
  BY <1>3, Measures DEF ReadTo
<1> QED
  BY <1>1, <1>3, <1>4

\* Where the frames and the reader are, when neither moves.
LEMMA Unmoved ==
    ASSUME UNCHANGED <<format, sent, got, reader>>
    PROVE  FrameEnds' = FrameEnds /\ ReadTo' = ReadTo
<1>1. FrameEnds' = FrameEnds
  BY DEF FrameEnds
<1> QED
  BY <1>1 DEF ReadTo

\* A Write (proto.go:65-70) that does not mix makes the stream longer by a piece
\* of a frame, and by a message sent when the frame is whole.
LEMMA WriteStep ==
    ASSUME FramingInv, NEW s \in Senders, Write(s), ~garbled', NEW b, b = body[s]
    PROVE  Unmixed' /\ Received' /\ InFrames'
<1> DEFINE h == Head(writes[s])
           w == wire \o h
<1>1. /\ TypeOK /\ Encoding /\ OwnFormat /\ Unmixed /\ Received /\ InFrames
      /\ ~garbled /\ ~Mixes(s) /\ ~fin /\ ~broken /\ writes[s] # <<>>
  BY DEF FramingInv, Write
<1>2. /\ UNCHANGED <<format, body, encodes, fin, decoderVars, broken>>
      /\ writes' = [writes EXCEPT ![s] = Tail(@)] /\ wire' = w
      /\ sent' = IF Len(writes[s]) = 1 THEN Append(sent, b) ELSE sent
  BY DEF Write
<1>3. /\ Fits(b) /\ b \in Bodies /\ h \in Seq(0 .. Base)
      /\ writes[s] \in Seq(Seq(0 .. Base)) /\ Len(writes[s]) \in Nat \ {0}
      /\ Len(Tail(writes[s])) = Len(writes[s]) - 1 /\ body'[s] = b
  <2>1. b \in Bodies /\ Len(b) \in Nat
    BY <1>1, FramingAssumption DEF Encoding
  <2>2. writes[s] \in Seq(Seq(0 .. Base))
    BY <1>1 DEF TypeOK
  <2> QED
    BY <1>1, <1>2, <2>1, <2>2, WeightsType DEF Mixes, Fits
<1>4. \A t \in Senders : t # s => ~Midway(t) /\ writes'[t] = writes[t]
  BY <1>1, <1>2 DEF Mixes, TypeOK
<1>5. writes'[s] = Tail(writes[s]) /\ Len(writes'[s]) = Len(writes[s]) - 1
  BY <1>1, <1>2, <1>3 DEF TypeOK
<1>6. Unmixed'
  <2>1. \A t \in Senders : Midway(t)' => t = s
    BY <1>2, <1>4 DEF Midway
  <2>2. \A i \in 1 .. Len(sent') : Fits(sent'[i])
    <3>1. sent \in Seq(Bodies) /\ \A i \in 1 .. Len(sent) : Fits(sent[i])
      BY <1>1 DEF Unmixed, TypeOK
    <3>2. CASE sent' = sent
      BY <3>1, <3>2
    <3>3. CASE sent' = Append(sent, b)
      BY <1>3, <3>1, <3>3
    <3> QED
      BY <1>2, <3>2, <3>3
  <2> QED
    BY <1>2, <1>3, <2>1, <2>2 DEF Unmixed, Fits
<1>7. Received'
  <2>1. /\ Len(sent) \in Nat /\ Len(got) \in Nat /\ Len(sent') >= Len(sent)
        /\ \A i \in 1 .. Len(sent) : sent'[i] = sent[i]
    BY <1>1, <1>2, <1>3 DEF TypeOK
  <2>2. got' = got /\ Len(got) <= Len(sent) /\ \A i \in 1 .. Len(got) : got[i] = sent[i]
    BY <1>1, <1>2 DEF Received, decoderVars
  <2> QED
    BY <2>1, <2>2 DEF Received
<1>8. ASSUME reader \in {"size", "data"}
      PROVE  \E n \in Len(got) .. Len(sent') : Framed(n)'
  <2>1. PICK n \in Len(got) .. Len(sent) : Framed(n)
    BY <1>1, <1>8 DEF InFrames
  <2>0. PICK E : E = FrameEnds[n]
    OBVIOUS
  <2> DEFINE f == Frame(format, b)
             part == StreamEnd(w) - E
  <2>2. h \in Prefixes(h)
    BY <1>3, WholePrefix
  <2>3. /\ n = Len(sent) /\ Intact(w, n) /\ Len(f) \in Nat
        /\ Lies(w, ReadTo, f, part, E) /\ part \in 0 .. Len(f)
        /\ reader = "data" /\ Len(got) = n => need = Len(b)
        /\ IF Len(writes[s]) = 1 THEN part = Len(f)
           ELSE format = "proto" /\ part = PrefixLen /\ part < Len(f)
    BY <1>1, <1>8, <2>0, <2>1, <2>2, Piece
  <2>4. /\ E \in Nat /\ ReadTo \in Nat /\ StreamEnd(w) \in Nat /\ Len(sent) \in Nat
        /\ Len(got) \in 0 .. n
    <3>1. w \in Seq(0 .. Base)
      BY <1>1, <1>3 DEF TypeOK
    <3> HIDE DEF w
    <3>2. Len(w) \in Nat /\ ReadTo \in Nat /\ StreamEnd(w) = ReadTo + Len(w)
      BY <1>1, <3>1, Measures DEF StreamEnd
    <3>3. Len(sent) \in Nat /\ Len(got) \in 0 .. n /\ n \in 0 .. Len(sent)
      BY <1>1, <2>3, Measures
    <3>4. E \in Nat
      BY <1>1, <2>0, <3>3, Measures
    <3> QED
      BY <3>2, <3>3, <3>4
  <2>5. StreamEnd(w) = E + part
    BY <2>3, <2>4
  <2>6. reader = "data" /\ Len(got) < n => need = Len(sent[Len(got) + 1])
    BY <2>1 DEF Framed
  <2> HIDE DEF h, w, f, part
  <2>7. CASE Len(writes[s]) = 1
    <3>1. /\ Len(sent') = n + 1 /\ sent'[n + 1] = b
          /\ \A i \in 1 .. n : sent'[i] = sent[i]
          /\ \A i \in 0 .. n : FrameEnds'[i] = FrameEnds[i]
          /\ FrameEnds'[n + 1] = E + Len(f) /\ ReadTo' = ReadTo
      BY <1>1, <1>2, <1>3, <2>3, <2>7, <2>0, OneMore DEF decoderVars, f
    <3>2. StreamEnd(wire)' = FrameEnds'[n + 1]
      BY <1>2, <2>3, <2>5, <2>7, <3>1 DEF StreamEnd
    <3>3. Intact(wire, n + 1)'
      <4> SUFFICES ASSUME NEW i \in Len(got) + 1 .. n + 1
                   PROVE  LET g == Frame(format, sent'[i])
                          IN  Lies(w, ReadTo, g, Len(g), FrameEnds'[i - 1])
        BY <1>2, <3>1 DEF Intact, decoderVars
      <4>1. CASE i = n + 1
        <5>1. sent'[i] = b /\ FrameEnds'[i - 1] = E
          BY <2>0, <2>4, <3>1, <4>1
        <5> QED
          BY <2>3, <2>7, <5>1 DEF f
      <4>2. CASE i # n + 1
        <5>1. i \in Len(got) + 1 .. n /\ i \in 1 .. n /\ i - 1 \in 0 .. n
          BY <2>3, <2>4, <4>2
        <5>2. sent'[i] = sent[i] /\ FrameEnds'[i - 1] = FrameEnds[i - 1]
          BY <3>1, <5>1
        <5> QED
          BY <2>3, <5>1, <5>2 DEF Intact
      <4> QED
        BY <4>1, <4>2
    <3>4. reader' = "data" /\ Len(got') < n + 1 => need' = Len(sent'[Len(got') + 1])
      <4>1. Len(got) < n => Len(got) + 1 \in 1 .. n
        BY <2>3, <2>4
      <4>2. Len(got) < n + 1 => Len(got) < n \/ Len(got) = n
        BY <2>3, <2>4
      <4> QED
        BY <1>2, <2>3, <2>6, <3>1, <4>1, <4>2 DEF decoderVars
    <3>5. \A t \in Senders : ~Midway(t)'
      <4> SUFFICES ASSUME NEW t \in Senders
                   PROVE  ~(format' = "proto" /\ Len(writes'[t]) = 1)
        BY DEF Midway
      <4>1. Len(writes'[s]) = 0
        BY <1>5, <2>7
      <4>2. CASE t = s
        <5>1. Len(writes'[t]) = 0
          BY <4>1, <4>2
        <5> QED
          BY <5>1
      <4>3. CASE t # s
        BY <1>2, <1>4, <4>3 DEF Midway
      <4> QED
        BY <4>2, <4>3
    <3>6. Framed(n + 1)'
      BY <3>1, <3>2, <3>3, <3>4, <3>5 DEF Framed, EndsAt
    <3>7. n + 1 \in Len(got) .. Len(sent')
      BY <2>3, <2>4, <3>1
    <3> QED
      BY <3>6, <3>7
  <2>8. CASE Len(writes[s]) # 1
    <3>1. sent' = sent /\ FrameEnds' = FrameEnds /\ ReadTo' = ReadTo
      BY <1>2, <2>8, Unmoved DEF decoderVars
    <3>2. StreamEnd(wire)' = E + PrefixLen /\ StreamEnd(wire)' = StreamEnd(w)
      BY <1>2, <2>3, <2>5, <2>8, <3>1 DEF StreamEnd
    <3>3. Intact(wire, n)'
      BY <1>2, <2>3, <3>1 DEF Intact, decoderVars
    <3>4. part \in 0 .. Len(f) - 1
      BY <2>3, <2>8
    <3>5. Begun(wire, n, b)'
      <4>1. StreamEnd(wire)' - FrameEnds'[n] = part /\ FrameEnds'[n] = E
        BY <2>0, <3>1, <3>2 DEF part
      <4>2. Lies(wire', ReadTo', Frame(format', b), part, FrameEnds'[n])
        BY <1>2, <2>0, <2>3, <3>1 DEF f
      <4>3. /\ b \in Bodies /\ (format' = "proto" => Len(b) < Limit)
            /\ part \in 0 .. Len(Frame(format', b)) - 1
            /\ reader' = "data" /\ Len(got') = n => need' = Len(b)
        BY <1>2, <1>3, <2>3, <3>4 DEF f, Fits, decoderVars
      <4> QED
        BY <4>1, <4>2, <4>3 DEF Begun, Fits
    <3>6. Midway(s)' /\ \A t \in Senders : Midway(t)' => t = s
      <4>1. Len(writes[s]) = 2
        <5>1. writes[s] = WritesOf(b)
          BY <1>1, <1>3, <2>8 DEF Encoding, Midway
        <5>2. WritesOf(b) = <<Prefix(Len(b)), b>>
          BY <1>1, <1>3, <2>3, <2>8, WritesOfType
        <5> QED
          BY <5>1, <5>2, FewWrites
      <4>2. format' = "proto" /\ Len(writes'[s]) = 1
        BY <1>2, <1>5, <2>3, <2>8, <4>1
      <4>3. ASSUME NEW t \in Senders, t # s
            PROVE  ~(format' = "proto" /\ Len(writes'[t]) = 1)
        BY <1>2, <1>4, <4>3 DEF Midway
      <4> QED
        BY <4>2, <4>3 DEF Midway
    <3>7. need' = need /\ reader' = reader /\ got' = got
      BY <1>2 DEF decoderVars
    <3>8. Framed(n)'
      <4>1. ~broken' => n = Len(sent')
        BY <2>3, <3>1
      <4>2. EndsAt(wire, n)'
        BY <1>3, <3>5 DEF EndsAt
      <4>3. reader' = "data" /\ Len(got') < n => need' = Len(sent'[Len(got') + 1])
        BY <2>6, <3>1, <3>7
      <4>4. \A t \in Senders : Midway(t)' =>
              Begun(wire, n, body[t])' /\ StreamEnd(wire)' = FrameEnds'[n] + PrefixLen
        <5> SUFFICES ASSUME NEW t \in Senders, Midway(t)'
                     PROVE  /\ Begun(wire, n, body[t])'
                            /\ StreamEnd(wire)' = FrameEnds'[n] + PrefixLen
          OBVIOUS
        <5>1. body'[t] = b
          BY <1>3, <3>6
        <5>2. Begun(wire, n, body[t])'
          BY <3>5, <5>1 DEF Begun, Fits
        <5> QED
          BY <2>0, <3>1, <3>2, <5>2
      <4> QED
        BY <3>3, <3>6, <4>1, <4>2, <4>3, <4>4 DEF Framed
    <3> QED
      BY <2>1, <3>1, <3>8
  <2> QED
    BY <2>7, <2>8
<1>9. InFrames'
  BY <1>2, <1>8 DEF InFrames, decoderVars
<1> QED
  BY <1>6, <1>7, <1>9

\* What a Close or the end of the session leaves of a Write is a part of a frame.
LEMMA PartStays ==
    ASSUME TypeOK, Encoding, OwnFormat, Unmixed, Received, reader \in {"size", "data"},
           NEW n \in Len(got) .. Len(sent), Framed(n),
           NEW c \in Cuts, ~c.mixes, c.part # <<>> => ~fin /\ ~broken
    PROVE  LET w == wire \o c.part
           IN  w \in Seq(0 .. Base) /\ Intact(w, n) /\ EndsAt(w, n)
<1> DEFINE w == wire \o c.part
<1>1. wire \in Seq(0 .. Base) /\ c.part \in Seq(0 .. Base) /\ w \in Seq(0 .. Base)
  BY CutsType DEF TypeOK
<1>2. CASE c.part = <<>>
  <2>1. w = wire
    BY <1>1, <1>2
  <2> QED
    BY <1>1, <2>1 DEF Framed
<1>3. CASE c.part # <<>>
  <2>1. PICK s \in Senders :
          /\ writes[s] # <<>> /\ ~Mixes(s)
          /\ c.part \in Prefixes(Head(writes[s])) /\ c.part # Head(writes[s])
    BY <1>3, CutsType
  <2> DEFINE f == Frame(format, body[s])
             part == StreamEnd(w) - FrameEnds[n]
  <2>2. /\ body[s] \in Bodies /\ Fits(body[s]) /\ Intact(w, n)
        /\ Len(f) \in Nat /\ Lies(w, ReadTo, f, part, FrameEnds[n])
        /\ reader = "data" /\ Len(got) = n => need = Len(body[s])
        /\ part \in 0 .. Len(f) /\ part # Len(f)
    BY <1>3, <2>1, Piece
  <2>3. part \in 0 .. Len(f) - 1
    BY <2>2
  <2> HIDE DEF w
  <2>4. Begun(w, n, body[s])
    BY <2>2, <2>3 DEF Begun
  <2> QED
    BY <1>1, <2>2, <2>4 DEF EndsAt, w
<1> QED
  BY <1>2, <1>3

\* A Close leaves a part of a frame at most behind the frames.
LEMMA CloseStep ==
    ASSUME FramingInv, Close, ~garbled'
    PROVE  Unmixed' /\ Received' /\ InFrames'
<1>1. /\ TypeOK /\ Encoding /\ OwnFormat /\ Unmixed /\ Received /\ InFrames /\ ~garbled
  BY DEF FramingInv, Close
<1>2. PICK c \in Cuts :
        ~c.mixes /\ wire' = wire \o c.part /\ (broken => c.part = <<>>)
  BY DEF Close
<1>3. ~fin /\ fin' /\ UNCHANGED <<format, writes, body, encodes, sent, decoderVars, broken>>
  BY DEF Close
<1>4. Unmixed' /\ Received'
  BY <1>1, <1>3 DEF Unmixed, Received, Midway, Fits, decoderVars
<1>5. ASSUME reader \in {"size", "data"}, NEW n \in Len(got) .. Len(sent), Framed(n)
      PROVE  Framed(n)'
  <2> DEFINE w == wire \o c.part
  <2>1. Intact(w, n) /\ EndsAt(w, n)
    BY <1>1, <1>2, <1>3, <1>5, PartStays
  <2>2. FrameEnds' = FrameEnds /\ ReadTo' = ReadTo /\ wire' = w
    BY <1>2, <1>3, Unmoved DEF decoderVars
  <2> HIDE DEF w
  <2>3. Intact(wire, n)'
    BY <1>3, <2>1, <2>2 DEF Intact, decoderVars
  <2>4. EndsAt(wire, n)'
    BY <1>3, <2>1, <2>2 DEF EndsAt, Begun, StreamEnd, Fits, decoderVars
  <2> QED
    BY <1>3, <1>5, <2>3, <2>4 DEF Framed, decoderVars
<1>6. InFrames'
  BY <1>1, <1>3, <1>5 DEF InFrames, decoderVars
<1> QED
  BY <1>4, <1>6

\* What is in front of a cut: whole frames, and a part of the one it is in.
LEMMA Cut ==
    ASSUME TypeOK, Received, reader \in {"size", "data"},
           NEW n \in Len(got) .. Len(sent), NEW w \in Seq(0 .. Base),
           Intact(w, n), EndsAt(w, n), \A i \in 1 .. Len(sent) : Fits(sent[i]),
           reader = "data" /\ Len(got) < n => need = Len(sent[Len(got) + 1]),
           NEW l \in 0 .. Len(w)
    PROVE  LET v == SubSeq(w, 1, l)
           IN  \E m \in Len(got) .. n :
                 /\ Intact(v, m) /\ EndsAt(v, m)
                 /\ reader = "data" /\ Len(got) < m => need = Len(sent[Len(got) + 1])
<1> DEFINE v == SubSeq(w, 1, l)
           at(i) == FrameEnds[i]
<1>0. PICK g, end, top : g = Len(got) /\ end = ReadTo + l /\ top = StreamEnd(w)
  OBVIOUS
<1>1. /\ g \in Nat /\ n \in Nat /\ g <= n /\ n <= Len(sent) /\ Len(sent) \in Nat
  BY <1>0, Measures
<1>2. \A i \in 0 .. n : at(i) \in Nat
  <2>1. \A i \in 0 .. n : i \in 0 .. Len(sent)
    BY <1>1
  <2>2. FrameEnds \in [0 .. Len(sent) -> Nat]
    BY Measures
  <2> QED
    BY <2>1, <2>2
<1>3. v \in Seq(0 .. Base) /\ Len(v) = l /\ l \in Nat /\ Len(w) \in Nat /\ l <= Len(w)
  <2>1. v \in Seq(0 .. Base) /\ Len(v) = l /\ l \in Nat /\ Len(w) \in Nat
    BY BeginningType
  <2> HIDE DEF v
  <2> QED
    BY <2>1
<1> HIDE DEF v
<1>4. /\ end \in Nat /\ top \in Nat /\ end <= top /\ StreamEnd(v) = end /\ ReadTo \in Nat
  <2>1. ReadTo \in Nat
    BY Measures
  <2>2. end = ReadTo + l /\ top = ReadTo + Len(w) /\ StreamEnd(v) = ReadTo + Len(v)
    BY <1>0 DEF StreamEnd
  <2> QED
    BY <1>3, <2>1, <2>2
<1>5. at(g) <= end
  <2>1. PrefixLen \in Nat /\ ReadTo = at(g) + (IF reader = "data" THEN PrefixLen ELSE 0)
    BY <1>0, Measures
  <2>2. at(g) \in Nat
    BY <1>1, <1>2
  <2> HIDE DEF at
  <2> QED
    BY <1>0, <1>3, <2>1, <2>2
<1>6. ASSUME NEW i \in g + 1 .. n
      PROVE  /\ at(i) = at(i - 1) + Len(Frame(format, sent[i]))
             /\ Len(Frame(format, sent[i])) \in Nat
             /\ at(i) \in Nat /\ at(i - 1) \in Nat
             /\ sent[i] \in Bodies /\ Fits(sent[i])
             /\ Lies(w, ReadTo, Frame(format, sent[i]), Len(Frame(format, sent[i])), at(i - 1))
  <2>1. i \in 1 .. Len(sent) /\ i \in 0 .. n /\ i - 1 \in 0 .. n /\ i \in Len(got) + 1 .. n
    BY <1>0, <1>1
  <2> QED
    BY <1>2, <2>1, Measures DEF Intact
<1> HIDE DEF at
<1>7. ASSUME NEW m \in g .. n, \A i \in g + 1 .. m : at(i) <= end
      PROVE  /\ Intact(v, m)
             /\ reader = "data" /\ Len(got) < m => need = Len(sent[Len(got) + 1])
  <2>1. ASSUME NEW i \in g + 1 .. m
        PROVE  LET f == Frame(format, sent[i])
               IN  Lies(v, ReadTo, f, Len(f), at(i - 1))
    <3> DEFINE f == Frame(format, sent[i])
    <3>1. i \in g + 1 .. n
      BY <1>1
    <3>2. /\ at(i) = at(i - 1) + Len(f) /\ Len(f) \in Nat /\ at(i - 1) \in Nat
          /\ Lies(w, ReadTo, f, Len(f), at(i - 1))
      BY <1>6, <3>1
    <3> HIDE DEF f
    <3>3. at(i - 1) + Len(f) <= ReadTo + l /\ Len(f) \in 0 .. Len(f)
      BY <1>0, <1>7, <3>2
    <3>4. Lies(v, ReadTo, f, Len(f), at(i - 1))
      BY <1>4, <3>2, <3>3, LiesCut DEF v
    <3> QED
      BY <3>4 DEF f
  <2>2. g < m => g < n
    BY <1>1
  <2> QED
    BY <1>0, <2>1, <2>2 DEF Intact, at
<1> DEFINE P == {i \in g + 1 .. n : ~(at(i) <= end)}
<1>8. CASE P = {}
  <2>1. \A i \in g + 1 .. n : at(i) <= end
    BY <1>8
  <2>2. n \in g .. n /\ (n = g \/ n \in g + 1 .. n) /\ at(n) \in Nat
    BY <1>1, <1>2
  <2>3. at(n) <= end
    BY <1>5, <2>1, <2>2
  <2>4. EndsAt(v, n)
    <3>1. CASE top = at(n)
      <4>1. end = at(n)
        BY <1>4, <2>2, <2>3, <3>1
      <4> QED
        BY <1>4, <4>1 DEF EndsAt, at
    <3>2. CASE top # at(n)
      <4>1. PICK b \in Bodies : Begun(w, n, b)
        BY <1>0, <3>2 DEF EndsAt, at
      <4> DEFINE f == Frame(format, b)
      <4>2. /\ Fits(b) /\ top - at(n) \in 0 .. Len(f) - 1
            /\ Lies(w, ReadTo, f, top - at(n), at(n))
            /\ reader = "data" /\ Len(got) = n => need = Len(b)
        BY <1>0, <4>1 DEF Begun, at
      <4> HIDE DEF f
      <4>3. /\ end - at(n) \in 0 .. top - at(n) /\ top - at(n) \in Nat
            /\ at(n) + (end - at(n)) = end
        BY <1>4, <2>2, <2>3
      <4>4. Lies(v, ReadTo, f, end - at(n), at(n))
        <5>1. at(n) + (end - at(n)) <= ReadTo + l
          BY <1>0, <1>4, <4>3
        <5> QED
          BY <1>4, <2>2, <4>2, <4>3, <5>1, LiesCut DEF v
      <4>5. end - at(n) \in 0 .. Len(f) - 1
        BY <4>2, <4>3
      <4>6. Begun(v, n, b)
        BY <1>4, <4>1, <4>2, <4>4, <4>5 DEF Begun, f, at
      <4> QED
        BY <4>6 DEF EndsAt
    <3> QED
      BY <3>1, <3>2
  <2> QED
    BY <1>0, <1>7, <2>1, <2>2, <2>4 DEF v
<1>9. CASE P # {}
  <2>1. P \in SUBSET (1 .. n)
    BY <1>1
  <2>2. PICK i \in P : \A j \in P : i <= j
    BY <1>1, <1>9, <2>1, Least
  <2>3. i \in g + 1 .. n /\ ~(at(i) <= end)
    OBVIOUS
  <2>4. PICK m \in g .. n : m = i - 1 /\ i = m + 1 /\ m \in Nat
    BY <1>1, <2>3
  <2>5. \A j \in g + 1 .. m : at(j) <= end
    <3> SUFFICES ASSUME NEW j \in g + 1 .. m, ~(at(j) <= end)
                 PROVE  FALSE
      OBVIOUS
    <3>1. j \in g + 1 .. n /\ ~(i <= j)
      BY <1>1, <2>3, <2>4
    <3> QED
      BY <2>2, <3>1
  <2> HIDE DEF P
  <2>6. at(m) <= end
    <3>1. m = g \/ m \in g + 1 .. m
      BY <1>1, <2>4
    <3> QED
      BY <1>5, <2>5, <3>1
  <2> DEFINE b == sent[i]
             f == Frame(format, b)
  <2>7. /\ at(i) = at(m) + Len(f) /\ Len(f) \in Nat /\ at(i) \in Nat /\ at(m) \in Nat
        /\ b \in Bodies /\ Fits(b) /\ Lies(w, ReadTo, f, Len(f), at(m))
    BY <1>6, <2>3, <2>4
  <2> HIDE DEF b, f
  <2>8. /\ end - at(m) \in 0 .. Len(f) - 1 /\ end - at(m) \in 0 .. Len(f)
        /\ at(m) + (end - at(m)) = end
    <3>1. PICK am, lf : am = at(m) /\ lf = Len(f)
      OBVIOUS
    <3>2. am \in Nat /\ lf \in Nat /\ end \in Nat /\ am <= end /\ ~(am + lf <= end)
      BY <1>4, <2>3, <2>6, <2>7, <3>1
    <3>3. end - am \in 0 .. lf - 1 /\ end - am \in 0 .. lf /\ am + (end - am) = end
      BY <3>2
    <3> QED
      BY <3>1, <3>3
  <2>9. reader = "data" /\ Len(got) = m => need = Len(b)
    <3>1. Len(got) = m => Len(got) < n /\ Len(got) + 1 = i
      BY <1>1, <2>3, <2>4
    <3> QED
      BY <3>1 DEF b
  <2>10. Lies(v, ReadTo, f, end - at(m), at(m))
    <3>1. at(m) + (end - at(m)) <= ReadTo + l
      BY <1>0, <1>4, <2>8
    <3> QED
      BY <1>4, <2>7, <2>8, <3>1, LiesCut DEF v
  <2>11. EndsAt(v, m)
    <3>1. Begun(v, m, b)
      BY <1>4, <2>7, <2>8, <2>9, <2>10 DEF Begun, f, at
    <3> QED
      BY <2>7, <3>1 DEF EndsAt
  <2> QED
    BY <1>0, <1>7, <2>5, <2>11 DEF v
<1> QED
  BY <1>8, <1>9

\* The end of the session leaves the frames in front of it, and a part of one.
LEMMA BreakStep ==
    ASSUME FramingInv, Break, ~garbled'
    PROVE  Unmixed' /\ Received' /\ InFrames'
<1>1. /\ TypeOK /\ Encoding /\ OwnFormat /\ Unmixed /\ Received /\ InFrames /\ ~garbled
  BY DEF FramingInv, Break
<1>2. PICK c \in Cuts :
        ~c.mixes /\ wire' \in Prefixes(wire \o c.part) /\ (fin => c.part = <<>>)
  BY DEF Break
<1>3. ~broken /\ broken' /\ UNCHANGED <<format, writes, body, encodes, fin, sent, decoderVars>>
  BY DEF Break
<1>4. Unmixed' /\ Received'
  BY <1>1, <1>3 DEF Unmixed, Received, Midway, Fits, decoderVars
<1>5. ASSUME reader \in {"size", "data"}, NEW n \in Len(got) .. Len(sent), Framed(n)
      PROVE  \E m \in Len(got) .. Len(sent) : Framed(m)'
  <2> DEFINE w == wire \o c.part
  <2>1. w \in Seq(0 .. Base) /\ Intact(w, n) /\ EndsAt(w, n)
    BY <1>1, <1>2, <1>3, <1>5, PartStays
  <2>2. FrameEnds' = FrameEnds /\ ReadTo' = ReadTo
    BY <1>3, Unmoved DEF decoderVars
  <2>3. PICK l \in 0 .. Len(w) : wire' = SubSeq(w, 1, l)
    BY <1>2 DEF Prefixes
  <2>4. /\ reader = "data" /\ Len(got) < n => need = Len(sent[Len(got) + 1])
        /\ \A i \in 1 .. Len(sent) : Fits(sent[i])
    BY <1>1, <1>5 DEF Framed, Unmixed
  <2> DEFINE v == SubSeq(w, 1, l)
  <2> HIDE DEF w
  <2>5. PICK m \in Len(got) .. n :
          /\ Intact(v, m) /\ EndsAt(v, m)
          /\ reader = "data" /\ Len(got) < m => need = Len(sent[Len(got) + 1])
    BY <1>1, <1>5, <2>1, <2>4, Cut
  <2> HIDE DEF v
  <2>6. wire' = v
    BY <2>3 DEF v
  <2>7. Intact(wire, m)'
    BY <1>3, <2>2, <2>5, <2>6 DEF Intact, decoderVars
  <2>8. EndsAt(wire, m)'
    BY <1>3, <2>2, <2>5, <2>6 DEF EndsAt, Begun, StreamEnd, Fits, decoderVars
  <2>9. Framed(m)'
    BY <1>3, <2>5, <2>7, <2>8 DEF Framed, decoderVars
  <2>10. m \in Len(got) .. Len(sent)
    BY <1>1, <1>5, <2>5, Measures
  <2> QED
    BY <2>9, <2>10
<1>6. InFrames'
  BY <1>1, <1>3, <1>5 DEF InFrames, decoderVars
<1> QED
  BY <1>4, <1>6

\* What Decode takes off the stream moves the reader in the frames, not these.
LEMMA Reads ==
    ASSUME TypeOK, Received, NEW n \in Len(got) .. Len(sent), Framed(n),
           NEW k \in 0 .. Len(wire), Take(k), UNCHANGED <<format, encoderVars, broken>>,
           Len(got') \in Len(got) .. n, ReadTo' = ReadTo + k,
           \A b : Begun(wire, n, b) /\ reader' = "data" /\ Len(got') = n => need' = Len(b),
           reader' = "data" /\ Len(got') < n => need' = Len(sent[Len(got') + 1])
    PROVE  Framed(n)'
<1> DEFINE v == SubSeq(wire, k + 1, Len(wire))
<1>1. /\ wire \in Seq(0 .. Base) /\ v \in Seq(0 .. Base) /\ Len(v) = Len(wire) - k
      /\ Len(wire) \in Nat
  BY TakenOff DEF TypeOK
<1>2. wire' = v
  BY DEF Take
<1> HIDE DEF v
<1>3. PICK r, g, h, top :
        r = ReadTo /\ g = Len(got) /\ h = Len(got') /\ top = StreamEnd(wire)
  OBVIOUS
<1>4. /\ r \in Nat /\ g \in Nat /\ n \in Nat /\ h \in Nat /\ g <= h /\ h <= n
      /\ n <= Len(sent) /\ Len(sent) \in Nat /\ top = r + Len(wire)
  BY <1>3, Measures
<1>5. FrameEnds' = FrameEnds /\ StreamEnd(wire)' = top
  <2>1. FrameEnds' = FrameEnds
    BY DEF FrameEnds, encoderVars
  <2>2. StreamEnd(wire)' = ReadTo' + Len(v)
    BY <1>2 DEF StreamEnd
  <2>3. ReadTo' = r + k
    BY <1>3
  <2>4. Len(wire) \in Nat /\ k \in Nat /\ r \in Nat
    BY <1>1, <1>4
  <2>5. r + k + (Len(wire) - k) = r + Len(wire)
    BY <2>4
  <2> QED
    BY <1>1, <1>4, <2>1, <2>2, <2>3, <2>5
<1>6. \A f, m, a : m \in Nat /\ a \in Nat /\ Lies(wire, ReadTo, f, m, a)
         => Lies(wire', ReadTo', f, m, a)
  BY <1>1, <1>2, <1>3, <1>4, LiesRead DEF v
<1>7. Intact(wire, n)'
  <2> SUFFICES ASSUME NEW i \in h + 1 .. n
               PROVE  LET f == Frame(format, sent[i])
                      IN  Lies(wire', ReadTo', f, Len(f), FrameEnds[i - 1])
    BY <1>3, <1>5 DEF Intact, encoderVars
  <2> DEFINE f == Frame(format, sent[i])
  <2>1. i \in Len(got) + 1 .. n /\ i \in 1 .. Len(sent) /\ i - 1 \in 0 .. Len(sent)
    BY <1>3, <1>4
  <2>2. Len(f) \in Nat /\ FrameEnds[i - 1] \in Nat
    BY <2>1, Measures
  <2>3. Lies(wire, ReadTo, f, Len(f), FrameEnds[i - 1])
    BY <2>1 DEF Framed, Intact
  <2> HIDE DEF f
  <2>4. Lies(wire', ReadTo', f, Len(f), FrameEnds[i - 1])
    BY <1>6, <2>2, <2>3
  <2> QED
    BY <2>4 DEF f
<1>8. ASSUME NEW b, Begun(wire, n, b)
      PROVE  /\ top - FrameEnds[n] \in 0 .. Len(Frame(format, b)) - 1 /\ b \in Bodies
             /\ Fits(b) /\ Lies(wire', ReadTo', Frame(format, b), top - FrameEnds[n], FrameEnds[n])
             /\ reader' = "data" /\ Len(got') = n => need' = Len(b)
  <2>1. FrameEnds[n] \in Nat
    BY <1>4, Measures
  <2>2. /\ top - FrameEnds[n] \in 0 .. Len(Frame(format, b)) - 1
        /\ b \in Bodies /\ Fits(b)
        /\ Lies(wire, ReadTo, Frame(format, b), top - FrameEnds[n], FrameEnds[n])
    BY <1>3, <1>8 DEF Begun
  <2>3. top - FrameEnds[n] \in Nat
    BY <2>2
  <2> QED
    BY <1>6, <1>8, <2>1, <2>2, <2>3
<1>9. \A b : Begun(wire, n, b) =>
        /\ b \in Bodies /\ (format' = "proto" => Len(b) < Limit)
        /\ LET part == StreamEnd(wire)' - FrameEnds'[n]
           IN  /\ part \in 0 .. Len(Frame(format', b)) - 1
               /\ Lies(wire', ReadTo', Frame(format', b), part, FrameEnds'[n])
        /\ reader' = "data" /\ Len(got') = n => need' = Len(b)
  BY <1>5, <1>8 DEF Fits
<1>10. \A b : Begun(wire, n, b) => Begun(wire, n, b)'
  BY <1>9 DEF Begun, Fits
<1>11. EndsAt(wire, n)'
  <2>1. top = FrameEnds[n] \/ \E b \in Bodies : Begun(wire, n, b)
    BY <1>3 DEF Framed, EndsAt
  <2> QED
    BY <1>5, <1>10, <2>1 DEF EndsAt
<1>12. ~fin /\ ~broken =>
         /\ \A s \in Senders : Midway(s) =>
              Begun(wire, n, body[s]) /\ top = FrameEnds[n] + PrefixLen
         /\ (\A s \in Senders : ~Midway(s)) => top = FrameEnds[n]
  BY <1>3 DEF Framed
<1>13. ~broken => n = Len(sent)
  BY DEF Framed
<1>14. /\ UNCHANGED <<format, writes, body, fin, sent, broken>>
       /\ \A s \in Senders : Midway(s)' <=> Midway(s)
  BY DEF encoderVars, Midway
<1>15. ASSUME NEW s \in Senders, Begun(wire, n, body[s])
       PROVE  Begun(wire, n, body[s])'
  <2>1. PICK b : b = body[s]
    OBVIOUS
  <2>2. Begun(wire, n, b)' /\ body'[s] = b
    BY <1>10, <1>14, <1>15, <2>1
  <2> QED
    BY <2>2 DEF Begun, Fits
<1> QED
  BY <1>5, <1>7, <1>11, <1>12, <1>13, <1>14, <1>15 DEF Framed

\* The length in front of a message tells how long it is.
LEMMA HeadTells ==
    ASSUME NEW w \in Seq(Byte), NEW r \in Nat, NEW b \in Bodies, Len(b) < Limit,
           NEW m \in Nat, PrefixLen <= m, Lies(w, r, Frame("proto", b), m, r)
    PROVE  SizeOf(SubSeq(w, 1, PrefixLen)) = Len(b)
<1> DEFINE p == SubSeq(w, 1, PrefixLen)
           q == Prefix(Len(b))
<1>1. PrefixLen \in Nat \ {0} /\ b \in Seq(Byte) /\ Len(b) \in Nat /\ Len(w) \in Nat
  BY WeightsType, FramingAssumption
<1>2. /\ r + m <= r + Len(w)
      /\ \A j \in 1 .. m : r + j > r => w[r + j - r] = Frame("proto", b)[j]
  BY DEF Lies
<1>3. \A j \in 1 .. PrefixLen : w[j] = q[j]
  <2> TAKE j \in 1 .. PrefixLen
  <2>1. j \in 1 .. m /\ r + j > r /\ r + j - r = j
    BY <1>1
  <2>2. Frame("proto", b)[j] = q[j]
    BY <1>1, FrameType
  <2> QED
    BY <1>2, <2>1, <2>2
<1>4. PrefixLen \in 0 .. Len(w)
  BY <1>1, <1>2
<1>5. p \in Seq(Byte) /\ Len(p) = PrefixLen /\ \A j \in 1 .. PrefixLen : p[j] = w[j]
  BY <1>4, TakeType
<1>6. q \in Seq(Byte) /\ Len(q) = PrefixLen
  BY <1>1, PrefixType
<1> HIDE DEF p, q
<1>7. p = q
  BY <1>3, <1>5, <1>6
<1> QED
  BY <1>1, <1>7, SizeOfPrefix DEF p, q

\* The next message the reader takes lies on the stream.
LEMMA NextFrame ==
    ASSUME TypeOK, Unmixed, Received, NEW n \in Len(got) .. Len(sent), Framed(n),
           NEW g, g = Len(got), g < n
    PROVE  LET b == sent[g + 1]
               f == Frame(format, b)
           IN  /\ b \in Bodies /\ b \in Seq(Byte) /\ Fits(b) /\ Len(b) \in Nat
               /\ FrameEnds[g] \in Nat /\ FrameEnds[g + 1] \in Nat
               /\ FrameEnds[g + 1] = FrameEnds[g] + Len(f)
               /\ Lies(wire, ReadTo, f, Len(f), FrameEnds[g])
               /\ reader = "data" => need = Len(b)
<1>1. PICK i : i = g + 1
  OBVIOUS
<1>2. /\ i \in Len(got) + 1 .. n /\ i \in 1 .. Len(sent) /\ i \in 0 .. Len(sent)
      /\ i - 1 = g /\ g \in 0 .. Len(sent)
  <2>1. g \in Nat /\ n \in Nat /\ g < n /\ n <= Len(sent) /\ Len(sent) \in Nat
    BY Measures
  <2> QED
    BY <1>1, <2>1
<1>3. /\ sent[i] \in Bodies /\ sent[i] \in Seq(Byte) /\ Fits(sent[i]) /\ Len(sent[i]) \in Nat
      /\ FrameEnds[i] = FrameEnds[i - 1] + Len(Frame(format, sent[i]))
  <2>1. /\ sent[i] \in Bodies /\ sent[i] \in Seq(Byte)
        /\ FrameEnds[i] = FrameEnds[i - 1] + Len(Frame(format, sent[i]))
    BY <1>2, Measures
  <2>2. Fits(sent[i])
    BY <1>2 DEF Unmixed
  <2>3. Len(sent[i]) \in Nat
    BY <2>1
  <2> QED
    BY <2>1, <2>2, <2>3
<1>4. FrameEnds[g] \in Nat /\ FrameEnds[i] \in Nat
  BY <1>2, Measures
<1>5. Lies(wire, ReadTo, Frame(format, sent[i]), Len(Frame(format, sent[i])), FrameEnds[i - 1])
  BY <1>2 DEF Framed, Intact
<1>6. reader = "data" => need = Len(sent[i])
  BY <1>1 DEF Framed
<1> QED
  BY <1>1, <1>2, <1>3, <1>4, <1>5, <1>6

\* The length read (proto.go:80-84) is that of the next message, whether this is
\* on the stream as a whole or not.
LEMMA DecodeSizeStep ==
    ASSUME FramingInv, DecodeSize, ~garbled'
    PROVE  Unmixed' /\ Received' /\ InFrames'
<1>1. /\ TypeOK /\ Unmixed /\ Received /\ InFrames /\ wire \in Seq(Byte)
      /\ format = "proto" /\ reader = "size" /\ Len(wire) \in Nat /\ PrefixLen <= Len(wire)
      /\ PrefixLen \in Nat \ {0}
  BY WeightsType DEF FramingInv, DecodeSize, encoderVars, OwnFormat
<1>2. /\ Take(PrefixLen) /\ UNCHANGED <<format, encoderVars, got, broken>>
      /\ reader' = "data" /\ need' = SizeOf(SubSeq(wire, 1, PrefixLen))
  BY DEF DecodeSize
<1>3. Unmixed' /\ Received'
  BY <1>1, <1>2 DEF Unmixed, Received, Midway, Fits, encoderVars
<1>4. PICK n \in Len(got) .. Len(sent) : Framed(n)
  BY <1>1 DEF InFrames
<1>5. PICK g, r : g = Len(got) /\ r = ReadTo
  OBVIOUS
<1>6. /\ g \in Nat /\ g <= n /\ n \in Nat /\ n <= Len(sent) /\ Len(sent) \in Nat
      /\ r \in Nat /\ r = FrameEnds[g] /\ StreamEnd(wire) = r + Len(wire)
  BY <1>1, <1>5, Measures
<1>7. ASSUME NEW b \in Bodies, Fits(b), NEW m \in Nat, PrefixLen <= m,
             Lies(wire, r, Frame(format, b), m, r)
      PROVE  need' = Len(b)
  BY <1>1, <1>2, <1>6, <1>7, HeadTells DEF Fits
<1>8. ASSUME NEW b, Begun(wire, n, b), g = n
      PROVE  need' = Len(b)
  <2>0. StreamEnd(wire) - FrameEnds[n] = r + Len(wire) - r /\ FrameEnds[n] = r
    BY <1>6, <1>8
  <2>1. /\ b \in Bodies /\ Fits(b)
        /\ Lies(wire, r, Frame(format, b), r + Len(wire) - r, r)
    BY <1>5, <1>8, <2>0 DEF Begun
  <2>2. r + Len(wire) - r = Len(wire)
    BY <1>1, <1>6
  <2> QED
    BY <1>1, <1>7, <2>1, <2>2
<1>9. ASSUME g < n
      PROVE  need' = Len(sent[g + 1])
  <2> DEFINE b == sent[g + 1]
             f == Frame(format, b)
  <2>2. b \in Bodies /\ Fits(b) /\ b \in Seq(Byte) /\ Lies(wire, ReadTo, f, Len(f), FrameEnds[g])
    BY <1>1, <1>4, <1>5, <1>9, NextFrame
  <2> HIDE DEF b
  <2>4. Lies(wire, r, f, Len(f), r)
    BY <1>5, <1>6, <2>2
  <2>5. Len(f) = PrefixLen + Len(b) /\ Len(b) \in Nat
    BY <1>1, <2>2, FrameType
  <2>6. Len(f) \in Nat /\ PrefixLen <= Len(f)
    BY <1>1, <2>5
  <2> HIDE DEF f
  <2>7. need' = Len(b)
    BY <1>7, <2>2, <2>4, <2>6 DEF f
  <2> QED
    BY <2>7 DEF b
<1>10. ReadTo' = ReadTo + PrefixLen
  <2>1. FrameEnds' = FrameEnds
    BY <1>2 DEF FrameEnds, encoderVars
  <2>2. ReadTo' = FrameEnds[g] + PrefixLen
    BY <1>2, <1>5, <2>1 DEF ReadTo
  <2> QED
    BY <1>5, <1>6, <2>2
<1>11. Framed(n)'
  <2>1. PrefixLen \in 0 .. Len(wire) /\ Len(got') = g /\ g \in g .. n
    BY <1>1, <1>2, <1>5, <1>6
  <2>2. \A b : Begun(wire, n, b) /\ reader' = "data" /\ Len(got') = n => need' = Len(b)
    BY <1>8, <2>1
  <2>3. reader' = "data" /\ Len(got') < n => need' = Len(sent[Len(got') + 1])
    BY <1>9, <2>1
  <2> QED
    BY <1>1, <1>2, <1>4, <1>5, <1>10, <2>1, <2>2, <2>3, Reads
<1>12. InFrames'
  BY <1>2, <1>4, <1>11 DEF InFrames, encoderVars
<1> QED
  BY <1>3, <1>12

\* A message taken off whole is the next one.
LEMMA OneReceived ==
    ASSUME TypeOK, Unmixed, Received, NEW n \in Len(got) .. Len(sent), Framed(n),
           Len(got) < n, NEW k \in 0 .. Len(wire), Take(k),
           UNCHANGED <<format, encoderVars, broken>>,
           FrameEnds[Len(got) + 1] = ReadTo + k,
           got' = Append(got, sent[Len(got) + 1]), reader' = "size"
    PROVE  Unmixed' /\ Received' /\ InFrames'
<1>1. PICK g : g = Len(got)
  OBVIOUS
<1>2. /\ g \in Nat /\ n \in Nat /\ g < n /\ n <= Len(sent) /\ Len(sent) \in Nat
  BY <1>1, Measures
<1>3. /\ Len(got') = g + 1 /\ \A i \in 1 .. g : got'[i] = got[i]
      /\ got'[g + 1] = sent[g + 1]
  BY <1>1 DEF TypeOK
<1>4. Unmixed'
  BY DEF Unmixed, Midway, Fits, encoderVars
<1>5. Received'
  <2>1. \A i \in 1 .. g : got[i] = sent[i]
    BY <1>1 DEF Received
  <2>2. \A i \in 1 .. g + 1 : got'[i] = sent[i]
    <3> TAKE i \in 1 .. g + 1
    <3>1. i \in 1 .. g \/ i = g + 1
      BY <1>2
    <3> QED
      BY <1>3, <2>1, <3>1
  <2>3. g + 1 <= Len(sent)
    BY <1>2
  <2> QED
    BY <1>3, <2>2, <2>3 DEF Received, encoderVars
<1>6. ReadTo' = ReadTo + k
  <2>1. FrameEnds' = FrameEnds
    BY DEF FrameEnds, encoderVars
  <2>2. FrameEnds[g + 1] \in Nat
    BY <1>1, <1>2, NextFrame
  <2>3. ReadTo' = FrameEnds[g + 1] + 0
    BY <1>3, <2>1 DEF ReadTo
  <2> QED
    BY <1>1, <2>2, <2>3
<1>7. Len(got') \in Len(got) .. n /\ n \in Len(got') .. Len(sent')
  BY <1>1, <1>2, <1>3 DEF encoderVars
<1>8. Framed(n)'
  BY <1>6, <1>7, Reads
<1> QED
  BY <1>4, <1>5, <1>7, <1>8 DEF InFrames

\* The data read (proto.go:87-91) is the next message sent.
LEMMA DecodeDataStep ==
    ASSUME FramingInv, DecodeData, ~garbled'
    PROVE  Unmixed' /\ Received' /\ InFrames'
<1>1. /\ TypeOK /\ Unmixed /\ Received /\ InFrames /\ wire \in Seq(0 .. Base)
      /\ format = "proto" /\ reader = "data" /\ Len(wire) \in Nat /\ need <= Len(wire)
      /\ PrefixLen \in Nat \ {0} /\ need \in Nat
  BY WeightsType DEF FramingInv, DecodeData, encoderVars, TypeOK
<1>2. /\ Take(need) /\ UNCHANGED <<format, encoderVars, broken>>
      /\ Unmarshal(SubSeq(wire, 1, need))
  BY DEF DecodeData
<1>3. PICK n \in Len(got) .. Len(sent) : Framed(n)
  BY <1>1 DEF InFrames
<1>4. PICK g, r, e : g = Len(got) /\ r = ReadTo /\ e = FrameEnds[g]
  OBVIOUS
<1>5. /\ g \in Nat /\ g <= n /\ n \in Nat /\ n <= Len(sent) /\ Len(sent) \in Nat
      /\ r \in Nat /\ e \in Nat /\ r = e + PrefixLen /\ StreamEnd(wire) = r + Len(wire)
  <2>1. /\ g \in Nat /\ g <= n /\ n \in Nat /\ n <= Len(sent) /\ Len(sent) \in Nat
        /\ r \in Nat /\ r = e + PrefixLen /\ StreamEnd(wire) = r + Len(wire)
    BY <1>1, <1>4, Measures
  <2>2. g \in 0 .. Len(sent)
    BY <1>1, <1>4, Measures
  <2>3. FrameEnds[g] \in Nat
    BY <1>1, <2>2, Measures
  <2> QED
    BY <1>4, <2>1, <2>3
<1>6. g < n
  <2> SUFFICES ASSUME g = n
               PROVE  FALSE
    BY <1>5
  <2>1. StreamEnd(wire) # FrameEnds[n]
    <3>1. r + Len(wire) # e
      BY <1>1, <1>5
    <3> QED
      BY <1>4, <1>5, <3>1
  <2>2. PICK b \in Bodies : Begun(wire, n, b)
    BY <1>3, <2>1 DEF Framed, EndsAt
  <2>3. need = Len(b) /\ r + Len(wire) - e \in 0 .. Len(Frame(format, b)) - 1
    <3>1. /\ StreamEnd(wire) - FrameEnds[n] \in 0 .. Len(Frame(format, b)) - 1
          /\ reader = "data" /\ Len(got) = n => need = Len(b)
      BY <2>2 DEF Begun
    <3>2. StreamEnd(wire) - FrameEnds[n] = r + Len(wire) - e
      BY <1>4, <1>5
    <3> QED
      BY <1>1, <1>4, <3>1, <3>2
  <2>4. Len(Frame(format, b)) = PrefixLen + Len(b) /\ Len(b) \in Nat
    BY <1>1, FrameType, FramingAssumption
  <2> QED
    BY <1>1, <1>5, <2>3, <2>4
<1> DEFINE b == sent[g + 1]
           f == Frame(format, b)
<1>8. /\ b \in Bodies /\ b \in Seq(Byte) /\ Len(b) \in Nat
      /\ need = Len(b) /\ FrameEnds[g + 1] = e + Len(f) /\ Lies(wire, r, f, Len(f), e)
  BY <1>1, <1>3, <1>4, <1>6, NextFrame
<1> HIDE DEF b
<1>10. /\ Len(f) = PrefixLen + Len(b)
       /\ \A j \in 1 .. Len(b) : f[PrefixLen + j] = b[j]
  BY <1>1, <1>8, FrameType
<1> HIDE DEF f
<1>11. \A j \in 1 .. Len(b) : wire[j] = b[j]
  <2> TAKE j \in 1 .. Len(b)
  <2>1. j \in Nat /\ 1 <= j
    BY <1>8
  <2>2. PrefixLen + j \in 1 .. Len(f) /\ e + (PrefixLen + j) > r
    <3>1. PrefixLen \in Nat /\ Len(b) \in Nat /\ Len(f) = PrefixLen + Len(b)
      BY <1>1, <1>8, <1>10
    <3>2. PrefixLen + j \in 1 .. Len(f)
      BY <2>1, <3>1
    <3> QED
      BY <1>5, <2>1, <3>1, <3>2
  <2>3. e + (PrefixLen + j) - r = j
    BY <1>1, <1>5, <2>1
  <2>4. wire[e + (PrefixLen + j) - r] = f[PrefixLen + j]
    BY <1>8, <2>2 DEF Lies
  <2> QED
    BY <1>10, <2>3, <2>4
<1>12. SubSeq(wire, 1, need) = b
  <2> DEFINE p == SubSeq(wire, 1, need)
  <2>1. need \in 0 .. Len(wire)
    BY <1>1
  <2>2. p \in Seq(0 .. Base) /\ Len(p) = need /\ \A j \in 1 .. need : p[j] = wire[j]
    BY <1>1, <2>1, TakeType
  <2> HIDE DEF p
  <2>3. p = b
    BY <1>8, <1>11, <2>2
  <2> QED
    BY <2>3 DEF p
<1>13. reader' = "size" /\ got' = Append(got, sent[Len(got) + 1])
  BY <1>2, <1>4, <1>8, <1>12 DEF Unmarshal, b
<1>14. FrameEnds[Len(got) + 1] = ReadTo + need
  <2>1. e + Len(f) = r + need
    BY <1>1, <1>5, <1>8, <1>10
  <2> QED
    BY <1>4, <1>8, <2>1
<1>15. need \in 0 .. Len(wire) /\ Len(got) < n
  BY <1>1, <1>4, <1>6
<1> QED
  BY <1>1, <1>2, <1>3, <1>13, <1>14, <1>15, OneReceived

\* The JSON value read is the next message sent.
LEMMA DecodeValueStep ==
    ASSUME FramingInv, DecodeValue, ~garbled'
    PROVE  Unmixed' /\ Received' /\ InFrames'
<1>0. PICK k : k = Min({i \in 1 .. Len(wire) : wire[i] = Brace})
  OBVIOUS
<1>1. /\ TypeOK /\ Unmixed /\ Received /\ InFrames /\ wire \in Seq(0 .. Base)
      /\ format = "json" /\ reader = "size" /\ Len(wire) \in Nat
      /\ Brace \in ToSet(wire) /\ Base \in Nat
  BY FramingAssumption DEF FramingInv, DecodeValue, encoderVars, TypeOK
<1>2. /\ Take(k) /\ UNCHANGED <<format, encoderVars, broken>>
      /\ Unmarshal(SubSeq(wire, 1, k - 1))
  BY <1>0 DEF DecodeValue
<1>3. k \in 1 .. Len(wire) /\ wire[k] = Brace /\ \A i \in 1 .. k - 1 : wire[i] # Brace
  BY <1>0, <1>1, FirstBrace
<1>4. PICK n \in Len(got) .. Len(sent) : Framed(n)
  BY <1>1 DEF InFrames
<1>5. PICK g, r : g = Len(got) /\ r = ReadTo
  OBVIOUS
<1>6. /\ g \in Nat /\ g <= n /\ n \in Nat /\ n <= Len(sent) /\ Len(sent) \in Nat
      /\ r \in Nat /\ r = FrameEnds[g] /\ StreamEnd(wire) = r + Len(wire)
  BY <1>1, <1>5, Measures
<1>7. \A b \in Seq(Byte) : \A j \in 1 .. Len(b) : b[j] # Brace
  BY <1>1 DEF Byte, Brace
<1>8. \A f, m : Lies(wire, r, f, m, r) /\ m \in Nat => \A j \in 1 .. m : wire[j] = f[j]
  <2> TAKE f, m
  <2> HAVE Lies(wire, r, f, m, r) /\ m \in Nat
  <2> TAKE j \in 1 .. m
  <2>1. r + j > r /\ r + j - r = j
    BY <1>6
  <2> QED
    BY <2>1 DEF Lies
<1>9. g < n
  <2> SUFFICES ASSUME g = n
               PROVE  FALSE
    BY <1>6
  <2>1. StreamEnd(wire) # FrameEnds[n]
    <3>1. r + Len(wire) # r
      BY <1>1, <1>3, <1>6
    <3> QED
      BY <1>6, <3>1
  <2>2. PICK b \in Bodies : Begun(wire, n, b)
    BY <1>4, <2>1 DEF Framed, EndsAt
  <2>0. StreamEnd(wire) - FrameEnds[n] = r + Len(wire) - r /\ FrameEnds[n] = r
    BY <1>6
  <2>3. /\ r + Len(wire) - r \in 0 .. Len(Frame(format, b)) - 1
        /\ Lies(wire, r, Frame(format, b), r + Len(wire) - r, r)
    BY <1>5, <2>0, <2>2 DEF Begun
  <2>4. r + Len(wire) - r = Len(wire)
    BY <1>1, <1>6
  <2>5. b \in Seq(Byte) /\ Len(b) \in Nat
    BY FramingAssumption
  <2>6. /\ Len(Frame(format, b)) = Len(b) + 1
        /\ \A j \in 1 .. Len(b) : Frame(format, b)[j] = b[j]
    BY <1>1, <2>5, FrameType
  <2>7. k \in 1 .. Len(b)
    BY <1>1, <1>3, <2>3, <2>4, <2>5, <2>6
  <2>8. wire[k] = b[k]
    BY <1>1, <1>3, <1>8, <2>3, <2>4, <2>6, <2>7
  <2> QED
    BY <1>3, <1>7, <2>5, <2>7, <2>8
<1> DEFINE b == sent[g + 1]
           f == Frame(format, b)
<1>11. /\ b \in Bodies /\ b \in Seq(Byte) /\ Len(b) \in Nat
       /\ FrameEnds[g + 1] = r + Len(f) /\ Lies(wire, r, f, Len(f), r)
  BY <1>1, <1>4, <1>5, <1>6, <1>9, NextFrame
<1> HIDE DEF b
<1>13. /\ Len(f) = Len(b) + 1 /\ f[Len(b) + 1] = Brace
       /\ \A j \in 1 .. Len(b) : f[j] = b[j]
  <2>1. format # "proto" /\ b \in Seq(Byte)
    BY <1>1, <1>11
  <2> QED
    BY ONLY <2>1, FrameType DEF f
<1> HIDE DEF f
<1>14. wire[Len(b) + 1] = Brace /\ \A j \in 1 .. Len(b) : wire[j] = b[j]
  <2>1. Len(f) \in Nat /\ Len(b) + 1 \in 1 .. Len(f) /\ \A j \in 1 .. Len(b) : j \in 1 .. Len(f)
    BY <1>11, <1>13
  <2>2. \A j \in 1 .. Len(f) : wire[j] = f[j]
    BY <1>8, <1>11, <2>1
  <2> QED
    BY <1>13, <2>1, <2>2
<1>15. k = Len(b) + 1
  <2>1. Len(b) + 1 \notin 1 .. k - 1
    BY <1>3, <1>14
  <2>2. k \notin 1 .. Len(b)
    BY <1>3, <1>7, <1>11, <1>14
  <2> QED
    BY <1>3, <1>11, <2>1, <2>2
<1>16. SubSeq(wire, 1, k - 1) = b
  <2> DEFINE p == SubSeq(wire, 1, k - 1)
  <2>1. k - 1 \in 0 .. Len(wire) /\ k - 1 = Len(b)
    BY <1>1, <1>3, <1>11, <1>15
  <2>2. p \in Seq(0 .. Base) /\ Len(p) = k - 1 /\ \A j \in 1 .. k - 1 : p[j] = wire[j]
    BY <1>1, <2>1, TakeType
  <2> HIDE DEF p
  <2>3. p = b
    BY <1>11, <1>14, <2>1, <2>2
  <2> QED
    BY <2>3 DEF p
<1>17. reader' = "size" /\ got' = Append(got, sent[Len(got) + 1])
  BY <1>2, <1>5, <1>11, <1>16 DEF Unmarshal, b
<1>18. FrameEnds[Len(got) + 1] = ReadTo + k
  BY <1>5, <1>11, <1>13, <1>15
<1>19. k \in 0 .. Len(wire) /\ Len(got) < n
  BY <1>1, <1>3, <1>5, <1>9
<1> QED
  BY <1>1, <1>2, <1>4, <1>17, <1>18, <1>19, OneReceived

\* An Encode that begins leaves the stream as it is.
LEMMA BeginEncodeStep ==
    ASSUME FramingInv, NEW s \in Senders, NEW b \in Bodies, BeginEncode(s, b), ~garbled'
    PROVE  Unmixed' /\ Received' /\ InFrames'
<1>1. TypeOK /\ Unmixed /\ Received /\ InFrames
  BY DEF FramingInv, BeginEncode
<1>2. /\ UNCHANGED <<format, fin, sent, garbled, decoderVars, wire, broken>>
      /\ writes[s] = <<>> /\ writes' = [writes EXCEPT ![s] = WritesOf(b)]
      /\ body' = [body EXCEPT ![s] = b]
  BY DEF BeginEncode
<1>3. \A t \in Senders : /\ Midway(t)' <=> Midway(t)
                         /\ Midway(t) => body'[t] = body[t]
  <2> TAKE t \in Senders
  <2>1. CASE t = s
    <3>1. ~Midway(s)
      BY <1>2 DEF Midway
    <3>2. ~(format' = "proto" /\ Len(writes'[s]) = 1)
      <4>1. writes'[s] = WritesOf(b) /\ format' = format
        BY <1>1, <1>2 DEF TypeOK
      <4>2. format = "proto" => WritesOf(b) = <<Prefix(Len(b)), b>>
        BY <1>1, WritesOfType
      <4> QED
        BY <4>1, <4>2, FewWrites
    <3> QED
      BY <2>1, <3>1, <3>2 DEF Midway
  <2>2. CASE t # s
    BY <1>1, <1>2, <2>2 DEF Midway, TypeOK
  <2> QED
    BY <2>1, <2>2
<1>4. Unmixed' /\ Received'
  BY <1>1, <1>2, <1>3 DEF Unmixed, Received, Fits, decoderVars
<1>5. InFrames'
  <2> SUFFICES ASSUME reader \in {"size", "data"}, NEW n \in Len(got) .. Len(sent), Framed(n)
               PROVE  Framed(n)'
    BY <1>1, <1>2 DEF InFrames, decoderVars
  <2>1. FrameEnds' = FrameEnds /\ ReadTo' = ReadTo
    BY <1>2, Unmoved DEF decoderVars
  <2>2. Intact(wire, n)' /\ EndsAt(wire, n)'
    BY <1>2, <2>1 DEF Framed, Intact, EndsAt, Begun, StreamEnd, Fits, decoderVars
  <2>3. \A t \in Senders : Midway(t) /\ Begun(wire, n, body[t]) => Begun(wire, n, body[t])'
    <3> SUFFICES ASSUME NEW t \in Senders, Midway(t), Begun(wire, n, body[t])
                 PROVE  Begun(wire, n, body[t])'
      OBVIOUS
    <3>1. body'[t] = body[t]
      BY <1>3
    <3> QED
      BY <1>2, <2>1, <3>1 DEF Begun, StreamEnd, Fits, decoderVars
  <2>4. StreamEnd(wire)' = StreamEnd(wire)
    BY <1>2, <2>1 DEF StreamEnd
  <2> QED
    BY <1>2, <1>3, <2>1, <2>2, <2>3, <2>4 DEF Framed, decoderVars
<1> QED
  BY <1>4, <1>5

\* So does a Write that fails: it may leave a part of a frame behind for good.
LEMMA WriteFailsStep ==
    ASSUME FramingInv, NEW s \in Senders, WriteFails(s), ~garbled'
    PROVE  Unmixed' /\ Received' /\ InFrames'
<1>1. TypeOK /\ Unmixed /\ Received /\ InFrames
  BY DEF FramingInv, WriteFails
<1>2. /\ UNCHANGED <<format, body, fin, sent, garbled, decoderVars, wire, broken>>
      /\ writes' = [writes EXCEPT ![s] = <<>>] /\ (fin \/ broken)
  BY DEF WriteFails
<1>3. \A t \in Senders : Midway(t)' => Midway(t)
  BY <1>1, <1>2 DEF Midway, TypeOK
<1>4. Unmixed' /\ Received'
  BY <1>1, <1>2, <1>3 DEF Unmixed, Received, Fits, decoderVars
<1>5. InFrames'
  <2> SUFFICES ASSUME reader \in {"size", "data"}, NEW n \in Len(got) .. Len(sent), Framed(n)
               PROVE  Framed(n)'
    BY <1>1, <1>2 DEF InFrames, decoderVars
  <2>1. FrameEnds' = FrameEnds /\ ReadTo' = ReadTo
    BY <1>2, Unmoved DEF decoderVars
  <2>2. Intact(wire, n)' /\ EndsAt(wire, n)'
    BY <1>2, <2>1 DEF Framed, Intact, EndsAt, Begun, StreamEnd, Fits, decoderVars
  <2> QED
    BY <1>2, <2>2 DEF Framed, decoderVars
<1> QED
  BY <1>4, <1>5

\* Nothing changes where nothing happens.
LEMMA StutterStep ==
    ASSUME FramingInv, UNCHANGED vars, ~garbled'
    PROVE  Unmixed' /\ Received' /\ InFrames'
<1>1. Unmixed /\ Received /\ InFrames
  BY DEF FramingInv, vars, encoderVars
<1>2. /\ UNCHANGED <<format, writes, body, encodes, fin, sent, garbled, reader, need, got, wire>>
      /\ UNCHANGED broken
  BY DEF vars, encoderVars, decoderVars
<1>3. Unmixed' /\ Received'
  BY <1>1, <1>2 DEF Unmixed, Received, Fits, Midway
<1>4. FrameEnds' = FrameEnds /\ ReadTo' = ReadTo
  BY <1>2, Unmoved
<1>5. ASSUME NEW n, Framed(n)
      PROVE  Framed(n)'
  BY <1>2, <1>4, <1>5 DEF Framed, Intact, EndsAt, Begun, StreamEnd, Fits, Midway
<1> QED
  BY <1>1, <1>2, <1>3, <1>5 DEF InFrames

\* A Decode that fails is the last.
LEMMA ReadFailsStep ==
    ASSUME FramingInv, NEW n, ReadFullFails(n), ~garbled'
    PROVE  Unmixed' /\ Received' /\ InFrames'
<1>1. Unmixed /\ Received
  BY DEF FramingInv, ReadFullFails, DecodeEnds, encoderVars
<1>2. /\ UNCHANGED <<format, encoderVars, need, got, broken>>
      /\ reader' \in {"eof", "error"}
  BY DEF ReadFullFails, DecodeEnds
<1>3. Unmixed' /\ Received'
  BY <1>1, <1>2 DEF Unmixed, Received, Fits, Midway, encoderVars
<1> QED
  BY <1>2, <1>3 DEF InFrames

\* Of all that Encodes write, Closes and the end of the session cut and the
\* reader takes off, the stream holds frames, and what is left of one.
THEOREM FramingInvariance == Spec => []FramingInv
<1>1. Init => FramingInv
  <2> SUFFICES ASSUME Init
               PROVE  FramingInv
    OBVIOUS
  <2>1. TypeOK
    <3>1. /\ writes \in [Senders -> Seq(Seq(0 .. Base))] /\ body \in [Senders -> Seq(Byte)]
          /\ wire \in Seq(0 .. Base) /\ sent \in Seq(Bodies) /\ got \in Seq(Seq(Byte))
      BY DEF Init
    <3>2. encodes \in 0 .. MaxEncodes /\ need \in 0 .. Limit - 1
      BY FramingAssumption, WeightsType DEF Init
    <3> QED
      BY <3>1, <3>2 DEF Init, TypeOK
  <2>2. Encoding /\ OwnFormat
    BY FramingAssumption DEF Init, Encoding, OwnFormat
  <2>3. Unmixed /\ Received
    BY DEF Init, Unmixed, Received, Midway
  <2>4. FrameEnds[0] = 0 /\ 0 \in Len(got) .. Len(sent) /\ Len(got) = 0 /\ Len(sent) = 0
    <3>1. sent = <<>> /\ got = <<>> /\ Len(<<>>) = 0
      BY DEF Init
    <3>2. EndsOf(format, sent)[0] = 0
      <4>1. sent \in Seq(Bodies)
        BY <2>1 DEF TypeOK
      <4> QED
        BY <4>1, EndsAre
    <3> QED
      BY <3>1, <3>2 DEF FrameEnds
  <2>5. StreamEnd(wire) = FrameEnds[0]
    BY <2>4 DEF Init, StreamEnd, ReadTo
  <2>6. Framed(0)
    BY <2>4, <2>5 DEF Init, Framed, Intact, EndsAt, Midway
  <2> QED
    BY <2>1, <2>2, <2>3, <2>4, <2>6 DEF FramingInv, InFrames
<1>2. FramingInv /\ [Next]_vars => FramingInv'
  <2> SUFFICES ASSUME FramingInv, [Next]_vars
               PROVE  FramingInv'
    OBVIOUS
  <2>1. TypeOK' /\ Encoding' /\ OwnFormat'
    BY TypesStep DEF FramingInv
  <2>2. ASSUME ~garbled'
        PROVE  Unmixed' /\ Received' /\ InFrames'
    <3>1. ASSUME NEW s \in Senders, NEW b \in Bodies, BeginEncode(s, b)
          PROVE  Unmixed' /\ Received' /\ InFrames'
      BY <2>2, <3>1, BeginEncodeStep
    <3>2. ASSUME NEW s \in Senders, Write(s)
          PROVE  Unmixed' /\ Received' /\ InFrames'
      <4>1. PICK b : b = body[s]
        OBVIOUS
      <4> QED
        BY <2>2, <3>2, <4>1, WriteStep
    <3>3. ASSUME NEW s \in Senders, WriteFails(s)
          PROVE  Unmixed' /\ Received' /\ InFrames'
      BY <2>2, <3>3, WriteFailsStep
    <3>4. ASSUME NEW n, ReadFullFails(n)
          PROVE  Unmixed' /\ Received' /\ InFrames'
      BY <2>2, <3>4, ReadFailsStep
    <3> QED
      BY <2>2, <3>1, <3>2, <3>3, <3>4, CloseStep, BreakStep, DecodeSizeStep,
        DecodeDataStep, DecodeValueStep, StutterStep DEF Next, Decode, ProtoFails,
        JsonFails
  <2> QED
    BY <2>1, <2>2 DEF FramingInv
<1> QED
  BY <1>1, <1>2, PTL DEF Spec

\* The length the reader takes off the stream, and allocates memory for, is that
\* of a message sent, wherever the stream is cut.
THEOREM AllocatesHolds == Spec => []AllocatesWhatIsSent
<1>1. FramingInv => AllocatesWhatIsSent
  <2> SUFFICES ASSUME FramingInv, reader = "data", ~garbled
               PROVE  \E b \in Bodies : need = Len(b)
    BY DEF AllocatesWhatIsSent
  <2>1. TypeOK /\ Unmixed /\ Received /\ InFrames
    BY DEF FramingInv
  <2>2. PICK n \in Len(got) .. Len(sent) : Framed(n)
    BY <2>1 DEF InFrames
  <2>3. CASE Len(got) < n
    BY <2>1, <2>2, <2>3, NextFrame
  <2>4. CASE ~(Len(got) < n)
    <3>1. PICK g, e : g = Len(got) /\ e = FrameEnds[g]
      OBVIOUS
    <3>2. g = n /\ g \in 0 .. Len(sent)
      BY <2>1, <2>2, <2>4, <3>1, Measures
    <3>3. e \in Nat /\ StreamEnd(wire) = e + PrefixLen + Len(wire)
          /\ PrefixLen \in Nat \ {0} /\ Len(wire) \in Nat
      BY <2>1, <3>1, <3>2, Measures
    <3>4. StreamEnd(wire) # FrameEnds[n]
      <4>1. e + PrefixLen + Len(wire) # e
        BY <3>3
      <4> QED
        BY <3>1, <3>2, <3>3, <4>1
    <3>5. PICK b \in Bodies : Begun(wire, n, b)
      BY <2>2, <3>4 DEF Framed, EndsAt
    <3> QED
      BY <3>1, <3>2, <3>5 DEF Begun
  <2> QED
    BY <2>3, <2>4
<1> QED
  BY <1>1, FramingInvariance, PTL

(* ------------------------- The pipe of messages ------------------------- *)

\* Steps that change nothing that the pipe looks at.
LEMMA PipeStutters ==
    ASSUME UNCHANGED <<sent, got, fin, broken>>, reader' = "eof" <=> reader = "eof"
    PROVE  UNCHANGED <<sent, got, fin, broken, reader = "eof">>
OBVIOUS

\* The Write that makes a frame whole is a Send.
LEMMA PipeSends ==
    ASSUME FramingInv, NEW s \in Senders, Write(s)
    PROVE  Pipe!Send("writer") \/ UNCHANGED <<sent, got, fin, broken, reader = "eof">>
<1>1. /\ UNCHANGED <<got, reader, fin, broken>> /\ ~fin /\ ~broken
      /\ sent' = IF Len(writes[s]) = 1 THEN Append(sent, body[s]) ELSE sent
  BY DEF Write, decoderVars
<1>2. CASE sent' = sent
  BY <1>1, <1>2, PipeStutters
<1>3. CASE sent' = Append(sent, body[s])
  <2>1. body[s] \in Seq(Byte) /\ sent \in Seq(Seq(Byte))
    BY FramingAssumption DEF FramingInv, TypeOK
  <2>2. /\ sent' \in Seq(Seq(Byte)) /\ Len(sent') = Len(sent) + 1
        /\ sent' = Append(sent, sent'[Len(sent) + 1])
    BY <1>3, <2>1
  <2>3. Pipe!Send("writer")
    BY <1>1, <2>2 DEF Pipe!Send
  <2> QED
    BY <2>3
<1> QED
  BY <1>1, <1>2, <1>3

\* A Decode of a message is a Receive.
LEMMA PipeReceives ==
    ASSUME Received, Received', TypeOK, NEW b, got' = Append(got, b),
           UNCHANGED <<sent, fin, broken>>, reader # "eof", reader' # "eof"
    PROVE  Pipe!Receive("reader")
<1>1. /\ Len(got') = Len(got) + 1 /\ Len(got) \in Nat /\ Len(sent) \in Nat
      /\ got'[Len(got) + 1] = b
  BY DEF TypeOK
<1>2. Len(got) + 1 <= Len(sent) /\ b = sent[Len(got) + 1]
  BY <1>1 DEF Received
<1>3. Len(got) < Len(sent) /\ got' = Append(got, sent[Len(got) + 1])
  BY <1>1, <1>2
<1> QED
  BY <1>3 DEF Pipe!Receive

\* Sequences of the same elements are the same.
LEMMA SameSequence ==
    ASSUME NEW S, NEW p \in Seq(S), NEW q \in Seq(S), Len(p) = Len(q),
           \A i \in 1 .. Len(p) : p[i] = q[i]
    PROVE  p = q
OBVIOUS

\* A Decode that reports the end has everything behind it, or the session broke:
\* with one more frame on the stream, not a byte left to read is impossible.
LEMMA PipeReceivesEnd ==
    ASSUME FramingInv, ~garbled, NEW n, ReadFullFails(n), reader \in {"size", "data"}
    PROVE  Pipe!ReceiveEnd("reader") \/ UNCHANGED <<sent, got, fin, broken, reader = "eof">>
<1>1. /\ UNCHANGED <<sent, got, fin, broken>> /\ StreamEnded
      /\ reader' = IF wire = <<>> THEN "eof" ELSE "error"
  BY DEF ReadFullFails, DecodeEnds, encoderVars
<1>2. TypeOK /\ Unmixed /\ Received /\ InFrames
  BY DEF FramingInv
<1>3. CASE wire # <<>>
  BY <1>1, <1>3, PipeStutters
<1>4. CASE wire = <<>>
  <2>1. broken \/ got = sent
    <3> SUFFICES ASSUME ~broken
                 PROVE  got = sent
      OBVIOUS
    <3>1. PICK m \in Len(got) .. Len(sent) : Framed(m)
      BY <1>2 DEF InFrames
    <3>2. PICK g, e : g = Len(got) /\ e = FrameEnds[g]
      OBVIOUS
    <3>3. m = Len(sent) /\ g \in Nat /\ m \in Nat /\ g <= m
      BY <1>2, <3>1, <3>2, Measures DEF Framed
    <3>4. ~(g < m)
      <4> SUFFICES ASSUME g < m
                   PROVE  FALSE
        OBVIOUS
      <4> DEFINE b == sent[g + 1]
                 f == Frame(format, b)
      <4>1. /\ b \in Bodies /\ b \in Seq(Byte) /\ Len(b) \in Nat /\ e \in Nat
            /\ Lies(wire, ReadTo, f, Len(f), e)
        BY <1>2, <3>1, <3>2, NextFrame
      <4> HIDE DEF b
      <4>2. Len(b) > 0
        BY <4>1, BodiesAssumption
      <4>3. /\ format = "proto" => Len(f) = PrefixLen + Len(b)
            /\ format # "proto" => Len(f) = Len(b) + 1
        BY <4>1, FrameType
      <4> HIDE DEF f
      <4>4. e + Len(f) <= ReadTo
        BY <1>2, <1>4, <4>1, Measures DEF Lies
      <4>5. ReadTo = e + (IF reader = "data" THEN PrefixLen ELSE 0) /\ PrefixLen \in Nat
        BY <1>2, <3>2, Measures
      <4>6. reader = "data" => format = "proto"
        BY DEF FramingInv, OwnFormat
      <4> QED
        BY <4>1, <4>2, <4>3, <4>4, <4>5, <4>6
    <3>5. Len(got) = Len(sent) /\ \A i \in 1 .. Len(got) : got[i] = sent[i]
      BY <1>2, <3>2, <3>3, <3>4 DEF Received
    <3>6. got \in Seq(Seq(Byte)) /\ sent \in Seq(Seq(Byte))
      BY <1>2, FramingAssumption DEF TypeOK
    <3> QED
      BY <3>5, <3>6, SameSequence
  <2>2. Pipe!ReceiveEnd("reader")
    BY <1>1, <1>4, <2>1 DEF Pipe!ReceiveEnd, StreamEnded
  <2> QED
    BY <2>2
<1> QED
  BY <1>3, <1>4

\* Framing implements a DuplexPipe of messages, one way, as long as no Writes
\* mix: messages arrive whole, once and in order, whatever cut the stream, and a
\* clean end is told of only behind the last one, or after the session broke.
THEOREM FramesHold == Spec => FramesAreAPipe
<1>1. Init => Pipe!Init
  BY DEF Init, Pipe!Init
<1>2. FramingInv /\ FramingInv' /\ [Next]_vars
        => [garbled' \/ Pipe!Next]_<<sent, got, fin, broken, reader = "eof">>
  <2> SUFFICES ASSUME FramingInv, FramingInv', [Next]_vars, ~garbled'
               PROVE  Pipe!Next \/ UNCHANGED <<sent, got, fin, broken, reader = "eof">>
    OBVIOUS
  <2>1. TypeOK /\ Received'
    BY DEF FramingInv
  <2>2. ASSUME ~garbled
        PROVE  Received
    BY <2>2 DEF FramingInv
  <2>3. ASSUME NEW s \in Senders, Write(s)
        PROVE  Pipe!Next \/ UNCHANGED <<sent, got, fin, broken, reader = "eof">>
    BY <2>3, PipeSends DEF Pipe!Next
  <2>4. ASSUME Close
        PROVE  Pipe!Next
    <3>1. Pipe!Close("writer")
      BY <2>4 DEF Close, decoderVars, Pipe!Close
    <3> QED
      BY <3>1 DEF Pipe!Next
  <2>5. ASSUME Break
        PROVE  Pipe!Next
    BY <2>5 DEF Break, decoderVars, Pipe!Next, Pipe!Break
  <2>6. ASSUME NEW b, Unmarshal(b), UNCHANGED encoderVars, UNCHANGED broken,
               reader \in {"size", "data"}
        PROVE  Pipe!Next \/ UNCHANGED <<sent, got, fin, broken, reader = "eof">>
    <3>1. UNCHANGED <<sent, fin, broken, garbled>>
      BY <2>6 DEF encoderVars
    <3>2. CASE got' = Append(got, b) /\ reader' = "size"
      <4>1. Pipe!Receive("reader")
        BY <2>1, <2>2, <2>6, <3>1, <3>2, PipeReceives
      <4> QED
        BY <4>1 DEF Pipe!Next
    <3>3. CASE reader' = "error" /\ got' = got
      BY <2>6, <3>1, <3>3, PipeStutters
    <3> QED
      BY <2>6, <3>2, <3>3 DEF Unmarshal
  <2>7. ASSUME NEW n, ReadFullFails(n), reader \in {"size", "data"}
        PROVE  Pipe!Next \/ UNCHANGED <<sent, got, fin, broken, reader = "eof">>
    <3>1. ~garbled
      BY <2>7 DEF ReadFullFails, DecodeEnds, encoderVars
    <3> QED
      BY <2>7, <3>1, PipeReceivesEnd DEF Pipe!Next
  <2>8. ASSUME DecodeData \/ DecodeValue
        PROVE  Pipe!Next \/ UNCHANGED <<sent, got, fin, broken, reader = "eof">>
    BY <2>6, <2>8 DEF DecodeData, DecodeValue
  <2>9. ASSUME ProtoFails \/ JsonFails
        PROVE  Pipe!Next \/ UNCHANGED <<sent, got, fin, broken, reader = "eof">>
    BY <2>7, <2>9 DEF ProtoFails, JsonFails
  <2>10. ASSUME \/ \E s \in Senders : (\E b \in Bodies : BeginEncode(s, b)) \/ WriteFails(s)
                \/ DecodeSize \/ UNCHANGED vars
         PROVE  UNCHANGED <<sent, got, fin, broken, reader = "eof">>
    <3>1. UNCHANGED <<sent, got, fin, broken>> /\ (reader' = "eof" <=> reader = "eof")
      BY <2>10 DEF BeginEncode, WriteFails, DecodeSize, vars, encoderVars, decoderVars
    <3> QED
      BY <3>1, PipeStutters
  <2> QED
    BY <2>3, <2>4, <2>5, <2>8, <2>9, <2>10 DEF Next, Decode
<1> QED
  BY <1>1, <1>2, FramingInvariance, PTL DEF Spec, FramesAreAPipe
=============================================================================
