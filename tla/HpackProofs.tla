---------------------------- MODULE HpackProofs ----------------------------
(***************************************************************************)
(* The compression tables of the two ends of a connection, for tables of   *)
(* any size, any header lists and any encoding of them.                    *)
(***************************************************************************)
EXTENDS Hpack, SequenceTheorems, WellFoundedInduction, TLAPS

-----------------------------------------------------------------------------
(* Counting up *)

(* A set of naturals that is not empty has a least element. *)
LEMMA LeastIn ==
  ASSUME NEW T, T \subseteq Nat, T # {}
  PROVE  \E x \in T : \A y \in T : x <= y
<1> DEFINE R == OpToRel(<, Nat)
<1>1. \A x, y \in Nat : <<y, x>> \in R <=> y < x
  BY DEF OpToRel
<1>2. IsWellFoundedOn(R, Nat)
  BY NatLessThanWellFounded
<1> HIDE DEF R
<1>3. \E x \in T : \A y \in T : ~(<<y, x>> \in R)
  BY <1>2, WFMin
<1>4. \A x, y \in Nat : ~(y < x) => x <= y
  OBVIOUS
<1> QED
  BY <1>1, <1>3, <1>4

(* What holds of 0, and of n + 1 if of n, holds up to any bound. *)
LEMMA CountUp ==
  ASSUME NEW S, S \subseteq Nat, 0 \in S, NEW top \in Nat,
         \A n \in Nat : n \in S /\ n < top => n + 1 \in S
  PROVE  top \in S
<1> SUFFICES ASSUME top \notin S
             PROVE  FALSE
  OBVIOUS
<1> DEFINE T == {n \in 0..top : n \notin S}
<1>1. T \subseteq Nat /\ T # {}
  OBVIOUS
<1>2. PICK m \in T : \A n \in T : m <= n
  BY <1>1, LeastIn
<1>3. m \in Nat /\ m # 0 /\ m <= top /\ m \notin S
  OBVIOUS
<1>4. m - 1 \in Nat /\ m - 1 < top /\ m - 1 \in 0..top /\ ~(m <= m - 1) /\ (m - 1) + 1 = m
  BY <1>3
<1>5. m - 1 \in S
  BY <1>2, <1>4
<1> QED
  BY <1>3, <1>4, <1>5

-----------------------------------------------------------------------------
(* Sequences *)

First(s, k) == SubSeq(s, 1, k)

LEMMA FirstIs ==
  ASSUME NEW S, NEW s \in Seq(S), NEW k \in 0..Len(s)
  PROVE  /\ First(s, k) \in Seq(S) /\ Len(First(s, k)) = k
         /\ \A i \in 1..k : First(s, k)[i] = s[i]
<1>1. Len(s) \in Nat /\ 1 \in 1..Len(s) + 1 /\ k \in 0..Len(s)
  BY LenProperties
<1> QED
  BY <1>1, SubSeqProperties DEF First

LEMMA FirstWhole ==
  ASSUME NEW S, NEW s \in Seq(S)
  PROVE  First(s, Len(s)) = s /\ First(s, 0) = <<>>
<1>1. Len(s) \in Nat
  BY LenProperties
<1>2. /\ First(s, Len(s)) \in Seq(S) /\ Len(First(s, Len(s))) = Len(s)
      /\ \A i \in 1..Len(s) : First(s, Len(s))[i] = s[i]
  BY <1>1, FirstIs
<1>3. First(s, Len(s)) = s
  BY <1>2, SeqEqual
<1>4. First(s, 0) \in Seq(S) /\ Len(First(s, 0)) = 0
  BY <1>1, FirstIs
<1> QED
  BY <1>3, <1>4, EmptySeq

LEMMA FirstOfFirst ==
  ASSUME NEW S, NEW s \in Seq(S), NEW k \in 0..Len(s), NEW j \in 0..k
  PROVE  First(First(s, k), j) = First(s, j)
<1>1. Len(s) \in Nat /\ j \in 0..Len(s)
  BY LenProperties
<1> DEFINE a == First(s, k)
           b == First(a, j)
           c == First(s, j)
<1>2. a \in Seq(S) /\ Len(a) = k /\ \A i \in 1..k : a[i] = s[i]
  BY FirstIs
<1>3. b \in Seq(S) /\ Len(b) = j /\ \A i \in 1..j : b[i] = a[i]
  BY <1>2, FirstIs
<1>4. c \in Seq(S) /\ Len(c) = j /\ \A i \in 1..j : c[i] = s[i]
  BY <1>1, FirstIs
<1>5. \A i \in 1..j : i \in 1..k
  BY <1>1
<1> HIDE DEF a, b, c
<1>6. b = c
  BY <1>2, <1>3, <1>4, <1>5, SeqEqual
<1> QED
  BY <1>6 DEF a, b, c

LEMMA FunctionIsSeq ==
  ASSUME NEW S, NEW d \in Nat, NEW e \in [1..d -> S]
  PROVE  e \in Seq(S) /\ Len(e) = d
<1>1. e \in Seq(S)
  OBVIOUS
<1>2. Len(e) = d
  BY <1>1, LenProperties
<1> QED
  BY <1>1, <1>2

(* A field in front of a sequence. *)
LEMMA ConsIs ==
  ASSUME NEW S, NEW s \in Seq(S), NEW x \in S
  PROVE  /\ <<x>> \o s \in Seq(S) /\ Len(<<x>> \o s) = Len(s) + 1
         /\ (<<x>> \o s)[1] = x /\ \A i \in 1..Len(s) : (<<x>> \o s)[i + 1] = s[i]
<1> DEFINE h == <<x>>
<1>1. h \in Seq(S) /\ Len(h) = 1 /\ h[1] = x
  OBVIOUS
<1> HIDE DEF h
<1>2. Len(s) \in Nat
  BY LenProperties
<1>3. /\ h \o s \in Seq(S) /\ Len(h \o s) = Len(h) + Len(s)
      /\ \A i \in 1..Len(h) + Len(s) : (h \o s)[i] = IF i <= Len(h) THEN h[i] ELSE s[i - Len(h)]
  BY <1>1, ConcatProperties
<1>4. (h \o s)[1] = x
  BY <1>1, <1>2, <1>3
<1>5. ASSUME NEW i \in 1..Len(s)
      PROVE  (h \o s)[i + 1] = s[i]
  <2>1. i + 1 \in 1..Len(h) + Len(s) /\ ~(i + 1 <= Len(h)) /\ (i + 1) - Len(h) = i
    BY <1>1, <1>2
  <2> QED
    BY <1>3, <2>1
<1> QED
  BY <1>1, <1>2, <1>3, <1>4, <1>5 DEF h

LEMMA FirstOfCons ==
  ASSUME NEW S, NEW s \in Seq(S), NEW x \in S, NEW k \in 0..Len(s)
  PROVE  First(<<x>> \o s, k + 1) = <<x>> \o First(s, k)
<1> DEFINE t == <<x>> \o s
           a == First(s, k)
           b == <<x>> \o a
           c == First(t, k + 1)
<1>1. Len(s) \in Nat
  BY LenProperties
<1>2. t \in Seq(S) /\ Len(t) = Len(s) + 1 /\ t[1] = x /\ \A i \in 1..Len(s) : t[i + 1] = s[i]
  BY ConsIs
<1>3. a \in Seq(S) /\ Len(a) = k /\ \A i \in 1..k : a[i] = s[i]
  BY FirstIs
<1>4. b \in Seq(S) /\ Len(b) = k + 1 /\ b[1] = x /\ \A i \in 1..k : b[i + 1] = a[i]
  BY <1>3, ConsIs
<1> HIDE DEF t, a, b
<1>5. c \in Seq(S) /\ Len(c) = k + 1 /\ \A i \in 1..k + 1 : c[i] = t[i]
  BY <1>1, <1>2, FirstIs
<1> HIDE DEF c
<1>6. ASSUME NEW i \in 1..k + 1
      PROVE  c[i] = b[i]
  <2>1. CASE i = 1
    BY <1>2, <1>4, <1>5, <2>1
  <2>2. CASE i # 1
    <3>1. i - 1 \in 1..k /\ i - 1 \in 1..Len(s) /\ (i - 1) + 1 = i
      BY <1>1, <2>2
    <3>2. b[i] = a[i - 1] /\ t[i] = s[i - 1] /\ a[i - 1] = s[i - 1]
      BY <1>2, <1>3, <1>4, <3>1
    <3> QED
      BY <1>5, <3>2
  <2> QED
    BY <2>1, <2>2
<1>7. c = b
  BY <1>4, <1>5, <1>6, SeqEqual
<1> QED
  BY <1>7 DEF a, b, c, t

-----------------------------------------------------------------------------
(* The size of a table *)

Sums(f, entries, n) ==
    f = [k \in 0..n |-> IF k = 0 THEN 0 ELSE f[k - 1] + Weight[entries[k]]]

LEMMA SumsStep ==
  ASSUME NEW entries, NEW n \in Nat, NEW f, Sums(f, entries, n)
  PROVE  \E g : Sums(g, entries, n + 1)
<1> DEFINE T(t, k) == t + Weight[entries[k]]
           g == [k \in 0..n + 1 |-> IF k = 0 THEN 0 ELSE T(f[k - 1], k)]
<1>1. f = [k \in 0..n |-> IF k = 0 THEN 0 ELSE T(f[k - 1], k)]
  BY DEF Sums
<1> HIDE DEF T
<1>2. \A k \in 0..n : g[k] = f[k]
  BY <1>1
<1>3. \A k \in 0..n + 1 : k # 0 => k - 1 \in 0..n
  OBVIOUS
<1>4. g = [k \in 0..n + 1 |-> IF k = 0 THEN 0 ELSE T(g[k - 1], k)]
  BY <1>2, <1>3
<1> HIDE DEF g
<1> QED
  BY <1>4 DEF Sums, T

(* The sums of the first entries, and what their last one is. *)
LEMMA SizeSums ==
  ASSUME NEW entries \in Seq(Fields)
  PROVE  \E f : Sums(f, entries, Len(entries)) /\ SizeOf(entries) = f[Len(entries)]
<1> DEFINE S == {m \in Nat : \E f : Sums(f, entries, m)}
<1>1. 0 \in S
  <2>1. Sums([k \in 0..0 |-> 0], entries, 0)
    BY DEF Sums
  <2> QED
    BY <2>1
<1>2. \A m \in Nat : m \in S => m + 1 \in S
  BY SumsStep
<1>3. S \subseteq Nat /\ Len(entries) \in Nat
  BY LenProperties
<1> HIDE DEF S
<1>4. Len(entries) \in S
  BY <1>1, <1>2, <1>3, CountUp
<1>5. Sums(CHOOSE f : Sums(f, entries, Len(entries)), entries, Len(entries))
  BY <1>4 DEF S
<1>6. SizeOf(entries) = (CHOOSE f : Sums(f, entries, Len(entries)))[Len(entries)]
  BY DEF SizeOf, Sums
<1> QED
  BY <1>5, <1>6

(* The size of a part at the start of a sequence. *)
LEMMA SizeOfPart ==
  ASSUME NEW m \in Nat, NEW k \in 0..m, NEW t, NEW f, Sums(f, t, m),
         NEW s \in Seq(Fields), Len(s) = k, \A i \in 1..k : s[i] = t[i]
  PROVE  SizeOf(s) = f[k]
<1>1. PICK g : Sums(g, s, k) /\ SizeOf(s) = g[k]
  BY SizeSums
<1>2. /\ \A j \in 0..m : f[j] = IF j = 0 THEN 0 ELSE f[j - 1] + Weight[t[j]]
      /\ \A j \in 0..k : g[j] = IF j = 0 THEN 0 ELSE g[j - 1] + Weight[s[j]]
  BY <1>1 DEF Sums
<1> DEFINE S == {j \in 0..k : f[j] = g[j]}
<1>3. 0 \in S
  BY <1>2
<1>4. ASSUME NEW j \in Nat, j \in S, j < k
      PROVE  j + 1 \in S
  <2>1. j + 1 \in 1..k /\ j + 1 \in 0..k /\ j + 1 \in 0..m /\ j + 1 # 0 /\ (j + 1) - 1 = j
    BY <1>4
  <2>2. f[j + 1] = f[j] + Weight[t[j + 1]] /\ g[j + 1] = g[j] + Weight[s[j + 1]]
    BY <1>2, <2>1
  <2> QED
    BY <1>4, <2>1, <2>2
<1>5. S \subseteq Nat /\ k \in Nat
  OBVIOUS
<1> HIDE DEF S
<1>6. k \in S
  BY <1>3, <1>4, <1>5, CountUp
<1> QED
  BY <1>1, <1>6 DEF S

(* The size of the first k entries, for every k. *)
SizesOf(f, entries) ==
    /\ f \in [0..Len(entries) -> Nat] /\ f[0] = 0
    /\ \A k \in 1..Len(entries) : f[k] = f[k - 1] + Weight[entries[k]]
    /\ \A k \in 0..Len(entries) : SizeOf(First(entries, k)) = f[k]

LEMMA SizesExist ==
  ASSUME NEW entries \in Seq(Fields)
  PROVE  \E f : SizesOf(f, entries)
<1>1. Len(entries) \in Nat
  BY LenProperties
<1>2. PICK f : Sums(f, entries, Len(entries))
  BY SizeSums
<1>3. /\ f = [k \in 0..Len(entries) |-> IF k = 0 THEN 0 ELSE f[k - 1] + Weight[entries[k]]]
      /\ \A k \in 0..Len(entries) : f[k] = IF k = 0 THEN 0 ELSE f[k - 1] + Weight[entries[k]]
  BY <1>2 DEF Sums
<1>4. \A k \in 1..Len(entries) : Weight[entries[k]] \in Nat
  BY WeightAssumption, ElementOfSeq
<1> DEFINE S == {k \in 0..Len(entries) : f[k] \in Nat}
<1>5. 0 \in S
  BY <1>1, <1>3
<1>6. ASSUME NEW k \in Nat, k \in S, k < Len(entries)
      PROVE  k + 1 \in S
  <2>1. k + 1 \in 1..Len(entries) /\ k + 1 \in 0..Len(entries) /\ k + 1 # 0 /\ (k + 1) - 1 = k
    BY <1>1, <1>6
  <2>2. f[k + 1] = f[k] + Weight[entries[k + 1]]
    BY <1>3, <2>1
  <2> QED
    BY <1>4, <1>6, <2>1, <2>2
<1>7. ASSUME NEW k \in 0..Len(entries)
      PROVE  f[k] \in Nat
  <2>1. S \subseteq Nat /\ k \in Nat /\ \A j \in Nat : j < k => j < Len(entries)
    BY <1>1
  <2> HIDE DEF S
  <2>2. k \in S
    BY <1>5, <1>6, <2>1, CountUp
  <2> QED
    BY <2>2 DEF S
<1>8. f \in [0..Len(entries) -> Nat]
  BY <1>3, <1>7
<1>9. ASSUME NEW k \in 0..Len(entries)
      PROVE  SizeOf(First(entries, k)) = f[k]
  <2> DEFINE a == First(entries, k)
  <2>1. a \in Seq(Fields) /\ Len(a) = k /\ \A i \in 1..k : a[i] = entries[i]
    BY FirstIs
  <2> HIDE DEF a
  <2>2. SizeOf(a) = f[k]
    BY <1>1, <1>2, <2>1, SizeOfPart
  <2> QED
    BY <2>2 DEF a
<1>10. f[0] = 0 /\ \A k \in 1..Len(entries) : f[k] = f[k - 1] + Weight[entries[k]]
  BY <1>1, <1>3
<1> QED
  BY <1>8, <1>9, <1>10 DEF SizesOf

LEMMA SizeTyped ==
  ASSUME NEW entries \in Seq(Fields)
  PROVE  SizeOf(entries) \in Nat
<1>1. PICK f : SizesOf(f, entries)
  BY SizesExist
<1>2. Len(entries) \in 0..Len(entries) /\ First(entries, Len(entries)) = entries
  BY FirstWhole, LenProperties
<1> QED
  BY <1>1, <1>2 DEF SizesOf

(* Every entry adds to the size. *)
LEMMA SizesGrow ==
  ASSUME NEW entries \in Seq(Fields), NEW f, SizesOf(f, entries),
         NEW k \in 0..Len(entries), NEW j \in 0..k
  PROVE  f[j] + (k - j) <= f[k]
<1>1. Len(entries) \in Nat
  BY LenProperties
<1>2. \A i \in 1..Len(entries) : Weight[entries[i]] \in Nat \ {0}
  BY WeightAssumption, ElementOfSeq
<1>3. /\ \A i \in 0..Len(entries) : f[i] \in Nat
      /\ \A i \in 1..Len(entries) : f[i] = f[i - 1] + Weight[entries[i]]
  BY DEF SizesOf
<1> DEFINE S == {i \in 0..(k - j) : f[j] + i <= f[j + i]}
<1>4. 0 \in S
  BY <1>1, <1>3
<1>5. ASSUME NEW i \in Nat, i \in S, i < k - j
      PROVE  i + 1 \in S
  <2>1. j + i \in 0..Len(entries) /\ j + (i + 1) \in 1..Len(entries) /\ (j + (i + 1)) - 1 = j + i
    BY <1>1, <1>5
  <2>2. f[j + (i + 1)] = f[j + i] + Weight[entries[j + (i + 1)]]
    BY <1>3, <2>1
  <2>3. Weight[entries[j + (i + 1)]] \in Nat \ {0} /\ f[j + i] \in Nat /\ f[j] \in Nat
    BY <1>1, <1>2, <1>3, <2>1
  <2>4. f[j] + i <= f[j + i]
    BY <1>5
  <2>5. f[j] + (i + 1) <= f[j + (i + 1)]
    <3>1. PICK a, b, w : a = f[j] /\ b = f[j + i] /\ w = Weight[entries[j + (i + 1)]]
      OBVIOUS
    <3>2. a \in Nat /\ b \in Nat /\ w \in Nat \ {0} /\ a + i <= b /\ f[j + (i + 1)] = b + w
      BY <2>2, <2>3, <2>4, <3>1
    <3>3. a + (i + 1) <= b + w
      BY <1>5, <3>2
    <3> QED
      BY <3>1, <3>2, <3>3
  <2>6. i + 1 \in 0..(k - j)
    BY <1>1, <1>5
  <2> QED
    BY <2>5, <2>6
<1>6. S \subseteq Nat /\ k - j \in Nat
  BY <1>1
<1> HIDE DEF S
<1>7. k - j \in S
  BY <1>4, <1>5, <1>6, CountUp
<1>8. j + (k - j) = k
  BY <1>1
<1> QED
  BY <1>7, <1>8 DEF S

LEMMA SizeCons ==
  ASSUME NEW entries \in Seq(Fields), NEW x \in Fields, NEW k \in 0..Len(entries)
  PROVE  SizeOf(First(<<x>> \o entries, k + 1)) = Weight[x] + SizeOf(First(entries, k))
<1> DEFINE t == <<x>> \o entries
<1>1. Len(entries) \in Nat /\ Weight[x] \in Nat
  BY LenProperties, WeightAssumption
<1>2. /\ t \in Seq(Fields) /\ Len(t) = Len(entries) + 1 /\ t[1] = x
      /\ \A i \in 1..Len(entries) : t[i + 1] = entries[i]
  BY ConsIs
<1> HIDE DEF t
<1>3. PICK f : SizesOf(f, entries)
  BY SizesExist
<1>4. PICK g : SizesOf(g, t)
  BY <1>2, SizesExist
<1>5. /\ f[0] = 0 /\ \A i \in 1..Len(entries) : f[i] = f[i - 1] + Weight[entries[i]]
      /\ \A i \in 0..Len(entries) : f[i] \in Nat /\ SizeOf(First(entries, i)) = f[i]
  BY <1>3 DEF SizesOf
<1>6. /\ g[0] = 0 /\ \A i \in 1..Len(entries) + 1 : g[i] = g[i - 1] + Weight[t[i]]
      /\ \A i \in 0..Len(entries) + 1 : g[i] \in Nat /\ SizeOf(First(t, i)) = g[i]
  BY <1>2, <1>4 DEF SizesOf
<1> DEFINE S == {i \in 0..Len(entries) : g[i + 1] = Weight[x] + f[i]}
<1>7. 0 \in S
  <2>1. g[1] = g[0] + Weight[t[1]]
    BY <1>1, <1>6
  <2> QED
    BY <1>1, <1>2, <1>5, <1>6, <2>1
<1>8. ASSUME NEW i \in Nat, i \in S, i < k
      PROVE  i + 1 \in S
  <2>1. /\ i + 1 \in 1..Len(entries) /\ (i + 1) - 1 = i /\ i + 1 \in 0..Len(entries) /\ i \in 0..Len(entries)
        /\ (i + 1) + 1 \in 1..Len(entries) + 1 /\ ((i + 1) + 1) - 1 = i + 1
    BY <1>1, <1>8
  <2>2. f[i + 1] = f[i] + Weight[entries[i + 1]]
    BY <1>5, <2>1
  <2>3. g[(i + 1) + 1] = g[i + 1] + Weight[entries[i + 1]]
    BY <1>2, <1>6, <2>1
  <2>4. Weight[entries[i + 1]] \in Nat
    <3>1. entries[i + 1] \in Fields
      BY <2>1, ElementOfSeq
    <3> QED
      BY <3>1, WeightAssumption
  <2>5. f[i] \in Nat
    BY <1>5, <2>1
  <2>6. g[i + 1] = Weight[x] + f[i]
    BY <1>8
  <2> QED
    BY <1>1, <2>1, <2>2, <2>3, <2>4, <2>5, <2>6
<1>9. S \subseteq Nat /\ k \in Nat
  BY <1>1
<1> HIDE DEF S
<1>10. k \in S
  BY <1>7, <1>8, <1>9, CountUp
<1>11. g[k + 1] = Weight[x] + f[k] /\ k + 1 \in 0..Len(entries) + 1
  BY <1>1, <1>10 DEF S
<1>12. SizeOf(First(t, k + 1)) = g[k + 1] /\ SizeOf(First(entries, k)) = f[k]
  BY <1>5, <1>6, <1>11
<1> QED
  BY <1>11, <1>12 DEF t

-----------------------------------------------------------------------------
(* The longest part of a table that fits *)

Fit(entries, room, k) ==
    /\ k \in 0..Len(entries) /\ SizeOf(First(entries, k)) <= room
    /\ \A j \in k + 1..Len(entries) : SizeOf(First(entries, j)) > room

LEMMA SizeOfFirst ==
  ASSUME NEW entries \in Seq(Fields), NEW k \in 0..Len(entries)
  PROVE  SizeOf(First(entries, k)) \in Nat
<1>1. First(entries, k) \in Seq(Fields)
  BY FirstIs
<1> QED
  BY <1>1, SizeTyped

(* Longer parts are larger. *)
LEMMA FirstGrows ==
  ASSUME NEW entries \in Seq(Fields), NEW k \in 0..Len(entries), NEW j \in 0..k
  PROVE  SizeOf(First(entries, j)) + (k - j) <= SizeOf(First(entries, k))
<1>1. PICK f : SizesOf(f, entries)
  BY SizesExist
<1>2. j \in 0..Len(entries)
  BY LenProperties
<1>3. SizeOf(First(entries, j)) = f[j] /\ SizeOf(First(entries, k)) = f[k]
  BY <1>1, <1>2 DEF SizesOf
<1>4. f[j] + (k - j) <= f[k]
  BY <1>1, SizesGrow
<1> QED
  BY <1>3, <1>4

LEMMA EmptySize == SizeOf(<<>>) = 0
<1>1. <<>> \in Seq(Fields) /\ Len(<<>>) = 0
  OBVIOUS
<1>2. PICK f : Sums(f, <<>>, 0) /\ SizeOf(<<>>) = f[0]
  BY <1>1, SizeSums
<1> QED
  BY <1>2 DEF Sums

LEMMA FitExists ==
  ASSUME NEW entries \in Seq(Fields), NEW room \in Nat
  PROVE  \E k : Fit(entries, room, k) /\ Kept(entries, room) = First(entries, k)
<1>1. Len(entries) \in Nat /\ First(entries, 0) = <<>>
  BY LenProperties, FirstWhole
<1> DEFINE S == {k \in 0..Len(entries) : SizeOf(First(entries, k)) <= room}
           T == {Len(entries) - k : k \in S}
<1>2. 0 \in S
  BY <1>1, EmptySize
<1>3. T \subseteq Nat /\ T # {}
  BY <1>1, <1>2
<1>4. PICK m \in T : \A x \in T : m <= x
  BY <1>3, LeastIn
<1>5. PICK k \in S : m = Len(entries) - k
  BY <1>4
<1>6. ASSUME NEW j \in S
      PROVE  j <= k
  <2>1. Len(entries) - j \in T /\ j \in Nat /\ k \in Nat
    BY <1>1
  <2>2. m <= Len(entries) - j
    BY <1>4, <2>1
  <2> QED
    BY <1>1, <1>5, <2>1, <2>2
<1>7. \E x \in S : \A y \in S : x >= y
  <2>1. S \subseteq Nat
    BY <1>1
  <2> HIDE DEF S
  <2> QED
    BY <1>5, <1>6, <2>1
<1>8. Max(S) \in S /\ \A y \in S : Max(S) >= y
  <2> HIDE DEF S
  <2> QED
    BY <1>7 DEF Max
<1>9. Kept(entries, room) = First(entries, Max(S))
  BY DEF Kept, First
<1>10. Fit(entries, room, Max(S))
  <2> DEFINE n == Max(S)
  <2>1. n \in 0..Len(entries) /\ SizeOf(First(entries, n)) <= room /\ \A y \in S : n >= y
    BY <1>8
  <2> HIDE DEF n
  <2>2. ASSUME NEW j \in n + 1..Len(entries)
        PROVE  SizeOf(First(entries, j)) > room
    <3>1. j \in 0..Len(entries) /\ ~(n >= j) /\ SizeOf(First(entries, j)) \in Nat
      BY <1>1, <2>1, SizeOfFirst
    <3>2. j \notin S
      BY <2>1, <3>1
    <3> QED
      BY <3>1, <3>2
  <2>3. Fit(entries, room, n)
    BY <2>1, <2>2 DEF Fit
  <2> QED
    BY <2>3 DEF n
<1> QED
  BY <1>9, <1>10

LEMMA FitUnique ==
  ASSUME NEW entries \in Seq(Fields), NEW room \in Nat, NEW k, Fit(entries, room, k)
  PROVE  Kept(entries, room) = First(entries, k)
<1>1. PICK m : Fit(entries, room, m) /\ Kept(entries, room) = First(entries, m)
  BY FitExists
<1>2. Len(entries) \in Nat /\ \A j \in 0..Len(entries) : SizeOf(First(entries, j)) \in Nat
  BY LenProperties, SizeOfFirst
<1>3. k \in 0..Len(entries) /\ m \in 0..Len(entries)
  BY <1>1 DEF Fit
<1>4. ~(k < m)
  BY <1>1, <1>2, <1>3 DEF Fit
<1>5. ~(m < k)
  BY <1>1, <1>2, <1>3 DEF Fit
<1>6. k = m
  BY <1>2, <1>3, <1>4, <1>5
<1> QED
  BY <1>1, <1>6

LEMMA KeptTyped ==
  ASSUME NEW entries \in Seq(Fields), NEW room \in Nat
  PROVE  Kept(entries, room) \in Seq(Fields) /\ SizeOf(Kept(entries, room)) <= room
<1>1. PICK k : Fit(entries, room, k) /\ Kept(entries, room) = First(entries, k)
  BY FitExists
<1>2. k \in 0..Len(entries) /\ SizeOf(First(entries, k)) <= room
  BY <1>1 DEF Fit
<1> QED
  BY <1>1, <1>2, FirstIs

LEMMA PrefixIs ==
  ASSUME NEW S, NEW s \in Seq(S), NEW t \in Seq(S)
  PROVE  IsPrefix(s, t) <=> \E k \in 0..Len(t) : s = First(t, k)
<1>1. Len(s) \in Nat /\ Len(t) \in Nat /\ First(s, Len(s)) = s
  BY LenProperties, FirstWhole
<1>2. ASSUME NEW k \in 0..Len(t), s = First(t, k)
      PROVE  IsPrefix(s, t)
  <2>1. Len(s) = k
    BY <1>2, FirstIs
  <2> QED
    BY <1>1, <1>2, <2>1 DEF IsPrefix, First
<1>3. ASSUME IsPrefix(s, t)
      PROVE  \E k \in 0..Len(t) : s = First(t, k)
  <2>1. Len(s) \in 0..Len(t) /\ First(s, Len(s)) = First(t, Len(s))
    BY <1>1, <1>3 DEF IsPrefix, First
  <2> QED
    BY Zenon, <1>1, <2>1
<1> QED
  BY <1>2, <1>3

LEMMA PrefixLength ==
  ASSUME NEW S, NEW s \in Seq(S), NEW t \in Seq(S), IsPrefix(s, t)
  PROVE  /\ Len(s) \in Nat /\ Len(t) \in Nat /\ Len(s) <= Len(t)
         /\ \A i \in 1..Len(s) : s[i] = t[i]
<1>1. PICK k \in 0..Len(t) : s = First(t, k)
  BY PrefixIs
<1>2. Len(First(t, k)) = k /\ \A i \in 1..k : First(t, k)[i] = t[i]
  BY FirstIs
<1>3. Len(t) \in Nat
  BY LenProperties
<1> QED
  BY <1>1, <1>2, <1>3

LEMMA PrefixItself ==
  ASSUME NEW S, NEW s \in Seq(S)
  PROVE  IsPrefix(s, s)
BY DEF IsPrefix

LEMMA PrefixBoth ==
  ASSUME NEW S, NEW s \in Seq(S), NEW t \in Seq(S), IsPrefix(s, t), IsPrefix(t, s)
  PROVE  s = t
<1>1. Len(s) = Len(t) /\ \A i \in 1..Len(s) : s[i] = t[i]
  BY PrefixLength
<1> QED
  BY <1>1, SeqEqual

LEMMA ConsPrefix ==
  ASSUME NEW s \in Seq(Fields), NEW t \in Seq(Fields), NEW x \in Fields, IsPrefix(s, t)
  PROVE  IsPrefix(<<x>> \o s, <<x>> \o t)
<1>1. PICK k \in 0..Len(t) : s = First(t, k)
  BY PrefixIs
<1> DEFINE a == <<x>> \o s
           b == <<x>> \o t
<1>2. a = First(b, k + 1)
  BY <1>1, FirstOfCons
<1>3. a \in Seq(Fields) /\ b \in Seq(Fields) /\ Len(b) = Len(t) + 1 /\ Len(t) \in Nat
  BY ConsIs, LenProperties
<1> HIDE DEF a, b
<1>4. k + 1 \in 0..Len(b)
  BY <1>3
<1>5. IsPrefix(a, b)
  BY <1>2, <1>3, <1>4, PrefixIs
<1> QED
  BY <1>5 DEF a, b

(* What fits in the smaller table is a part of what fits in the larger.    *)
LEMMA KeptPrefix ==
  ASSUME NEW s \in Seq(Fields), NEW t \in Seq(Fields), IsPrefix(s, t),
         NEW small \in Nat, NEW large \in Nat, small <= large
  PROVE  IsPrefix(Kept(s, small), Kept(t, large))
<1>1. PICK k \in 0..Len(t) : s = First(t, k)
  BY PrefixIs
<1>2. PICK i : Fit(s, small, i) /\ Kept(s, small) = First(s, i)
  BY FitExists
<1>3. PICK j : Fit(t, large, j) /\ Kept(t, large) = First(t, j)
  BY FitExists
<1>4. Len(t) \in Nat /\ Len(s) = k
  BY <1>1, FirstIs, LenProperties
<1>5. i \in 0..k /\ i \in 0..Len(t) /\ j \in 0..Len(t)
  BY <1>2, <1>3, <1>4 DEF Fit
<1>6. First(s, i) = First(t, i)
  BY <1>1, <1>5, FirstOfFirst
<1>7. SizeOf(First(t, i)) <= small /\ SizeOf(First(t, i)) \in Nat
  BY <1>2, <1>5, <1>6, SizeOfFirst DEF Fit
<1>8. \A n \in j + 1..Len(t) : SizeOf(First(t, n)) > large
  BY <1>3 DEF Fit
<1>9. i \in 0..j
  BY <1>4, <1>5, <1>7, <1>8
<1>10. First(First(t, j), i) = First(t, i)
  BY <1>5, <1>9, FirstOfFirst
<1>11. First(t, j) \in Seq(Fields) /\ Len(First(t, j)) = j /\ First(t, i) \in Seq(Fields)
  BY <1>5, FirstIs
<1>12. IsPrefix(First(t, i), First(t, j))
  BY <1>9, <1>10, <1>11, PrefixIs
<1> QED
  BY <1>2, <1>3, <1>6, <1>12

(* A table that fits is kept whole, in a larger limit as well.             *)
LEMMA KeptWhole ==
  ASSUME NEW s \in Seq(Fields), NEW small \in Nat, NEW large \in Nat, small <= large,
         ~(Len(Kept(s, small)) < Len(s))
  PROVE  Kept(s, small) = s /\ Kept(s, large) = s
<1>1. PICK i : Fit(s, small, i) /\ Kept(s, small) = First(s, i)
  BY FitExists
<1>2. Len(s) \in Nat /\ i \in 0..Len(s) /\ SizeOf(First(s, i)) <= small
  BY <1>1, LenProperties DEF Fit
<1>3. Len(First(s, i)) = i
  BY <1>2, FirstIs
<1>4. i = Len(s)
  BY <1>1, <1>2, <1>3
<1>5. First(s, Len(s)) = s
  BY FirstWhole
<1>6. SizeOf(First(s, Len(s))) \in Nat
  BY <1>2, SizeOfFirst
<1>7. Fit(s, large, Len(s))
  BY <1>2, <1>4, <1>6 DEF Fit
<1>8. Kept(s, large) = First(s, Len(s))
  BY <1>7, FitUnique
<1> QED
  BY <1>1, <1>4, <1>5, <1>8

-----------------------------------------------------------------------------
(* Eviction and insertion *)

TableSet == [entries: Seq(Fields), size: Nat, max_size: Nat]
SoundTables == {t \in TableSet : Sound(t)}

(* A table of which the first k entries are left. *)
Popped(t, k) ==
    [entries |-> First(t.entries, k), size |-> SizeOf(First(t.entries, k)),
     max_size |-> t.max_size]

LEMMA TableFields ==
  ASSUME NEW t \in TableSet
  PROVE  /\ t.entries \in Seq(Fields) /\ t.size \in Nat /\ t.max_size \in Nat
         /\ t = [entries |-> t.entries, size |-> t.size, max_size |-> t.max_size]
BY DEF TableSet

LEMMA PopIs ==
  ASSUME NEW t \in TableSet, NEW k \in 1..Len(t.entries)
  PROVE  Pop(Popped(t, k)) = Popped(t, k - 1)
<1> DEFINE e == t.entries
           a == First(e, k)
           b == First(e, k - 1)
<1>1. e \in Seq(Fields) /\ Len(e) \in Nat
  BY TableFields, LenProperties
<1>2. a \in Seq(Fields) /\ Len(a) = k /\ a[k] = e[k] /\ k \in 0..Len(e) /\ k - 1 \in 0..k /\ k - 1 \in 0..Len(e)
  BY <1>1, FirstIs
<1>3. First(a, k - 1) = b
  BY <1>1, <1>2, FirstOfFirst
<1>4. Front(a) = b
  BY <1>2, <1>3 DEF Front, First
<1>5. Last(a) = e[k]
  BY <1>2 DEF Last
<1>6. SizeOf(a) = SizeOf(b) + Weight[e[k]]
  <2>1. PICK f : SizesOf(f, e)
    BY <1>1, SizesExist
  <2>2. f[k] = f[k - 1] + Weight[e[k]] /\ SizeOf(a) = f[k] /\ SizeOf(b) = f[k - 1]
    BY <1>2, <2>1 DEF SizesOf
  <2> QED
    BY <2>2
<1>7. SizeOf(b) \in Nat /\ Weight[e[k]] \in Nat
  BY <1>1, <1>2, SizeOfFirst, ElementOfSeq, WeightAssumption
<1>8. SizeOf(a) - Weight[e[k]] = SizeOf(b)
  BY <1>6, <1>7
<1> DEFINE p == Popped(t, k)
<1>9. p = [entries |-> a, size |-> SizeOf(a), max_size |-> t.max_size]
  BY DEF Popped
<1>10. Pop(p) = [entries |-> Front(a), size |-> SizeOf(a) - Weight[Last(a)], max_size |-> t.max_size]
  <2> HIDE DEF a
  <2> QED
    BY <1>9 DEF Pop
<1>11. Popped(t, k - 1) = [entries |-> b, size |-> SizeOf(b), max_size |-> t.max_size]
  BY DEF Popped
<1> QED
  BY <1>4, <1>5, <1>8, <1>10, <1>11

LEMMA EvictOneIs ==
  ASSUME NEW t \in TableSet, NEW k \in 0..Len(t.entries), NEW room \in Nat
  PROVE  EvictOne(Popped(t, k), room) =
           IF SizeOf(First(t.entries, k)) + room > t.max_size /\ k # 0
           THEN Popped(t, k - 1) ELSE Popped(t, k)
<1> DEFINE p == Popped(t, k)
<1>1. t.entries \in Seq(Fields) /\ Len(t.entries) \in Nat
  BY TableFields, LenProperties
<1>2. p.entries = First(t.entries, k) /\ p.size = SizeOf(First(t.entries, k)) /\ p.max_size = t.max_size
  BY DEF Popped
<1>3. p.entries = <<>> <=> k = 0
  <2>1. Len(First(t.entries, k)) = k /\ First(t.entries, k) \in Seq(Fields)
    BY <1>1, FirstIs
  <2> QED
    BY <1>2, <2>1, EmptySeq
<1>4. k # 0 => Pop(p) = Popped(t, k - 1)
  BY <1>1, PopIs
<1> HIDE DEF p
<1>5. EvictOne(p, room) =
        IF SizeOf(First(t.entries, k)) + room > t.max_size /\ k # 0
        THEN Popped(t, k - 1) ELSE p
  BY <1>2, <1>3, <1>4 DEF EvictOne
<1> QED
  BY <1>5 DEF p

Evictions(f, table, room, n) ==
    f = [k \in 0..n |-> IF k = 0 THEN table ELSE EvictOne(f[k - 1], room)]

LEMMA EvictionsStep ==
  ASSUME NEW table, NEW room, NEW n \in Nat, NEW f, Evictions(f, table, room, n)
  PROVE  \E g : Evictions(g, table, room, n + 1)
<1> DEFINE T(t) == EvictOne(t, room)
           g == [k \in 0..n + 1 |-> IF k = 0 THEN table ELSE T(f[k - 1])]
<1>1. f = [k \in 0..n |-> IF k = 0 THEN table ELSE T(f[k - 1])]
  BY DEF Evictions
<1> HIDE DEF T
<1>2. \A k \in 0..n : g[k] = f[k]
  BY <1>1
<1>3. \A k \in 0..n + 1 : k # 0 => k - 1 \in 0..n
  OBVIOUS
<1>4. g = [k \in 0..n + 1 |-> IF k = 0 THEN table ELSE T(g[k - 1])]
  BY <1>2, <1>3
<1> HIDE DEF g
<1> QED
  BY <1>4 DEF Evictions, T

LEMMA EvictTurns ==
  ASSUME NEW table, NEW room, Len(table.entries) \in Nat
  PROVE  \E f : /\ Evictions(f, table, room, Len(table.entries))
                /\ Evict(table, room) = f[Len(table.entries)]
<1> DEFINE n == Len(table.entries)
           S == {m \in Nat : \E f : Evictions(f, table, room, m)}
<1>1. 0 \in S
  <2>1. Evictions([k \in 0..0 |-> table], table, room, 0)
    BY DEF Evictions
  <2> QED
    BY <2>1
<1>2. \A m \in Nat : m \in S => m + 1 \in S
  BY EvictionsStep
<1>3. S \subseteq Nat /\ n \in Nat
  OBVIOUS
<1> HIDE DEF S
<1>4. n \in S
  BY <1>1, <1>2, <1>3, CountUp
<1>5. Evictions(CHOOSE f : Evictions(f, table, room, n), table, room, n)
  BY <1>4 DEF S
<1>6. Evict(table, room) = (CHOOSE f : Evictions(f, table, room, n))[n]
  BY DEF Evict, Evictions
<1> QED
  BY <1>5, <1>6

(* The loop stops at the longest part that leaves the room, or with no entry. *)
LEMMA EvictIs ==
  ASSUME NEW t \in TableSet, t.size = SizeOf(t.entries), NEW room \in Nat
  PROVE  \E k \in 0..Len(t.entries) :
            /\ Evict(t, room) = Popped(t, k)
            /\ k = 0 \/ SizeOf(First(t.entries, k)) + room <= t.max_size
            /\ \A j \in k + 1..Len(t.entries) : SizeOf(First(t.entries, j)) + room > t.max_size
<1> DEFINE e == t.entries
           n == Len(e)
           size(j) == SizeOf(First(e, j))
<1>1. /\ e \in Seq(Fields) /\ n \in Nat /\ t.max_size \in Nat
      /\ t = [entries |-> e, size |-> t.size, max_size |-> t.max_size]
  BY TableFields, LenProperties
<1>2. \A j \in 0..n : size(j) \in Nat
  BY <1>1, SizeOfFirst
<1>3. PICK f : Evictions(f, t, room, n) /\ Evict(t, room) = f[n]
  BY <1>1, EvictTurns
<1>4. \A k \in 0..n : f[k] = IF k = 0 THEN t ELSE EvictOne(f[k - 1], room)
  BY <1>3 DEF Evictions
<1>5. t = Popped(t, n)
  BY <1>1, FirstWhole DEF Popped
<1> DEFINE At(i, k) == /\ k \in 0..n /\ f[i] = Popped(t, k)
                       /\ \A j \in k + 1..n : size(j) + room > t.max_size
                       /\ k = 0 \/ k = n - i \/ size(k) + room <= t.max_size
           S == {i \in 0..n : \E k : At(i, k)}
<1>6. 0 \in S
  <2>1. At(0, n)
    BY <1>1, <1>4, <1>5
  <2> QED
    BY <1>1, <2>1
<1>7. ASSUME NEW i \in Nat, i \in S, i < n
      PROVE  i + 1 \in S
  <2>1. PICK k : At(i, k)
    BY <1>7
  <2>2. i + 1 \in 0..n /\ i + 1 # 0 /\ (i + 1) - 1 = i
    BY <1>1, <1>7
  <2>3. f[i + 1] = EvictOne(Popped(t, k), room)
    BY <1>4, <2>1, <2>2
  <2>4. f[i + 1] = IF size(k) + room > t.max_size /\ k # 0 THEN Popped(t, k - 1) ELSE Popped(t, k)
    BY <2>1, <2>3, EvictOneIs
  <2>5. CASE size(k) + room > t.max_size /\ k # 0
    <3>1. k - 1 \in 0..n /\ f[i + 1] = Popped(t, k - 1) /\ \A j \in (k - 1) + 1..n : j = k \/ j \in k + 1..n
      BY <1>1, <2>1, <2>4, <2>5
    <3>2. k - 1 = n - (i + 1)
      BY <1>1, <1>2, <2>1, <2>5
    <3>3. \A j \in (k - 1) + 1..n : size(j) + room > t.max_size
      BY <2>1, <2>5, <3>1
    <3>4. At(i + 1, k - 1)
      BY <3>1, <3>2, <3>3
    <3> QED
      BY <2>2, <3>4
  <2>6. CASE ~(size(k) + room > t.max_size /\ k # 0)
    <3>1. k = 0 \/ size(k) + room <= t.max_size
      BY <1>1, <1>2, <2>1, <2>6
    <3>2. At(i + 1, k)
      BY <2>1, <2>4, <2>6, <3>1
    <3> QED
      BY <2>2, <3>2
  <2> QED
    BY <2>5, <2>6
<1>8. S \subseteq Nat
  BY <1>1
<1> HIDE DEF S
<1>9. n \in S
  BY <1>1, <1>6, <1>7, <1>8, CountUp
<1>10. PICK k : At(n, k)
  BY <1>9 DEF S
<1>11. k = n - n => k = 0
  BY <1>1
<1> QED
  BY <1>3, <1>10, <1>11

LEMMA SoundFields ==
  ASSUME NEW t \in SoundTables
  PROVE  /\ t \in TableSet /\ t.entries \in Seq(Fields) /\ t.size \in Nat /\ t.max_size \in Nat
         /\ t.size = SizeOf(t.entries) /\ t.size <= t.max_size
         /\ t.max_size <= MAX_TABLE_SIZE_CAP
BY TableFields DEF SoundTables, Sound

LEMMA SoundIs ==
  ASSUME NEW e \in Seq(Fields), NEW max \in Nat, max <= MAX_TABLE_SIZE_CAP, SizeOf(e) <= max
  PROVE  [entries |-> e, size |-> SizeOf(e), max_size |-> max] \in SoundTables
<1>1. SizeOf(e) \in Nat
  BY SizeTyped
<1> QED
  BY <1>1 DEF SoundTables, Sound, TableSet

(* What is left after an entry has come in front is what fits of the whole. *)
LEMMA FitCons ==
  ASSUME NEW e \in Seq(Fields), NEW x \in Fields, NEW max \in Nat, NEW k \in 0..Len(e),
         Weight[x] <= max, k = 0 \/ SizeOf(First(e, k)) + Weight[x] <= max,
         \A j \in k + 1..Len(e) : SizeOf(First(e, j)) + Weight[x] > max
  PROVE  Kept(<<x>> \o e, max) = <<x>> \o First(e, k)
<1> DEFINE t == <<x>> \o e
<1>1. t \in Seq(Fields) /\ Len(t) = Len(e) + 1 /\ Len(e) \in Nat /\ Weight[x] \in Nat
  BY ConsIs, LenProperties, WeightAssumption
<1>2. ASSUME NEW j \in 0..Len(e)
      PROVE  SizeOf(First(t, j + 1)) = Weight[x] + SizeOf(First(e, j)) /\ SizeOf(First(e, j)) \in Nat
  BY SizeCons, SizeOfFirst
<1>3. SizeOf(First(e, 0)) = 0
  BY FirstWhole, EmptySize
<1>4. First(t, k + 1) = <<x>> \o First(e, k)
  BY FirstOfCons
<1> HIDE DEF t
<1>5. SizeOf(First(t, k + 1)) <= max
  BY <1>1, <1>2, <1>3
<1>6. ASSUME NEW j \in (k + 1) + 1..Len(t)
      PROVE  SizeOf(First(t, j)) > max
  <2>1. j - 1 \in k + 1..Len(e) /\ j - 1 \in 0..Len(e) /\ (j - 1) + 1 = j
    BY <1>1
  <2>2. SizeOf(First(t, j)) = Weight[x] + SizeOf(First(e, j - 1)) /\ SizeOf(First(e, j - 1)) \in Nat
    BY <1>2, <2>1
  <2>3. SizeOf(First(e, j - 1)) + Weight[x] > max
    BY <2>1
  <2> QED
    BY <1>1, <2>2, <2>3
<1>7. k + 1 \in 0..Len(t)
  BY <1>1
<1>8. Fit(t, max, k + 1)
  BY <1>5, <1>6, <1>7 DEF Fit
<1>9. Kept(t, max) = First(t, k + 1)
  BY <1>1, <1>8, FitUnique
<1> QED
  BY <1>4, <1>9 DEF t

LEMMA KeptNothing ==
  ASSUME NEW e \in Seq(Fields), NEW x \in Fields, NEW max \in Nat, Weight[x] > max
  PROVE  Kept(<<x>> \o e, max) = <<>>
<1> DEFINE t == <<x>> \o e
<1>1. t \in Seq(Fields) /\ Len(t) = Len(e) + 1 /\ Len(e) \in Nat /\ Weight[x] \in Nat
  BY ConsIs, LenProperties, WeightAssumption
<1>2. ASSUME NEW j \in 0..Len(e)
      PROVE  SizeOf(First(t, j + 1)) = Weight[x] + SizeOf(First(e, j)) /\ SizeOf(First(e, j)) \in Nat
  BY SizeCons, SizeOfFirst
<1> HIDE DEF t
<1>3. SizeOf(First(t, 0)) = 0 /\ First(t, 0) = <<>>
  BY <1>1, FirstWhole, EmptySize
<1>4. ASSUME NEW j \in 0 + 1..Len(t)
      PROVE  SizeOf(First(t, j)) > max
  <2>1. j - 1 \in 0..Len(e) /\ (j - 1) + 1 = j
    BY <1>1
  <2>2. SizeOf(First(t, j)) = Weight[x] + SizeOf(First(e, j - 1)) /\ SizeOf(First(e, j - 1)) \in Nat
    BY <1>2, <2>1
  <2> QED
    BY <1>1, <2>2
<1>5. Fit(t, max, 0)
  BY <1>1, <1>3, <1>4 DEF Fit
<1> QED
  BY <1>1, <1>3, <1>5, FitUnique DEF t

LEMMA InsertIs ==
  ASSUME NEW t \in SoundTables, NEW x \in Fields
  PROVE  /\ insert(t, x) \in SoundTables
         /\ insert(t, x).entries = Kept(<<x>> \o t.entries, t.max_size)
         /\ insert(t, x).max_size = t.max_size
<1> DEFINE e == t.entries
<1>1. /\ t \in TableSet /\ e \in Seq(Fields) /\ t.max_size \in Nat /\ t.size = SizeOf(e)
      /\ t.max_size <= MAX_TABLE_SIZE_CAP /\ Len(e) \in Nat /\ Weight[x] \in Nat
  BY SoundFields, LenProperties, WeightAssumption
<1>2. PICK k \in 0..Len(e) :
            /\ Evict(t, Weight[x]) = Popped(t, k)
            /\ k = 0 \/ SizeOf(First(e, k)) + Weight[x] <= t.max_size
            /\ \A j \in k + 1..Len(e) : SizeOf(First(e, j)) + Weight[x] > t.max_size
  BY <1>1, EvictIs
<1> DEFINE a == First(e, k)
           p == Popped(t, k)
<1>3. a \in Seq(Fields) /\ SizeOf(a) \in Nat
  BY <1>1, FirstIs, SizeOfFirst
<1>4. p = [entries |-> a, size |-> SizeOf(a), max_size |-> t.max_size]
  BY DEF Popped
<1> HIDE DEF a, p
<1>5. CASE Weight[x] > t.max_size
  <2>1. k = 0
    BY <1>1, <1>2, <1>3, <1>5 DEF a
  <2>2. a = <<>>
    BY <1>1, <2>1, FirstWhole DEF a
  <2>3. insert(t, x) = p
    BY <1>2, <1>5 DEF insert, p
  <2>4. Kept(<<x>> \o e, t.max_size) = <<>>
    BY <1>1, <1>5, KeptNothing
  <2>5. SizeOf(a) <= t.max_size
    BY <1>1, <2>2, EmptySize
  <2>6. p \in SoundTables
    BY <1>1, <1>3, <1>4, <2>5, SoundIs
  <2> QED
    BY <1>4, <2>2, <2>3, <2>4, <2>6
<1>6. CASE ~(Weight[x] > t.max_size)
  <2> DEFINE b == <<x>> \o a
             q == [entries |-> b, size |-> SizeOf(a) + Weight[x], max_size |-> t.max_size]
  <2>1. insert(t, x) = q
    BY <1>2, <1>4, <1>6 DEF insert, p
  <2>2. Kept(<<x>> \o e, t.max_size) = b
    <3>1. Weight[x] <= t.max_size
      BY <1>1, <1>6
    <3>2. Kept(<<x>> \o e, t.max_size) = <<x>> \o First(e, k)
      BY <1>1, <1>2, <3>1, FitCons
    <3> QED
      BY <3>2 DEF a
  <2>3. b \in Seq(Fields) /\ SizeOf(b) = SizeOf(a) + Weight[x]
    <3>1. Len(a) \in Nat /\ b \in Seq(Fields) /\ Len(b) = Len(a) + 1
      BY <1>3, ConsIs, LenProperties
    <3>2. SizeOf(First(b, Len(a) + 1)) = Weight[x] + SizeOf(First(a, Len(a)))
      BY <1>3, <3>1, SizeCons
    <3>3. First(a, Len(a)) = a
      BY <1>3, FirstWhole
    <3> HIDE DEF b
    <3>4. First(b, Len(b)) = b
      BY <3>1, FirstWhole
    <3> QED
      BY <1>1, <1>3, <3>1, <3>2, <3>3, <3>4
  <2>4. SizeOf(b) <= t.max_size
    BY <1>1, <2>2, <2>3, KeptTyped, ConsIs
  <2> HIDE DEF b
  <2>5. q \in SoundTables
    BY <1>1, <2>3, <2>4, SoundIs
  <2> QED
    BY <2>1, <2>2, <2>5
<1> QED
  BY <1>5, <1>6

LEMMA CapIs == MAX_TABLE_SIZE_CAP \in Nat /\ TableSize \in Nat /\ TableSize <= MAX_TABLE_SIZE_CAP
BY SMT, SizesAssumption

LEMMA SetMaxIs ==
  ASSUME NEW t \in SoundTables, NEW n \in Nat
  PROVE  LET max == IF n <= MAX_TABLE_SIZE_CAP THEN n ELSE MAX_TABLE_SIZE_CAP IN
         /\ set_max(t, n) \in SoundTables
         /\ set_max(t, n).entries = Kept(t.entries, max)
         /\ set_max(t, n).max_size = max
<1> DEFINE max == IF n <= MAX_TABLE_SIZE_CAP THEN n ELSE MAX_TABLE_SIZE_CAP
           e == t.entries
           u == [entries |-> e, size |-> t.size, max_size |-> max]
<1>1. /\ t \in TableSet /\ e \in Seq(Fields) /\ t.size = SizeOf(e) /\ t.size \in Nat
      /\ max \in Nat /\ max <= MAX_TABLE_SIZE_CAP /\ Len(e) \in Nat
      /\ t = [entries |-> e, size |-> t.size, max_size |-> t.max_size]
  <2>1. t \in TableSet /\ e \in Seq(Fields) /\ t.size = SizeOf(e) /\ t.size \in Nat
    BY SoundFields
  <2>2. max \in Nat /\ max <= MAX_TABLE_SIZE_CAP
    <3>1. MAX_TABLE_SIZE_CAP \in Nat
      BY CapIs
    <3> QED
      BY <3>1
  <2>3. Len(e) \in Nat
    BY <2>1, LenProperties
  <2>4. t = [entries |-> e, size |-> t.size, max_size |-> t.max_size]
    BY <2>1, TableFields
  <2> QED
    BY <2>1, <2>2, <2>3, <2>4
<1>2. Min({n, MAX_TABLE_SIZE_CAP}) = max
  <2>1. MAX_TABLE_SIZE_CAP \in Nat
    BY CapIs
  <2>2. \A y \in {n, MAX_TABLE_SIZE_CAP} : max <= y
    BY <2>1
  <2>3. max \in {n, MAX_TABLE_SIZE_CAP}
    OBVIOUS
  <2>4. \A x \in {n, MAX_TABLE_SIZE_CAP} :
           (\A y \in {n, MAX_TABLE_SIZE_CAP} : x <= y) => x = max
    BY <2>1
  <2> QED
    BY <2>2, <2>3, <2>4 DEF Min
<1>3. [t EXCEPT !.max_size = Min({n, MAX_TABLE_SIZE_CAP})] = u
  BY <1>1, <1>2
<1>4. set_max(t, n) = Evict(u, 0)
  BY <1>3 DEF set_max
<1>5. u \in TableSet /\ u.entries = e /\ u.size = SizeOf(e) /\ u.max_size = max
  BY <1>1 DEF TableSet
<1> HIDE DEF u, max
<1>6. PICK k \in 0..Len(e) :
            /\ Evict(u, 0) = Popped(u, k)
            /\ k = 0 \/ SizeOf(First(e, k)) + 0 <= max
            /\ \A j \in k + 1..Len(e) : SizeOf(First(e, j)) + 0 > max
  BY <1>5, EvictIs
<1>7. \A j \in 0..Len(e) : SizeOf(First(e, j)) \in Nat
  BY <1>1, SizeOfFirst
<1>8. SizeOf(First(e, 0)) = 0
  BY <1>1, FirstWhole, EmptySize
<1>9. SizeOf(First(e, k)) <= max
  BY <1>1, <1>6, <1>7, <1>8
<1>10. Fit(e, max, k)
  BY <1>1, <1>6, <1>7, <1>9 DEF Fit
<1>11. Kept(e, max) = First(e, k) /\ First(e, k) \in Seq(Fields)
  BY <1>1, <1>10, FitUnique, FirstIs
<1>12. Popped(u, k) = [entries |-> First(e, k), size |-> SizeOf(First(e, k)), max_size |-> max]
  BY <1>5 DEF Popped
<1>13. Popped(u, k) \in SoundTables
  BY <1>1, <1>9, <1>11, <1>12, SoundIs
<1> QED
  BY <1>4, <1>6, <1>11, <1>12, <1>13 DEF max

-----------------------------------------------------------------------------
(* Numbers *)

(* The prefixes and masks of the representations. *)
Marks(prefix, mask) ==
    \/ prefix = 7 /\ mask = 128
    \/ prefix = 6 /\ mask = 64
    \/ prefix = 5 /\ mask = 32
    \/ prefix = 4 /\ mask \in {0, 16}

(* No index and no size of a table is larger. *)
Largest == 70000

LEMMA LargestIs == Largest \in Nat
BY SMT DEF Largest

LEMMA FourOctets ==
  ASSUME NEW n \in Nat, n <= Largest
  PROVE  /\ n \div 128 \in Nat /\ (n \div 128) \div 128 \in Nat
         /\ (n \div 128) \div 128 < 128
BY SMT DEF Largest

OctetSet == {Octet(o) : o \in 0..255}

(* The octets of a number, of which there are at most four. *)
Spells(s, n, full, mask) ==
    /\ s \in Seq(OctetSet)
    /\ n < full => Len(s) = 1 /\ s[1] = Octet(mask + n)
    /\ ~(n < full) =>
         LET rest == n - full
             mid == rest \div 128
         IN /\ s[1] = Octet(mask + full)
            /\ rest < 128 => Len(s) = 2 /\ s[2] = Octet(rest)
            /\ ~(rest < 128) =>
                 /\ s[2] = Octet((rest % 128) + 128)
                 /\ mid < 128 => Len(s) = 3 /\ s[3] = Octet(mid)
                 /\ ~(mid < 128) =>
                      /\ s[3] = Octet((mid % 128) + 128)
                      /\ Len(s) = 4 /\ s[4] = Octet(mid \div 128)

LEMMA FullIs ==
  ASSUME NEW prefix, NEW mask, Marks(prefix, mask)
  PROVE  /\ Full(prefix) \in {15, 31, 63, 127} /\ 2^prefix = Full(prefix) + 1
         /\ mask \in {0, 16, 32, 64, 128} /\ mask + Full(prefix) <= 255
<1>1. CASE prefix = 7 /\ mask = 128
  BY <1>1 DEF Full
<1>2. CASE prefix = 6 /\ mask = 64
  BY <1>2 DEF Full
<1>3. CASE prefix = 5 /\ mask = 32
  BY <1>3 DEF Full
<1>4. CASE prefix = 4 /\ mask \in {0, 16}
  BY <1>4 DEF Full
<1> QED
  BY <1>1, <1>2, <1>3, <1>4 DEF Marks

LEMMA PutLast ==
  ASSUME NEW b, NEW v \in Nat, v < 128
  PROVE  PutOctet([block |-> b, val |-> v]) = [block |-> b, val |-> v]
BY DEF PutOctet

LEMMA PutMore ==
  ASSUME NEW b, NEW v \in Nat, ~(v < 128), NEW o, o = Octet((v % 128) + 128),
         NEW w, w = v \div 128
  PROVE  PutOctet([block |-> b, val |-> v]) = [block |-> Append(b, o), val |-> w]
BY DEF PutOctet

(* There is one way to spell a number. *)
LEMMA SpellsOnce ==
  ASSUME NEW s, NEW t, NEW n \in 0..Largest, NEW full \in Nat, NEW mask,
         Spells(s, n, full, mask), Spells(t, n, full, mask)
  PROVE  s = t
<1> DEFINE rest == n - full
           mid == rest \div 128
<1>1. s \in Seq(OctetSet) /\ t \in Seq(OctetSet)
  BY DEF Spells
<1>2. CASE n < full
  <2>1. Len(s) = 1 /\ Len(t) = 1 /\ s[1] = t[1]
    BY <1>2 DEF Spells
  <2> QED
    BY <1>1, <2>1, SeqEqual
<1>3. CASE ~(n < full) /\ rest < 128
  <2>1. Len(s) = 2 /\ Len(t) = 2 /\ s[1] = t[1] /\ s[2] = t[2]
    BY <1>3 DEF Spells
  <2>2. \A i \in 1..2 : i = 1 \/ i = 2
    OBVIOUS
  <2> QED
    BY <1>1, <2>1, <2>2, SeqEqual
<1>4. CASE ~(n < full) /\ ~(rest < 128) /\ mid < 128
  <2>1. Len(s) = 3 /\ Len(t) = 3 /\ s[1] = t[1] /\ s[2] = t[2] /\ s[3] = t[3]
    BY <1>4 DEF Spells
  <2>2. \A i \in 1..3 : i = 1 \/ i = 2 \/ i = 3
    OBVIOUS
  <2> QED
    BY <1>1, <2>1, <2>2, SeqEqual
<1>5. CASE ~(n < full) /\ ~(rest < 128) /\ ~(mid < 128)
  <2>1. Len(s) = 4 /\ Len(t) = 4 /\ s[1] = t[1] /\ s[2] = t[2] /\ s[3] = t[3] /\ s[4] = t[4]
    BY <1>5 DEF Spells
  <2>2. \A i \in 1..4 : i = 1 \/ i = 2 \/ i = 3 \/ i = 4
    OBVIOUS
  <2> QED
    BY <1>1, <2>1, <2>2, SeqEqual
<1> QED
  BY <1>2, <1>3, <1>4, <1>5

LEMMA OctetIs ==
  ASSUME NEW o \in 0..255
  PROVE  Octet(o) \in OctetSet /\ Octet(o).octet = o
BY DEF OctetSet, Octet

LEMMA OneOctet ==
  ASSUME NEW o \in 0..255
  PROVE  <<Octet(o)>> \in Seq(OctetSet) /\ Len(<<Octet(o)>>) = 1 /\ <<Octet(o)>>[1] = Octet(o)
<1>1. Octet(o) \in OctetSet
  BY OctetIs
<1> QED
  BY <1>1

LEMMA OctetsOf ==
  ASSUME NEW rest \in Nat, rest <= Largest
  PROVE  /\ rest % 128 \in 0..127 /\ (rest % 128) + 128 \in 0..255
         /\ rest \div 128 \in Nat /\ rest \div 128 <= Largest
         /\ (rest \div 128) \div 128 \in 0..127
BY SMT DEF Largest

LEMMA AppendIs ==
  ASSUME NEW S, NEW s \in Seq(S), NEW o \in S, NEW r, r = Append(s, o)
  PROVE  /\ r \in Seq(S) /\ Len(r) = Len(s) + 1
         /\ \A i \in 1..Len(s) : r[i] = s[i]
         /\ r[Len(s) + 1] = o
<1>1. r \in Seq(S)
  BY AppendProperties
<1>2. Len(r) = Len(s) + 1
  BY AppendProperties
<1>3. \A i \in 1..Len(s) : r[i] = s[i]
  BY AppendProperties
<1>4. r[Len(s) + 1] = o
  BY AppendProperties
<1> QED
  BY <1>1, <1>2, <1>3, <1>4

LEMMA AppendTo1 ==
  ASSUME NEW S, NEW s \in Seq(S), Len(s) = 1, NEW o \in S, NEW r, r = Append(s, o)
  PROVE  r \in Seq(S) /\ Len(r) = 2 /\ r[1] = s[1] /\ r[2] = o
<1>1. /\ r \in Seq(S) /\ Len(r) = Len(s) + 1
      /\ \A i \in 1..Len(s) : r[i] = s[i]
      /\ r[Len(s) + 1] = o
  BY AppendIs
<1>2. 1 \in 1..Len(s) /\ Len(s) + 1 = 2
  OBVIOUS
<1> QED
  BY <1>1, <1>2

LEMMA AppendTo2 ==
  ASSUME NEW S, NEW s \in Seq(S), Len(s) = 2, NEW o \in S, NEW r, r = Append(s, o)
  PROVE  r \in Seq(S) /\ Len(r) = 3 /\ r[1] = s[1] /\ r[2] = s[2] /\ r[3] = o
<1>1. /\ r \in Seq(S) /\ Len(r) = Len(s) + 1
      /\ \A i \in 1..Len(s) : r[i] = s[i]
      /\ r[Len(s) + 1] = o
  BY AppendIs
<1>2. 1 \in 1..Len(s) /\ 2 \in 1..Len(s) /\ Len(s) + 1 = 3
  OBVIOUS
<1> QED
  BY <1>1, <1>2

LEMMA AppendTo3 ==
  ASSUME NEW S, NEW s \in Seq(S), Len(s) = 3, NEW o \in S, NEW r, r = Append(s, o)
  PROVE  r \in Seq(S) /\ Len(r) = 4 /\ r[1] = s[1] /\ r[2] = s[2] /\ r[3] = s[3] /\ r[4] = o
<1>1. /\ r \in Seq(S) /\ Len(r) = Len(s) + 1
      /\ \A i \in 1..Len(s) : r[i] = s[i]
      /\ r[Len(s) + 1] = o
  BY AppendIs
<1>2. 1 \in 1..Len(s) /\ 2 \in 1..Len(s) /\ 3 \in 1..Len(s) /\ Len(s) + 1 = 4
  OBVIOUS
<1> QED
  BY <1>1, <1>2

LEMMA OneMore ==
  ASSUME NEW b \in Seq(OctetSet), Len(b) = 1, NEW x \in OctetSet, NEW r, r = Append(b, x)
  PROVE  r \in Seq(OctetSet) /\ Len(r) = 2 /\ r[1] = b[1] /\ r[2] = x
BY AppendTo1

LEMMA TwoMore ==
  ASSUME NEW b \in Seq(OctetSet), Len(b) = 1, NEW x \in OctetSet, NEW y \in OctetSet,
         NEW r, r = Append(Append(b, x), y)
  PROVE  r \in Seq(OctetSet) /\ Len(r) = 3 /\ r[1] = b[1] /\ r[2] = x /\ r[3] = y
<1>1. PICK c : c = Append(b, x)
  OBVIOUS
<1>2. c \in Seq(OctetSet) /\ Len(c) = 2 /\ c[1] = b[1] /\ c[2] = x
  BY <1>1, OneMore
<1>3. r = Append(c, y)
  BY <1>1
<1>4. r \in Seq(OctetSet) /\ Len(r) = 3 /\ r[1] = c[1] /\ r[2] = c[2] /\ r[3] = y
  BY <1>2, <1>3, AppendTo2
<1> QED
  BY <1>2, <1>4

LEMMA ThreeMore ==
  ASSUME NEW c \in Seq(OctetSet), Len(c) = 3, NEW z \in OctetSet, NEW r, r = Append(c, z)
  PROVE  r \in Seq(OctetSet) /\ Len(r) = 4 /\ r[1] = c[1] /\ r[2] = c[2] /\ r[3] = c[3] /\ r[4] = z
BY AppendTo3

(* The last turn of the loop of encode_int, and what follows it. *)
Ended(s) == Append(s.block, Octet(s.val))

LEMMA RestIs ==
  ASSUME NEW full \in Nat, NEW n \in 0..Largest, ~(n < full)
  PROVE  n - full \in Nat /\ n - full <= Largest
<1>1. n \in Nat /\ n <= Largest
  BY LargestIs
<1> QED
  BY <1>1, LargestIs

LEMMA LoopSpells ==
  ASSUME NEW n \in 0..Largest, NEW full \in Nat, ~(n < full), NEW mask \in Nat,
         mask + full \in 0..255, NEW b, b = <<Octet(mask + full)>>,
         NEW rest, rest = n - full
  PROVE  Spells(Ended(PutOctet(PutOctet(PutOctet([block |-> b, val |-> rest])))),
                n, full, mask)
<1>1. rest \in Nat /\ rest <= Largest /\ n \in Nat
  <2>1. n \in Nat
    OBVIOUS
  <2> QED
    BY <2>1, RestIs
<1>2. PICK mid : mid = rest \div 128
  OBVIOUS
<1>3. (rest % 128) + 128 \in 0..255 /\ mid \in Nat /\ mid <= Largest
  BY <1>1, <1>2, OctetsOf
<1>4. PICK high : high = mid \div 128
  OBVIOUS
<1>5. (mid % 128) + 128 \in 0..255 /\ high \in 0..127
  BY <1>1, <1>2, <1>3, <1>4, OctetsOf
<1>6. PICK second : second = Octet((rest % 128) + 128)
  OBVIOUS
<1>7. PICK third : third = Octet((mid % 128) + 128)
  OBVIOUS
<1>8. second \in OctetSet /\ third \in OctetSet
  BY <1>3, <1>5, <1>6, <1>7, OctetIs
<1>9. b \in Seq(OctetSet) /\ Len(b) = 1 /\ b[1] = Octet(mask + full)
  BY OneOctet
<1>10. mid \in Nat /\ high \in 0..127
  BY <1>3, <1>5
<1> DEFINE s0 == [block |-> b, val |-> rest]
           t1 == Append(b, second)
           t2 == Append(t1, third)
           s1 == [block |-> t1, val |-> mid]
           s2 == [block |-> t2, val |-> high]
<1>11. CASE rest < 128
  <2>1. PutOctet(s0) = s0
    BY <1>1, <1>11, PutLast
  <2>2. PICK last : last = Octet(rest)
    OBVIOUS
  <2>3. PICK r : r = Append(b, last)
    OBVIOUS
  <2>4. rest \in 0..255
    BY <1>1, <1>11
  <2>5. last \in OctetSet
    BY <2>2, <2>4, OctetIs
  <2>6. r \in Seq(OctetSet) /\ Len(r) = 2 /\ r[1] = b[1] /\ r[2] = last
    BY <1>9, <2>3, <2>5, OneMore
  <2>7. Ended(s0) = r
    BY <2>2, <2>3 DEF Ended
  <2>8. Spells(r, n, full, mask)
    BY <1>9, <1>11, <2>2, <2>6 DEF Spells
  <2> HIDE DEF s0
  <2> QED
    BY <2>1, <2>7, <2>8 DEF s0
<1>12. CASE ~(rest < 128) /\ mid < 128
  <2>1. PutOctet(s0) = s1
    BY <1>1, <1>2, <1>6, <1>12 DEF PutOctet
  <2>2. PutOctet(s1) = s1
    BY <1>10, <1>12, PutLast
  <2>3. PICK last : last = Octet(mid)
    OBVIOUS
  <2>4. PICK r : r = Append(t1, last)
    OBVIOUS
  <2>5. mid \in 0..255
    BY <1>10, <1>12
  <2>6. last \in OctetSet
    BY <2>3, <2>5, OctetIs
  <2>7. r \in Seq(OctetSet) /\ Len(r) = 3 /\ r[1] = b[1] /\ r[2] = second /\ r[3] = last
    BY <1>8, <1>9, <2>4, <2>6, TwoMore
  <2>8. Ended(s1) = r
    BY <2>3, <2>4 DEF Ended
  <2>9. Spells(r, n, full, mask)
    BY <1>2, <1>6, <1>9, <1>12, <2>3, <2>7 DEF Spells
  <2> HIDE DEF s0, s1
  <2> QED
    BY <2>1, <2>2, <2>8, <2>9 DEF s0
<1>13. CASE ~(rest < 128) /\ ~(mid < 128)
  <2>1. PutOctet(s0) = s1
    BY <1>1, <1>2, <1>6, <1>13 DEF PutOctet
  <2>2. PutOctet(s1) = s2
    BY <1>4, <1>7, <1>10, <1>13 DEF PutOctet
  <2>3. high \in Nat /\ high < 128 /\ high \in 0..255
    BY <1>10
  <2>4. PutOctet(s2) = s2
    BY <2>3, PutLast
  <2>5. PICK last : last = Octet(high)
    OBVIOUS
  <2>6. PICK r : r = Append(t2, last)
    OBVIOUS
  <2>7. last \in OctetSet
    BY <2>3, <2>5, OctetIs
  <2>8. /\ r \in Seq(OctetSet) /\ Len(r) = 4 /\ r[1] = b[1] /\ r[2] = second /\ r[3] = third
        /\ r[4] = last
    <3>1. PICK c : c = t2
      OBVIOUS
    <3>2. c \in Seq(OctetSet) /\ Len(c) = 3 /\ c[1] = b[1] /\ c[2] = second /\ c[3] = third
      BY <1>8, <1>9, <3>1, TwoMore
    <3>3. r = Append(c, last)
      BY <2>6, <3>1
    <3>4. r \in Seq(OctetSet) /\ Len(r) = 4 /\ r[1] = c[1] /\ r[2] = c[2] /\ r[3] = c[3] /\ r[4] = last
      BY <2>7, <3>2, <3>3, ThreeMore
    <3> QED
      BY <3>2, <3>4
  <2>9. Ended(s2) = r
    BY <2>5, <2>6 DEF Ended
  <2>10. Spells(r, n, full, mask)
    BY <1>2, <1>4, <1>6, <1>7, <1>9, <1>13, <2>5, <2>8 DEF Spells
  <2> HIDE DEF s0, s1, s2
  <2> QED
    BY <2>1, <2>2, <2>4, <2>9, <2>10 DEF s0
<1> QED
  BY <1>11, <1>12, <1>13

LEMMA EncodeIntIs ==
  ASSUME NEW prefix, NEW mask, Marks(prefix, mask), NEW n \in 0..Largest
  PROVE  Spells(encode_int(n, prefix, mask), n, Full(prefix), mask)
<1>1. PICK full : full = Full(prefix)
  OBVIOUS
<1>2. full \in Nat /\ mask \in Nat /\ mask + full \in 0..255 /\ n \in Nat
  BY <1>1, FullIs
<1>3. CASE n < full
  <2>1. encode_int(n, prefix, mask) = <<Octet(mask + n)>>
    BY <1>1, <1>3 DEF encode_int
  <2>2. mask + n \in 0..255
    BY <1>2, <1>3
  <2> QED
    BY <1>1, <1>3, <2>1, <2>2, OneOctet DEF Spells
<1>4. CASE ~(n < full)
  <2>1. PICK b : b = <<Octet(mask + full)>>
    OBVIOUS
  <2>2. PICK rest : rest = n - full
    OBVIOUS
  <2>3. encode_int(n, prefix, mask) = Ended(PutOctet(PutOctet(PutOctet([block |-> b, val |-> rest]))))
    BY <1>1, <1>4, <2>1, <2>2 DEF encode_int, Ended
  <2>4. Spells(Ended(PutOctet(PutOctet(PutOctet([block |-> b, val |-> rest])))), n, full, mask)
    BY <1>2, <1>4, <2>1, <2>2, LoopSpells
  <2> QED
    BY <1>1, <2>3, <2>4
<1> QED
  BY <1>3, <1>4

LEMMA Powers ==
  /\ 128^(1 - 1) = 1 /\ 128^1 = 128 /\ 128^2 = 16384 /\ 128^3 = 2097152 /\ 128^4 = 268435456
  /\ 128^(2 - 1) = 128 /\ 128^(3 - 1) = 16384 /\ 128^(4 - 1) = 2097152 /\ 128^(5 - 1) = 268435456
BY SMT

LEMMA Quotients ==
  ASSUME NEW rest \in Nat, rest <= Largest
  PROVE  /\ rest \div 1 = rest /\ rest \div 16384 = (rest \div 128) \div 128
         /\ rest < 2097152 /\ rest < 128^5
         /\ (rest \div 128 < 128) <=> (rest < 16384)
         /\ rest \div 16384 < 128
BY SMT DEF Largest

(* The number of octets after the first. *)
Wide(rest, d) == rest < 128^d /\ (d = 1 \/ rest >= 128^(d - 1))

LEMMA WideIs ==
  ASSUME NEW rest \in Nat, rest <= Largest, NEW d \in 1..5
  PROVE  Wide(rest, d) <=> /\ rest < 128 => d = 1
                           /\ ~(rest < 128) /\ rest < 16384 => d = 2
                           /\ ~(rest < 16384) => d = 3
<1>1. rest < 2097152
  BY Quotients
<1>2. CASE d = 1
  BY <1>2, Powers, SMT DEF Wide
<1>3. CASE d = 2
  BY <1>3, Powers, SMT DEF Wide
<1>4. CASE d = 3
  BY <1>1, <1>4, Powers, SMT DEF Wide
<1>5. CASE d = 4
  BY <1>1, <1>5, Powers, SMT DEF Wide
<1>6. CASE d = 5
  BY <1>1, <1>6, Powers, SMT DEF Wide
<1> QED
  BY <1>2, <1>3, <1>4, <1>5, <1>6

DigitOf(rest, digits, i) ==
    Octet(((rest \div 128^(i - 1)) % 128) + (IF i < digits THEN 128 ELSE 0))

LEMMA DigitsAre ==
  ASSUME NEW rest \in Nat, rest <= Largest
  PROVE  /\ rest < 128 => DigitOf(rest, 1, 1) = Octet(rest)
         /\ \A d \in {2, 3} : DigitOf(rest, d, 1) = Octet((rest % 128) + 128)
         /\ rest < 16384 => DigitOf(rest, 2, 2) = Octet(rest \div 128)
         /\ DigitOf(rest, 3, 2) = Octet(((rest \div 128) % 128) + 128)
         /\ DigitOf(rest, 3, 3) = Octet((rest \div 128) \div 128)
<1>1. /\ rest \div 1 = rest /\ rest \div 16384 = (rest \div 128) \div 128 /\ rest \div 16384 < 128
      /\ (rest \div 128 < 128) <=> (rest < 16384)
  BY Quotients
<1>2. rest \div 128 \in Nat /\ (rest \div 128) \div 128 \in Nat
  BY FourOctets
<1>3. \A v \in Nat : v < 128 => v % 128 = v
  OBVIOUS
<1>4. rest < 128 => DigitOf(rest, 1, 1) = Octet(rest)
  BY <1>1, <1>3, Powers DEF DigitOf
<1>5. \A d \in {2, 3} : DigitOf(rest, d, 1) = Octet((rest % 128) + 128)
  BY <1>1, Powers DEF DigitOf
<1>6. rest < 16384 => DigitOf(rest, 2, 2) = Octet(rest \div 128)
  BY <1>1, <1>2, <1>3, Powers, SMT DEF DigitOf
<1>7. DigitOf(rest, 3, 2) = Octet(((rest \div 128) % 128) + 128)
  BY Powers, SMT DEF DigitOf
<1>8. DigitOf(rest, 3, 3) = Octet((rest \div 128) \div 128)
  BY <1>1, <1>2, <1>3, Powers, SMT DEF DigitOf
<1> QED
  BY <1>4, <1>5, <1>6, <1>7, <1>8

LEMMA DigitTyped ==
  ASSUME NEW rest \in Nat, NEW d \in 1..3, NEW i \in 1..d
  PROVE  DigitOf(rest, d, i) \in OctetSet
<1>1. i = 1 \/ i = 2 \/ i = 3
  OBVIOUS
<1>2. rest \div 1 \in Nat /\ rest \div 128 \in Nat /\ rest \div 16384 \in Nat
  BY SMT
<1>3. rest \div 128^(i - 1) \in Nat
  <2>1. CASE i = 1
    BY <1>2, <2>1, Powers
  <2>2. CASE i = 2
    BY <1>2, <2>2, Powers, SMT
  <2>3. CASE i = 3
    BY <1>2, <2>3, Powers, SMT
  <2> QED
    BY <1>1, <2>1, <2>2, <2>3
<1>4. PICK v : v = rest \div 128^(i - 1)
  OBVIOUS
<1>5. (v % 128) + (IF i < d THEN 128 ELSE 0) \in 0..255
  BY <1>3, <1>4
<1> QED
  BY <1>4, <1>5, OctetIs DEF DigitOf

(* A first octet and one to three digits. *)
LEMMA DigitsSpell ==
  ASSUME NEW a \in OctetSet, NEW d \in 1..3, NEW e \in [1..d -> OctetSet],
         NEW r, r = <<a>> \o e
  PROVE  /\ r \in Seq(OctetSet) /\ Len(r) = d + 1 /\ r[1] = a
         /\ \A i \in 1..d : r[i + 1] = e[i]
<1>1. d \in Nat
  OBVIOUS
<1>2. e \in Seq(OctetSet) /\ Len(e) = d
  BY <1>1, FunctionIsSeq
<1> QED
  BY <1>2, ConsIs

LEMMA PeerIntIs ==
  ASSUME NEW prefix, NEW mask, Marks(prefix, mask), NEW n \in 0..Largest
  PROVE  Spells(PeerInt(n, prefix, mask), n, Full(prefix), mask)
<1>1. PICK full : full = Full(prefix)
  OBVIOUS
<1>2. full \in Nat /\ mask \in Nat /\ mask + full \in 0..255 /\ n \in Nat
  BY <1>1, FullIs
<1>3. PICK rest : rest = n - full
  OBVIOUS
<1>4. PICK d : d = CHOOSE j \in 1..5 : Wide(rest, j)
  OBVIOUS
<1>5. PeerInt(n, prefix, mask) =
        IF rest < 0 THEN <<Octet(mask + n)>>
        ELSE <<Octet(mask + full)>> \o [i \in 1..d |-> DigitOf(rest, d, i)]
  BY <1>1, <1>3, <1>4 DEF PeerInt, Wide, DigitOf
<1>6. CASE n < full
  <2>1. rest < 0 /\ mask + n \in 0..255
    BY <1>2, <1>3, <1>6
  <2> QED
    BY <1>1, <1>5, <1>6, <2>1, OneOctet DEF Spells
<1>7. CASE ~(n < full)
  <2>1. rest \in Nat /\ rest <= Largest /\ ~(rest < 0)
    BY <1>2, <1>3, <1>7, RestIs
  <2>2. \E j \in 1..5 : Wide(rest, j)
    <3>1. 1 \in 1..5 /\ 2 \in 1..5 /\ 3 \in 1..5
      OBVIOUS
    <3>2. Wide(rest, 1) \/ Wide(rest, 2) \/ Wide(rest, 3)
      BY <2>1, <3>1, WideIs
    <3> QED
      BY <3>1, <3>2
  <2>3. d \in 1..5 /\ Wide(rest, d)
    BY <1>4, <2>2
  <2>4. d \in 1..3
    BY <2>1, <2>3, WideIs
  <2>5. PICK a : a = Octet(mask + full)
    OBVIOUS
  <2>6. PICK e : e = [i \in 1..d |-> DigitOf(rest, d, i)]
    OBVIOUS
  <2>7. e \in [1..d -> OctetSet] /\ \A i \in 1..d : e[i] = DigitOf(rest, d, i)
    BY <2>1, <2>4, <2>6, DigitTyped
  <2>8. PICK r : r = <<a>> \o e
    OBVIOUS
  <2>9. a \in OctetSet
    BY <1>2, <2>5, OctetIs
  <2>10. /\ r \in Seq(OctetSet) /\ Len(r) = d + 1 /\ r[1] = a
         /\ \A i \in 1..d : r[i + 1] = e[i]
    BY <2>4, <2>7, <2>8, <2>9, DigitsSpell
  <2>11. /\ rest < 128 => d = 1
         /\ ~(rest < 128) /\ rest < 16384 => d = 2
         /\ ~(rest < 16384) => d = 3
    BY <2>1, <2>3, WideIs
  <2>12. /\ rest < 128 => DigitOf(rest, 1, 1) = Octet(rest)
         /\ \A j \in {2, 3} : DigitOf(rest, j, 1) = Octet((rest % 128) + 128)
         /\ rest < 16384 => DigitOf(rest, 2, 2) = Octet(rest \div 128)
         /\ DigitOf(rest, 3, 2) = Octet(((rest \div 128) % 128) + 128)
         /\ DigitOf(rest, 3, 3) = Octet((rest \div 128) \div 128)
    BY <2>1, DigitsAre
  <2>13. (rest \div 128 < 128) <=> (rest < 16384)
    BY <2>1, Quotients
  <2>14. ASSUME rest < 128
         PROVE  Spells(r, n, full, mask)
    <3>1. d = 1 /\ 1 \in 1..d
      BY <2>11, <2>14
    <3>2. Len(r) = 2 /\ r[2] = Octet(rest)
      BY <2>7, <2>10, <2>12, <2>14, <3>1
    <3> QED
      BY <1>3, <1>7, <2>5, <2>10, <2>14, <3>2 DEF Spells
  <2>15. ASSUME ~(rest < 128), rest < 16384
         PROVE  Spells(r, n, full, mask)
    <3>1. d = 2 /\ 1 \in 1..d /\ 2 \in 1..d
      BY <2>11, <2>15
    <3>2. Len(r) = 3 /\ r[2] = Octet((rest % 128) + 128) /\ r[3] = Octet(rest \div 128)
      BY <2>7, <2>10, <2>12, <2>15, <3>1
    <3>3. PICK mid : mid = rest \div 128
      OBVIOUS
    <3>4. mid < 128 /\ r[3] = Octet(mid)
      BY <2>13, <2>15, <3>2, <3>3
    <3>5. PICK second : second = Octet((rest % 128) + 128)
      OBVIOUS
    <3>6. /\ r \in Seq(OctetSet) /\ Len(r) = 3 /\ r[1] = Octet(mask + full)
          /\ r[2] = second /\ r[3] = Octet(mid)
      BY <2>5, <2>10, <3>2, <3>4, <3>5
    <3> QED
      BY <1>2, <1>3, <1>7, <2>15, <3>3, <3>4, <3>5, <3>6 DEF Spells
  <2>16. ASSUME ~(rest < 16384)
         PROVE  Spells(r, n, full, mask)
    <3>1. d = 3 /\ 1 \in 1..d /\ 2 \in 1..d /\ 3 \in 1..d
      BY <2>11, <2>16
    <3>2. /\ Len(r) = 4 /\ r[2] = Octet((rest % 128) + 128)
          /\ r[3] = Octet(((rest \div 128) % 128) + 128) /\ r[4] = Octet((rest \div 128) \div 128)
      BY <2>7, <2>10, <2>12, <2>16, <3>1
    <3>3. ~(rest < 128)
      BY <2>1, <2>16
    <3>4. PICK mid : mid = rest \div 128
      OBVIOUS
    <3>5. ~(mid < 128) /\ r[3] = Octet((mid % 128) + 128) /\ r[4] = Octet(mid \div 128)
      BY <2>13, <2>16, <3>2, <3>4
    <3>6. PICK second : second = Octet((rest % 128) + 128)
      OBVIOUS
    <3>7. PICK third : third = Octet((mid % 128) + 128)
      OBVIOUS
    <3>8. PICK last : last = Octet(mid \div 128)
      OBVIOUS
    <3>9. /\ r \in Seq(OctetSet) /\ Len(r) = 4 /\ r[1] = Octet(mask + full)
          /\ r[2] = second /\ r[3] = third /\ r[4] = last
      BY <2>5, <2>10, <3>2, <3>5, <3>6, <3>7, <3>8
    <3>10. ~(mid < 128)
      BY <3>5
    <3> QED
      BY <1>2, <1>3, <1>7, <3>3, <3>4, <3>6, <3>7, <3>8, <3>9, <3>10 DEF Spells
  <2>17. Spells(r, n, full, mask)
    BY <2>14, <2>15, <2>16
  <2> QED
    BY <1>1, <1>5, <2>1, <2>5, <2>6, <2>8, <2>17
<1> QED
  BY <1>6, <1>7

(* Both ends write a number alike. *)
LEMMA SameOctets ==
  ASSUME NEW prefix, NEW mask, Marks(prefix, mask), NEW n \in 0..Largest
  PROVE  encode_int(n, prefix, mask) = PeerInt(n, prefix, mask)
<1>1. PICK full : full = Full(prefix)
  OBVIOUS
<1>2. full \in Nat
  BY <1>1, FullIs
<1>3. Spells(encode_int(n, prefix, mask), n, full, mask) /\ Spells(PeerInt(n, prefix, mask), n, full, mask)
  BY <1>1, EncodeIntIs, PeerIntIs
<1> QED
  BY <1>2, <1>3, SpellsOnce

-----------------------------------------------------------------------------
(* Reading numbers *)

(* The loop of decode_int while the number goes on, and after its end. *)
Going(pos, val, shift) ==
    [ok |-> TRUE, pos |-> pos, val |-> val, shift |-> shift, more |-> TRUE]
Ready(pos, val, shift) ==
    [ok |-> TRUE, pos |-> pos, val |-> val, shift |-> shift, more |-> FALSE]

LEMMA ReadStop ==
  ASSUME NEW data, NEW pos, NEW val, NEW shift
  PROVE  ReadMore(data, Ready(pos, val, shift)) = Ready(pos, val, shift)
BY DEF ReadMore, Going, Ready

(* The octet at a position, but for its highest bit. *)
LowAt(data, pos, o) ==
    pos \in Nat /\ Len(data) \in Nat /\ pos <= Len(data) /\ o \in 0..127 /\ data[pos] = Octet(o)
HighAt(data, pos, o, shift) ==
    /\ pos \in Nat /\ Len(data) \in Nat /\ pos <= Len(data) /\ o \in 0..127
    /\ data[pos] = Octet(o + 128) /\ shift \in {0, 7, 14, 21}
Plus(val, o, shift) == val + o * 2^shift

LEMMA LowBits ==
  ASSUME NEW o \in 0..127
  PROVE  /\ o % 128 = o /\ ~(o >= 128) /\ o < 128
         /\ (o + 128) % 128 = o /\ o + 128 >= 128
OBVIOUS

LEMMA ReadLast ==
  ASSUME NEW data, NEW pos, NEW val, NEW shift, NEW o, LowAt(data, pos, o)
  PROVE  ReadMore(data, Going(pos, val, shift)) =
           Ready(pos + 1, Plus(val, o, shift), shift + 7)
<1>1. o \in 0..127 /\ pos <= Len(data) /\ Len(data) \in Nat /\ pos \in Nat /\ data[pos].octet = o
  BY DEF LowAt, Octet
<1>2. o % 128 = o /\ ~(o >= 128) /\ o < 128
  BY <1>1, LowBits
<1>3. ReadMore(data, Going(pos, val, shift)) = ReadOctet(data, Going(pos, val, shift))
  BY DEF ReadMore, Going, Ready
<1>4. ReadOctet(data, Going(pos, val, shift)) =
        [pos |-> pos + 1, shift |-> shift + 7, more |-> o >= 128,
         val |-> val + (o % 128) * 2^shift, ok |-> o < 128 \/ shift + 7 <= 28]
  BY <1>1 DEF ReadOctet, Going, Ready
<1>5. (o >= 128) = FALSE /\ (o < 128 \/ shift + 7 <= 28) = TRUE
  BY <1>2
<1>6. val + (o % 128) * 2^shift = Plus(val, o, shift)
  BY <1>2 DEF Plus
<1> QED
  BY <1>3, <1>4, <1>5, <1>6 DEF Going, Ready

LEMMA ReadOn ==
  ASSUME NEW data, NEW pos, NEW val, NEW shift, NEW o, HighAt(data, pos, o, shift)
  PROVE  ReadMore(data, Going(pos, val, shift)) =
           Going(pos + 1, Plus(val, o, shift), shift + 7)
<1>1. o \in 0..127 /\ pos <= Len(data) /\ Len(data) \in Nat /\ pos \in Nat /\ shift \in {0, 7, 14, 21}
  BY DEF HighAt
<1>2. data[pos].octet = o + 128
  <2>1. data[pos] = Octet(o + 128)
    BY DEF HighAt
  <2> QED
    BY <2>1 DEF Octet
<1>3. (o + 128) % 128 = o /\ o + 128 >= 128 /\ shift + 7 <= 28
  BY <1>1, LowBits
<1>4. ReadMore(data, Going(pos, val, shift)) = ReadOctet(data, Going(pos, val, shift))
  BY DEF ReadMore, Going, Ready
<1>5. ReadOctet(data, Going(pos, val, shift)) =
        [pos |-> pos + 1, shift |-> shift + 7, more |-> o + 128 >= 128,
         val |-> val + ((o + 128) % 128) * 2^shift, ok |-> o + 128 < 128 \/ shift + 7 <= 28]
  BY <1>1, <1>2 DEF ReadOctet, Going, Ready
<1>6. (o + 128 >= 128) = TRUE /\ (o + 128 < 128 \/ shift + 7 <= 28) = TRUE
  BY <1>3
<1>7. val + ((o + 128) % 128) * 2^shift = Plus(val, o, shift)
  BY <1>3 DEF Plus
<1> QED
  BY <1>4, <1>5, <1>6, <1>7 DEF Going, Ready

LEMMA Scales == 2^0 = 1 /\ 2^7 = 128 /\ 2^14 = 16384
BY SMT

(* A part of a block, at a position in it. *)
At(data, pos, part) ==
    /\ pos \in Nat \ {0} /\ Len(part) \in Nat /\ Len(data) \in Nat
    /\ pos + Len(part) <= Len(data) + 1
    /\ \A i \in 1..Len(part) : data[(pos - 1) + i] = part[i]

LEMMA MaskIs ==
  ASSUME NEW prefix, NEW mask, Marks(prefix, mask), NEW v \in 0..Full(prefix)
  PROVE  (mask + v) % 2^prefix = v
<1>1. CASE prefix = 7 /\ mask = 128
  <2>1. Full(prefix) = 127 /\ 2^prefix = 128
    BY <1>1 DEF Full
  <2> QED
    BY <1>1, <2>1
<1>2. CASE prefix = 6 /\ mask = 64
  <2>1. Full(prefix) = 63 /\ 2^prefix = 64
    BY <1>2 DEF Full
  <2> QED
    BY <1>2, <2>1
<1>3. CASE prefix = 5 /\ mask = 32
  <2>1. Full(prefix) = 31 /\ 2^prefix = 32
    BY <1>3 DEF Full
  <2> QED
    BY <1>3, <2>1
<1>4. CASE prefix = 4 /\ mask \in {0, 16}
  <2>1. Full(prefix) = 15 /\ 2^prefix = 16
    BY <1>4 DEF Full
  <2> QED
    BY <1>4, <2>1
<1> QED
  BY <1>1, <1>2, <1>3, <1>4 DEF Marks

(* A number in base 128. *)
LEMMA Digits ==
  ASSUME NEW rest \in Nat, NEW mid, mid = rest \div 128, NEW high, high = mid \div 128
  PROVE  /\ mid \in Nat /\ high \in Nat /\ rest % 128 \in 0..127 /\ mid % 128 \in 0..127
         /\ rest = (rest % 128) + mid * 128 /\ mid = (mid % 128) + high * 128
BY SMT

(* What a number is, by the number of its octets. *)
Total(full, a, b, c) == full + a + b * 128 + c * 16384

Digit(a) == a \in 0..127

LEMMA TotalIs ==
  ASSUME NEW full \in Nat, NEW a, NEW b, NEW c, Digit(a), Digit(b), Digit(c)
  PROVE  /\ Plus(full, a, 0) = Total(full, a, 0, 0)
         /\ Plus(Plus(full, a, 0), b, 7) = Total(full, a, b, 0)
         /\ Plus(Plus(Plus(full, a, 0), b, 7), c, 14) = Total(full, a, b, c)
BY Scales, SMT DEF Plus, Total, Digit

LEMMA Counting ==
  ASSUME NEW pos, pos \in Nat
  PROVE  /\ (pos + 1) + 1 = pos + 2 /\ (pos + 2) + 1 = pos + 3 /\ (pos + 3) + 1 = pos + 4
         /\ 0 + 7 = 7 /\ 7 + 7 = 14 /\ 14 + 7 = 21
OBVIOUS

ShortNumber(s, n, full, mask) ==
    n < full /\ Len(s) = 1 /\ s[1] = Octet(mask + n)

TwoOctets(s, n, full, mask) ==
    /\ ~(n < full) /\ Len(s) = 2 /\ s[1] = Octet(mask + full)
    /\ \E a \in 0..127 : s[2] = Octet(a) /\ n = Total(full, a, 0, 0)

ThreeOctets(s, n, full, mask) ==
    /\ ~(n < full) /\ Len(s) = 3 /\ s[1] = Octet(mask + full)
    /\ \E a, b \in 0..127 :
          s[2] = Octet(a + 128) /\ s[3] = Octet(b) /\ n = Total(full, a, b, 0)

LastOctets(s, n, full, mask) ==
    /\ ~(n < full) /\ Len(s) = 4 /\ s[1] = Octet(mask + full)
    /\ \E a, b, c \in 0..127 :
          /\ s[2] = Octet(a + 128) /\ s[3] = Octet(b + 128) /\ s[4] = Octet(c)
          /\ n = Total(full, a, b, c)

LEMMA SpellsCases ==
  ASSUME NEW n \in 0..Largest, NEW full \in Nat, NEW mask, NEW s, Spells(s, n, full, mask)
  PROVE  \/ ShortNumber(s, n, full, mask) \/ TwoOctets(s, n, full, mask)
         \/ ThreeOctets(s, n, full, mask) \/ LastOctets(s, n, full, mask)
<1>1. CASE n < full
  <2>1. Len(s) = 1 /\ s[1] = Octet(mask + n)
    BY <1>1, SMT DEF Spells
  <2> QED
    BY <1>1, <2>1 DEF ShortNumber
<1>2. CASE ~(n < full)
  <2>1. PICK rest : rest = n - full
    OBVIOUS
  <2>2. rest \in Nat /\ rest <= Largest /\ n = full + rest
    BY <1>2, <2>1, RestIs
  <2>3. PICK mid : mid = rest \div 128
    OBVIOUS
  <2>4. PICK high : high = mid \div 128
    OBVIOUS
  <2>5. /\ mid \in Nat /\ high \in Nat /\ rest % 128 \in 0..127 /\ mid % 128 \in 0..127
        /\ rest = (rest % 128) + mid * 128 /\ mid = (mid % 128) + high * 128
    BY <2>2, <2>3, <2>4, SMT
  <2>6. high \in 0..127
    BY <2>2, <2>3, <2>4, OctetsOf
  <2>7. s[1] = Octet(mask + full)
    BY <1>2 DEF Spells
  <2>8. CASE rest < 128
    <3>1. Len(s) = 2 /\ s[2] = Octet(rest)
      BY <1>2, <2>1, <2>8 DEF Spells
    <3>2. rest \in 0..127
      BY <2>2, <2>8
    <3>3. n = Total(full, rest, 0, 0)
      BY <2>2, SMT DEF Total
    <3> QED
      BY <1>2, <2>7, <3>1, <3>2, <3>3 DEF TwoOctets
  <2>9. CASE ~(rest < 128) /\ mid < 128
    <3>1. Len(s) = 3 /\ s[2] = Octet((rest % 128) + 128) /\ s[3] = Octet(mid)
      BY <1>2, <2>1, <2>3, <2>9 DEF Spells
    <3>2. PICK a \in 0..127 : a = rest % 128
      BY <2>5
    <3>3. mid \in 0..127
      BY <2>5, <2>9
    <3>4. n = Total(full, a, mid, 0)
      BY <2>2, <2>5, <3>2, SMT DEF Total
    <3> QED
      BY Zenon, <1>2, <2>7, <3>1, <3>2, <3>3, <3>4 DEF ThreeOctets
  <2>10. CASE ~(rest < 128) /\ ~(mid < 128)
    <3>1. PICK a \in 0..127 : a = rest % 128
      BY <2>5
    <3>2. PICK b \in 0..127 : b = mid % 128
      BY <2>5
    <3>3. Len(s) = 4 /\ s[2] = Octet(a + 128) /\ s[3] = Octet(b + 128) /\ s[4] = Octet(high)
      BY <1>2, <2>1, <2>3, <2>4, <2>10, <3>1, <3>2 DEF Spells
    <3>4. n = Total(full, a, b, high)
      BY <2>2, <2>5, <3>1, <3>2, SMT DEF Total
    <3> QED
      BY Zenon, <1>2, <2>6, <2>7, <3>3, <3>4 DEF LastOctets
  <2>11. rest < 128 \/ (~(rest < 128) /\ mid < 128) \/ (~(rest < 128) /\ ~(mid < 128))
    OBVIOUS
  <2> QED
    BY <2>8, <2>9, <2>10, <2>11
<1> QED
  BY <1>1, <1>2

(* The decoder reads what the encoder, or the peer, spelled. *)
LEMMA DecodeIntIs ==
  ASSUME NEW prefix, NEW mask, Marks(prefix, mask), NEW n \in 0..Largest,
         NEW s, Spells(s, n, Full(prefix), mask), NEW data, NEW pos, At(data, pos, s)
  PROVE  \E shift \in Nat : decode_int(data, pos, prefix) = Ready(pos + Len(s), n, shift)
<1>1. PICK full : full = Full(prefix)
  OBVIOUS
<1>2. full \in Nat /\ 2^prefix = full + 1 /\ n \in Nat
  BY <1>1, FullIs
<1>3. PICK top : top = Len(data)
  OBVIOUS
<1>4. pos \in Nat /\ top \in Nat
  BY <1>3 DEF At
<1>5. /\ pos \in Nat \ {0} /\ top \in Nat /\ \A i \in 1..Len(s) : data[(pos - 1) + i] = s[i]
      /\ pos + Len(s) <= top + 1
  BY <1>3 DEF At
<1>6. PICK v : v = data[pos].octet % 2^prefix
  OBVIOUS
<1>7. PICK s0 : s0 = [ok |-> TRUE, pos |-> pos + 1, val |-> v, shift |-> 0, more |-> v = full]
  OBVIOUS
<1>8. decode_int(data, pos, prefix) =
        ReadMore(data, ReadMore(data, ReadMore(data, ReadMore(data, ReadMore(data, s0)))))
  BY <1>1, <1>6, <1>7 DEF decode_int
<1>9. Spells(s, n, full, mask)
  BY <1>1
<1>10. CASE ShortNumber(s, n, full, mask)
  <2>1. data[pos] = Octet(mask + n) /\ n < full /\ Len(s) = 1
    BY <1>5, <1>10 DEF ShortNumber
  <2>2. (mask + n) % 2^prefix = n
    BY <1>1, <1>2, <2>1, MaskIs
  <2>3. v = n
    BY <1>6, <2>1, <2>2 DEF Octet
  <2>4. (v = full) = FALSE
    BY <1>2, <2>1, <2>3
  <2>5. s0 = Ready(pos + 1, n, 0)
    BY <1>7, <2>3, <2>4 DEF Going, Ready
  <2>6. decode_int(data, pos, prefix) = Ready(pos + Len(s), n, 0)
    BY <1>8, <2>1, <2>5, ReadStop
  <2> QED
    BY <2>6
<1>11. ASSUME s[1] = Octet(mask + full), 1 \in 1..Len(s)
       PROVE  s0 = Going(pos + 1, full, 0)
  <2>1. data[pos] = Octet(mask + full)
    BY <1>5, <1>11
  <2>2. (mask + full) % 2^prefix = full
    BY <1>1, <1>2, MaskIs
  <2>3. v = full
    BY <1>6, <2>1, <2>2 DEF Octet
  <2>4. (v = full) = TRUE
    BY <2>3
  <2> QED
    BY <1>7, <2>3, <2>4 DEF Going, Ready
<1>12. Digit(0)
  BY DEF Digit
<1>13. CASE TwoOctets(s, n, full, mask)
  <2>1. PICK a \in 0..127 : s[2] = Octet(a) /\ n = Total(full, a, 0, 0)
    BY <1>13 DEF TwoOctets
  <2>2. s[1] = Octet(mask + full) /\ Len(s) = 2
    BY <1>13 DEF TwoOctets
  <2>3. s0 = Going(pos + 1, full, 0)
    BY <1>11, <2>2
  <2>4. LowAt(data, pos + 1, a)
    BY <1>3, <1>5, <2>1, <2>2 DEF LowAt
  <2>5. ReadMore(data, s0) = Ready((pos + 1) + 1, Plus(full, a, 0), 0 + 7)
    BY <2>3, <2>4, ReadLast
  <2>6. Digit(a)
    BY DEF Digit
  <2>7. Plus(full, a, 0) = n
    BY <1>2, <1>12, <2>1, <2>6, TotalIs
  <2>8. ReadMore(data, s0) = Ready(pos + Len(s), n, 7)
    BY <1>4, <2>2, <2>5, <2>7, Counting
  <2>9. decode_int(data, pos, prefix) = Ready(pos + Len(s), n, 7)
    BY <1>8, <2>8, ReadStop
  <2> QED
    BY <2>9
<1>14. CASE ThreeOctets(s, n, full, mask)
  <2>1. PICK a, b \in 0..127 : s[2] = Octet(a + 128) /\ s[3] = Octet(b) /\ n = Total(full, a, b, 0)
    BY Zenon, <1>14 DEF ThreeOctets
  <2>2. s[1] = Octet(mask + full) /\ Len(s) = 3
    BY <1>14 DEF ThreeOctets
  <2>3. s0 = Going(pos + 1, full, 0)
    BY <1>11, <2>2
  <2>4. HighAt(data, pos + 1, a, 0) /\ LowAt(data, pos + 2, b)
    <3>1. /\ pos + 1 \in Nat /\ pos + 1 <= top /\ data[pos + 1] = Octet(a + 128)
          /\ pos + 2 \in Nat /\ pos + 2 <= top /\ data[pos + 2] = Octet(b)
      BY <1>5, <2>1, <2>2
    <3> QED
      BY <1>3, <1>4, <3>1 DEF LowAt, HighAt
  <2>5. PICK part : part = Plus(full, a, 0)
    OBVIOUS
  <2>6. ReadMore(data, s0) = Going((pos + 1) + 1, Plus(full, a, 0), 0 + 7)
    BY <2>3, <2>4, ReadOn
  <2>7. ReadMore(data, s0) = Going(pos + 2, part, 7)
    BY <1>4, <2>5, <2>6, Counting
  <2>8. ReadMore(data, Going(pos + 2, part, 7)) = Ready((pos + 2) + 1, Plus(part, b, 7), 7 + 7)
    BY <2>4, ReadLast
  <2>9. Digit(a) /\ Digit(b)
    BY DEF Digit
  <2>10. Plus(part, b, 7) = n
    BY <1>2, <1>12, <2>1, <2>5, <2>9, TotalIs
  <2>11. ReadMore(data, ReadMore(data, s0)) = Ready(pos + Len(s), n, 14)
    BY <1>4, <2>2, <2>7, <2>8, <2>10, Counting
  <2>12. decode_int(data, pos, prefix) = Ready(pos + Len(s), n, 14)
    BY <1>8, <2>11, ReadStop
  <2> QED
    BY <2>12
<1>15. CASE LastOctets(s, n, full, mask)
  <2>1. PICK a, b, c \in 0..127 : /\ s[2] = Octet(a + 128) /\ s[3] = Octet(b + 128) /\ s[4] = Octet(c)
                                  /\ n = Total(full, a, b, c)
    BY Zenon, <1>15 DEF LastOctets
  <2>2. s[1] = Octet(mask + full) /\ Len(s) = 4
    BY <1>15 DEF LastOctets
  <2>3. s0 = Going(pos + 1, full, 0)
    BY <1>11, <2>2
  <2>4. HighAt(data, pos + 1, a, 0) /\ HighAt(data, pos + 2, b, 7) /\ LowAt(data, pos + 3, c)
    <3>1. /\ pos + 1 \in Nat /\ pos + 1 <= top /\ data[pos + 1] = Octet(a + 128)
          /\ pos + 2 \in Nat /\ pos + 2 <= top /\ data[pos + 2] = Octet(b + 128)
      BY <1>5, <2>1, <2>2
    <3>2. pos + 3 \in Nat /\ pos + 3 <= top /\ data[pos + 3] = Octet(c)
      BY <1>5, <2>1, <2>2
    <3> QED
      BY <1>3, <1>4, <3>1, <3>2 DEF LowAt, HighAt
  <2>5. PICK part : part = Plus(full, a, 0)
    OBVIOUS
  <2>6. ReadMore(data, s0) = Going((pos + 1) + 1, Plus(full, a, 0), 0 + 7)
    BY <2>3, <2>4, ReadOn
  <2>7. ReadMore(data, s0) = Going(pos + 2, part, 7)
    BY <1>4, <2>5, <2>6, Counting
  <2>8. PICK w : w = Plus(part, b, 7)
    OBVIOUS
  <2>9. ReadMore(data, Going(pos + 2, part, 7)) = Going((pos + 2) + 1, Plus(part, b, 7), 7 + 7)
    BY <2>4, ReadOn
  <2>10. ReadMore(data, ReadMore(data, s0)) = Going(pos + 3, w, 14)
    BY <1>4, <2>7, <2>8, <2>9, Counting
  <2>11. ReadMore(data, Going(pos + 3, w, 14)) = Ready((pos + 3) + 1, Plus(w, c, 14), 14 + 7)
    BY <2>4, ReadLast
  <2>12. Digit(a) /\ Digit(b) /\ Digit(c)
    BY DEF Digit
  <2>13. Plus(w, c, 14) = n
    BY <1>2, <2>1, <2>5, <2>8, <2>12, TotalIs
  <2>14. ReadMore(data, ReadMore(data, ReadMore(data, s0))) = Ready(pos + Len(s), n, 21)
    BY <1>4, <2>2, <2>10, <2>11, <2>13, Counting
  <2>15. decode_int(data, pos, prefix) = Ready(pos + Len(s), n, 21)
    BY <1>8, <2>14, ReadStop
  <2> QED
    BY <2>15
<1> QED
  BY <1>2, <1>9, <1>10, <1>13, <1>14, <1>15, SpellsCases

(* The end of a number in the peer's reading of it. *)
Low(token) == token.octet \in 0..127
High(token) == token.octet \in 128..255

LEMMA LowOrHigh ==
  ASSUME NEW token
  PROVE  /\ Low(token) => token.octet < 128 /\ ~(token.octet >= 128)
         /\ High(token) => token.octet >= 128 /\ ~(token.octet < 128)
BY DEF Low, High

EndsAt(block, pos, i) ==
    block[i].octet < 128 /\ \A j \in pos + 1..i - 1 : block[j].octet >= 128

Runs(block, pos, end) ==
    /\ pos \in Nat /\ Len(block) \in Nat /\ end \in pos + 1..Len(block)
    /\ Low(block[end]) /\ \A j \in pos + 1..end - 1 : High(block[j])

LEMMA EndIs ==
  ASSUME NEW block, NEW pos, NEW end, Runs(block, pos, end)
  PROVE  (CHOOSE i \in pos + 1..Len(block) : EndsAt(block, pos, i)) = end
<1>1. /\ pos \in Nat /\ Len(block) \in Nat /\ end \in pos + 1..Len(block)
      /\ Low(block[end]) /\ \A j \in pos + 1..end - 1 : High(block[j])
  BY DEF Runs
<1>2. EndsAt(block, pos, end)
  BY <1>1, LowOrHigh DEF EndsAt
<1>3. ASSUME NEW i \in pos + 1..Len(block), EndsAt(block, pos, i)
      PROVE  i = end
  <2>1. ASSUME i < end
        PROVE  FALSE
    <3>1. i \in pos + 1..end - 1
      BY <1>1, <2>1
    <3>2. High(block[i]) /\ block[i].octet < 128
      BY <1>1, <1>3, <3>1 DEF EndsAt
    <3> QED
      BY <3>2, LowOrHigh
  <2>2. ASSUME end < i
        PROVE  FALSE
    <3>1. end \in pos + 1..i - 1
      BY <1>1, <2>2
    <3>2. block[end].octet >= 128
      BY <1>3, <3>1 DEF EndsAt
    <3> QED
      BY <1>1, <3>2, LowOrHigh
  <2> QED
    BY <1>1, <2>1, <2>2
<1> QED
  BY <1>1, <1>2, <1>3

LEMMA IntEndIs ==
  ASSUME NEW block, NEW pos, NEW end, Runs(block, pos, end),
         NEW prefix, ~((block[pos].octet % 2^prefix) < Full(prefix))
  PROVE  IntEnd(block, pos, prefix) = end
<1>1. IntEnd(block, pos, prefix) = CHOOSE i \in pos + 1..Len(block) : EndsAt(block, pos, i)
  BY DEF IntEnd, EndsAt
<1>2. (CHOOSE i \in pos + 1..Len(block) : EndsAt(block, pos, i)) = end
  BY EndIs
<1> QED
  BY <1>1, <1>2

(* An octet with seven bits of a number. *)
Holds(token, a) == a \in 0..127 /\ (token = Octet(a) \/ token = Octet(a + 128))

LEMMA HeldBits ==
  ASSUME NEW token, NEW a, Holds(token, a)
  PROVE  token.octet % 128 = a
<1>1. a \in 0..127 /\ (token.octet = a \/ token.octet = a + 128)
  BY DEF Holds, Octet
<1> QED
  BY <1>1, LowBits

LEMMA OctetMarks ==
  ASSUME NEW a \in 0..127
  PROVE  /\ Low(Octet(a)) /\ High(Octet(a + 128))
         /\ Holds(Octet(a), a) /\ Holds(Octet(a + 128), a)
BY DEF Low, High, Holds, Octet

(* A number with d octets after the first. *)
Shared(block, pos, prefix, d, a, b, c) ==
    /\ pos \in Nat /\ d \in 0..3 /\ IntEnd(block, pos, prefix) = pos + d
    /\ d >= 1 => Holds(block[pos + 1], a)
    /\ d >= 2 => Holds(block[pos + 2], b)
    /\ d >= 3 => Holds(block[pos + 3], c)

LEMMA SharesAre ==
  ASSUME NEW block, NEW pos, NEW prefix, NEW d, NEW a, NEW b, NEW c,
         Shared(block, pos, prefix, d, a, b, c)
  PROVE  /\ Share(block, pos, prefix, 1) = IF d >= 1 THEN a ELSE 0
         /\ Share(block, pos, prefix, 2) = IF d >= 2 THEN b * 128 ELSE 0
         /\ Share(block, pos, prefix, 3) = IF d >= 3 THEN c * 16384 ELSE 0
         /\ Share(block, pos, prefix, 4) = 0
<1>1. /\ pos \in Nat /\ d \in 0..3 /\ IntEnd(block, pos, prefix) = pos + d
      /\ d >= 1 => Holds(block[pos + 1], a)
      /\ d >= 2 => Holds(block[pos + 2], b)
      /\ d >= 3 => Holds(block[pos + 3], c)
  BY DEF Shared
<1>2. /\ (pos + 1 > pos + d) <=> ~(d >= 1)
      /\ (pos + 2 > pos + d) <=> ~(d >= 2)
      /\ (pos + 3 > pos + d) <=> ~(d >= 3)
      /\ pos + 4 > pos + d
  BY <1>1
<1>3. d >= 1 => block[pos + 1].octet % 128 = a
  BY <1>1, HeldBits
<1>4. d >= 1 => a \in Nat
  BY <1>1 DEF Holds
<1>5. d >= 2 => block[pos + 2].octet % 128 = b
  BY <1>1, HeldBits
<1>6. d >= 3 => block[pos + 3].octet % 128 = c
  BY <1>1, HeldBits
<1>7. Share(block, pos, prefix, 1) = IF d >= 1 THEN a ELSE 0
  <2>1. Share(block, pos, prefix, 1) = IF d >= 1 THEN a * 128^(1 - 1) ELSE 0
    BY <1>1, <1>2, <1>3 DEF Share
  <2> QED
    BY <1>4, <2>1, Powers
<1>8. Share(block, pos, prefix, 2) = IF d >= 2 THEN b * 128 ELSE 0
  <2>1. Share(block, pos, prefix, 2) = IF d >= 2 THEN b * 128^(2 - 1) ELSE 0
    BY <1>1, <1>2, <1>5 DEF Share
  <2> QED
    BY <2>1, Powers
<1>9. Share(block, pos, prefix, 3) = IF d >= 3 THEN c * 16384 ELSE 0
  <2>1. Share(block, pos, prefix, 3) = IF d >= 3 THEN c * 128^(3 - 1) ELSE 0
    BY <1>1, <1>2, <1>6 DEF Share
  <2> QED
    BY <2>1, Powers
<1>10. Share(block, pos, prefix, 4) = 0
  BY <1>1, <1>2 DEF Share
<1> QED
  BY <1>7, <1>8, <1>9, <1>10

(* So does the peer. *)
LEMMA PeerReadIs ==
  ASSUME NEW prefix, NEW mask, Marks(prefix, mask), NEW n \in 0..Largest,
         NEW s, Spells(s, n, Full(prefix), mask), NEW data, NEW pos, At(data, pos, s)
  PROVE  /\ IntEnd(data, pos, prefix) \in Nat
         /\ IntEnd(data, pos, prefix) + 1 = pos + Len(s) /\ IntValue(data, pos, prefix) = n
<1>1. PICK full : full = Full(prefix)
  OBVIOUS
<1>2. full \in Nat /\ 2^prefix = full + 1 /\ n \in Nat
  BY <1>1, FullIs
<1>3. PICK top : top = Len(data)
  OBVIOUS
<1>4. /\ pos \in Nat \ {0} /\ top \in Nat /\ \A i \in 1..Len(s) : data[(pos - 1) + i] = s[i]
      /\ pos + Len(s) <= top + 1
  BY <1>3 DEF At
<1>5. pos \in Nat
  BY <1>4
<1>6. PICK v : v = data[pos].octet % 2^prefix
  OBVIOUS
<1>7. IntValue(data, pos, prefix) =
         v + Share(data, pos, prefix, 1) + Share(data, pos, prefix, 2)
           + Share(data, pos, prefix, 3) + Share(data, pos, prefix, 4)
  BY <1>6 DEF IntValue
<1>8. Spells(s, n, full, mask)
  BY <1>1
<1>9. ASSUME s[1] = Octet(mask + full), 1 \in 1..Len(s)
      PROVE  v = full
  <2>1. data[pos] = Octet(mask + full)
    BY <1>4, <1>9
  <2>2. (mask + full) % 2^prefix = full
    BY <1>1, <1>2, MaskIs
  <2> QED
    BY <1>6, <2>1, <2>2 DEF Octet
<1>10. CASE ShortNumber(s, n, full, mask)
  <2>1. data[pos] = Octet(mask + n) /\ n < full /\ Len(s) = 1
    BY <1>4, <1>10 DEF ShortNumber
  <2>2. (mask + n) % 2^prefix = n
    BY <1>1, <1>2, <2>1, MaskIs
  <2>3. v = n
    BY <1>6, <2>1, <2>2 DEF Octet
  <2>4. IntEnd(data, pos, prefix) = pos
    BY <1>1, <1>6, <2>1, <2>3 DEF IntEnd
  <2>5. IntEnd(data, pos, prefix) = pos + 0
    BY <1>5, <2>4
  <2>6. /\ Share(data, pos, prefix, 1) = 0 /\ Share(data, pos, prefix, 2) = 0
        /\ Share(data, pos, prefix, 3) = 0 /\ Share(data, pos, prefix, 4) = 0
    <3>1. Shared(data, pos, prefix, 0, 0, 0, 0)
      BY <1>5, <2>5 DEF Shared
    <3> QED
      BY <3>1, SharesAre
  <2> QED
    BY <1>2, <1>5, <1>7, <2>1, <2>3, <2>4, <2>6
<1>11. ASSUME v = full
       PROVE  ~((data[pos].octet % 2^prefix) < Full(prefix))
  BY <1>1, <1>2, <1>6, <1>11
<1>12. CASE TwoOctets(s, n, full, mask)
  <2>1. PICK a \in 0..127 : s[2] = Octet(a) /\ n = Total(full, a, 0, 0)
    BY <1>12 DEF TwoOctets
  <2>2. s[1] = Octet(mask + full) /\ Len(s) = 2
    BY <1>12 DEF TwoOctets
  <2>3. v = full
    BY <1>9, <2>2
  <2>4. pos + 1 \in pos + 1..top /\ data[pos + 1] = Octet(a)
    BY <1>4, <2>1, <2>2
  <2>5. Holds(data[pos + 1], a) /\ Low(data[pos + 1])
    BY <2>4, OctetMarks
  <2>6. Runs(data, pos, pos + 1)
    <3>1. \A j \in pos + 1..(pos + 1) - 1 : FALSE
      BY <1>5
    <3> QED
      BY <1>3, <1>4, <1>5, <2>4, <2>5, <3>1 DEF Runs
  <2>7. IntEnd(data, pos, prefix) = pos + 1
    BY <1>11, <2>3, <2>6, IntEndIs
  <2>8. /\ Share(data, pos, prefix, 1) = a /\ Share(data, pos, prefix, 2) = 0
        /\ Share(data, pos, prefix, 3) = 0 /\ Share(data, pos, prefix, 4) = 0
    <3>1. Shared(data, pos, prefix, 1, a, 0, 0)
      BY <1>5, <2>5, <2>7 DEF Shared
    <3> QED
      BY <3>1, SharesAre
  <2>9. v + a + 0 + 0 + 0 = n
    BY <1>2, <2>1, <2>3 DEF Total
  <2> QED
    BY <1>2, <1>5, <1>7, <2>2, <2>7, <2>8, <2>9
<1>13. CASE ThreeOctets(s, n, full, mask)
  <2>1. PICK a, b \in 0..127 : s[2] = Octet(a + 128) /\ s[3] = Octet(b) /\ n = Total(full, a, b, 0)
    BY <1>13 DEF ThreeOctets
  <2>2. s[1] = Octet(mask + full) /\ Len(s) = 3
    BY <1>13 DEF ThreeOctets
  <2>3. v = full
    BY <1>9, <2>2
  <2>4. pos + 2 \in pos + 1..top /\ data[pos + 1] = Octet(a + 128) /\ data[pos + 2] = Octet(b)
    BY <1>4, <2>1, <2>2
  <2>5. /\ Holds(data[pos + 1], a) /\ High(data[pos + 1])
        /\ Holds(data[pos + 2], b) /\ Low(data[pos + 2])
    BY <2>4, OctetMarks
  <2>6. Runs(data, pos, pos + 2)
    <3>1. \A j \in pos + 1..(pos + 2) - 1 : j = pos + 1
      BY <1>5
    <3> QED
      BY <1>3, <1>4, <1>5, <2>4, <2>5, <3>1 DEF Runs
  <2>7. IntEnd(data, pos, prefix) = pos + 2
    BY <1>11, <2>3, <2>6, IntEndIs
  <2>8. /\ Share(data, pos, prefix, 1) = a /\ Share(data, pos, prefix, 2) = b * 128
        /\ Share(data, pos, prefix, 3) = 0 /\ Share(data, pos, prefix, 4) = 0
    <3>1. Shared(data, pos, prefix, 2, a, b, 0)
      BY <1>5, <2>5, <2>7 DEF Shared
    <3> QED
      BY <3>1, SharesAre
  <2>9. v + a + b * 128 + 0 + 0 = n
    BY <1>2, <2>1, <2>3 DEF Total
  <2> QED
    BY <1>2, <1>5, <1>7, <2>2, <2>7, <2>8, <2>9
<1>14. CASE LastOctets(s, n, full, mask)
  <2>1. PICK a, b, c \in 0..127 : /\ s[2] = Octet(a + 128) /\ s[3] = Octet(b + 128) /\ s[4] = Octet(c)
                                  /\ n = Total(full, a, b, c)
    BY <1>14 DEF LastOctets
  <2>2. s[1] = Octet(mask + full) /\ Len(s) = 4
    BY <1>14 DEF LastOctets
  <2>3. v = full
    BY <1>9, <2>2
  <2>4. /\ pos + 3 \in pos + 1..top /\ data[pos + 1] = Octet(a + 128)
        /\ data[pos + 2] = Octet(b + 128) /\ data[pos + 3] = Octet(c)
    BY <1>4, <2>1, <2>2
  <2>5. /\ Holds(data[pos + 1], a) /\ High(data[pos + 1])
        /\ Holds(data[pos + 2], b) /\ High(data[pos + 2])
        /\ Holds(data[pos + 3], c) /\ Low(data[pos + 3])
    BY <2>4, OctetMarks
  <2>6. Runs(data, pos, pos + 3)
    <3>1. \A j \in pos + 1..(pos + 3) - 1 : j = pos + 1 \/ j = pos + 2
      BY <1>5
    <3> QED
      BY <1>3, <1>4, <1>5, <2>4, <2>5, <3>1 DEF Runs
  <2>7. IntEnd(data, pos, prefix) = pos + 3
    BY <1>11, <2>3, <2>6, IntEndIs
  <2>8. /\ Share(data, pos, prefix, 1) = a /\ Share(data, pos, prefix, 2) = b * 128
        /\ Share(data, pos, prefix, 3) = c * 16384 /\ Share(data, pos, prefix, 4) = 0
    <3>1. Shared(data, pos, prefix, 3, a, b, c)
      BY <1>5, <2>5, <2>7 DEF Shared
    <3> QED
      BY <3>1, SharesAre
  <2>9. v + a + b * 128 + c * 16384 + 0 = n
    BY <1>2, <2>1, <2>3 DEF Total
  <2> QED
    BY <1>2, <1>5, <1>7, <2>2, <2>7, <2>8, <2>9
<1> QED
  BY <1>2, <1>8, <1>10, <1>12, <1>13, <1>14, SpellsCases

-----------------------------------------------------------------------------
(* The static table, and what an index stands for *)

StaticFields == {STATIC_TABLE[i] : i \in DOMAIN STATIC_TABLE}

LEMMA Statics == STATIC_TABLE \in Seq(StaticFields) /\ Len(STATIC_TABLE) = 61
<1> DEFINE f == << <<":authority", "">>, <<":method", "GET">>, <<":method", "POST">>,
                   <<":path", "/">>, <<":path", "/index.html">>, <<":scheme", "http">>,
                   <<":scheme", "https">>, <<":status", "200">>, <<":status", "204">>,
                   <<":status", "206">>, <<":status", "304">>, <<":status", "400">>,
                   <<":status", "404">>, <<":status", "500">> >>
           g == [i \in DOMAIN StaticNames |->
                   <<StaticNames[i], IF i = 2 THEN "gzip, deflate" ELSE "">>]
           S == {f[i] : i \in 1..14} \cup {g[i] : i \in 1..47}
<1>1. f = [i \in 1..14 |-> f[i]]
  OBVIOUS
<1>2. DOMAIN StaticNames = 1..47
  BY DEF StaticNames
<1>3. g = [i \in 1..47 |-> g[i]]
  BY <1>2
<1>4. STATIC_TABLE = f \o g
  BY DEF STATIC_TABLE
<1> HIDE DEF f, g
<1>5. f \in [1..14 -> S] /\ g \in [1..47 -> S]
  BY <1>1, <1>3
<1> HIDE DEF S
<1>6. PICK m : m = 14
  OBVIOUS
<1>7. PICK n : n = 47
  OBVIOUS
<1>8. f \in Seq(S) /\ Len(f) = 14 /\ g \in Seq(S) /\ Len(g) = 47
  <2>1. /\ m \in Nat /\ f \in [1..m -> S]
        /\ n \in Nat /\ g \in [1..n -> S]
    BY SMT, <1>5, <1>6, <1>7
  <2>2. f \in Seq(S) /\ Len(f) = m
    BY Zenon, <2>1, FunctionIsSeq
  <2>3. g \in Seq(S) /\ Len(g) = n
    BY Zenon, <2>1, FunctionIsSeq
  <2> QED
    BY <1>6, <1>7, <2>2, <2>3
<1>9. f \o g \in Seq(S) /\ Len(f \o g) = Len(f) + Len(g)
  BY <1>8, ConcatProperties
<1>10. STATIC_TABLE \in Seq(S) /\ Len(STATIC_TABLE) = 61
  BY <1>4, <1>8, <1>9
<1>11. STATIC_TABLE \in [1..61 -> S] /\ DOMAIN STATIC_TABLE = 1..61
  BY <1>10, LenProperties
<1>12. \A i \in 1..61 : STATIC_TABLE[i] \in StaticFields
  BY <1>11 DEF StaticFields
<1>13. PICK k : k = 61
  OBVIOUS
<1>14. k \in Nat /\ STATIC_TABLE \in [1..k -> StaticFields]
  BY SMT, <1>11, <1>12, <1>13
<1>15. STATIC_TABLE \in Seq(StaticFields) /\ Len(STATIC_TABLE) = k
  BY Zenon, <1>14, FunctionIsSeq
<1> QED
  BY <1>13, <1>15

(* The entry that an index stands for, and the indices that stand for one. *)
Entry(entries, i) == IF i <= 61 THEN STATIC_TABLE[i] ELSE entries[i - 61]
InTables(entries, i) == i \in 1..61 + Len(entries)

LEMMA IndexedIs ==
  ASSUME NEW t, NEW i
  PROVE  /\ Indexed(t, i) <=> InTables(t.entries, i)
         /\ get_entry(t, i) = Entry(t.entries, i)
BY Statics DEF Indexed, InTables, get_entry, Entry

LEMMA AddressedIs ==
  ASSUME NEW t, t.entries \in Seq(Fields)
  PROVE  /\ \A i : i \in DOMAIN Addressed(t) <=> InTables(t.entries, i)
         /\ \A i : InTables(t.entries, i) => Addressed(t)[i] = Entry(t.entries, i)
<1> DEFINE e == t.entries
           S == StaticFields \cup Fields
           a == STATIC_TABLE \o e
<1>1. STATIC_TABLE \in Seq(S) /\ Len(STATIC_TABLE) = 61 /\ e \in Seq(S) /\ Len(e) \in Nat
  BY Statics, SeqMonotonic, LenProperties
<1>2. Addressed(t) = a
  BY DEF Addressed
<1> HIDE DEF S
<1>3. /\ a \in Seq(S) /\ Len(a) = 61 + Len(e)
      /\ \A i \in 1..61 + Len(e) : a[i] = IF i <= 61 THEN STATIC_TABLE[i] ELSE e[i - 61]
  <2>1. /\ a \in Seq(S) /\ Len(a) = Len(STATIC_TABLE) + Len(e)
        /\ \A i \in 1..Len(STATIC_TABLE) + Len(e) :
              a[i] = IF i <= Len(STATIC_TABLE) THEN STATIC_TABLE[i] ELSE e[i - Len(STATIC_TABLE)]
    <3>1. PICK s : s = STATIC_TABLE
      OBVIOUS
    <3>2. s \in Seq(S) /\ e \in Seq(S)
      BY <1>1, <3>1
    <3>3. PICK c : c = s \o e
      OBVIOUS
    <3>4. /\ c \in Seq(S) /\ Len(c) = Len(s) + Len(e)
          /\ \A i \in 1..Len(s) + Len(e) : c[i] = IF i <= Len(s) THEN s[i] ELSE e[i - Len(s)]
      BY <3>2, <3>3, ConcatProperties
    <3> QED
      BY <3>1, <3>3, <3>4
  <2> QED
    BY <1>1, <2>1
<1>4. DOMAIN a = 1..61 + Len(e)
  BY <1>3, LenProperties
<1> HIDE DEF a
<1>5. \A i : i \in DOMAIN a <=> InTables(e, i)
  BY <1>4 DEF InTables
<1>6. \A i : InTables(e, i) => a[i] = Entry(e, i)
  BY <1>3 DEF InTables, Entry
<1> QED
  BY <1>2, <1>5, <1>6

(* No table has more entries than octets. *)
MostOctets == 65536

LEMMA Bounds == MostOctets \in Nat /\ Largest \in Nat /\ MostOctets + 62 <= Largest
BY SMT DEF MostOctets, Largest

LEMMA Limits ==
  /\ MAX_TABLE_SIZE_CAP \in Nat /\ MAX_TABLE_SIZE_CAP <= MostOctets
  /\ TableSize \in Nat /\ TableSize <= MAX_TABLE_SIZE_CAP
<1>1. MAX_TABLE_SIZE_CAP <= MostOctets
  BY SMT, SizesAssumption DEF MostOctets
<1> QED
  BY <1>1, CapIs

Small(e) == e \in Seq(Fields) /\ SizeOf(e) <= MostOctets

LEMMA LengthFits ==
  ASSUME NEW e \in Seq(Fields)
  PROVE  Len(e) \in Nat /\ SizeOf(e) \in Nat /\ Len(e) <= SizeOf(e)
<1>1. Len(e) \in Nat /\ First(e, Len(e)) = e /\ First(e, 0) = <<>> /\ SizeOf(<<>>) = 0 /\ SizeOf(e) \in Nat
  BY LenProperties, FirstWhole, EmptySize, SizeTyped
<1>2. Len(e) \in 0..Len(e) /\ 0 \in 0..Len(e)
  BY <1>1
<1>3. SizeOf(First(e, 0)) + (Len(e) - 0) <= SizeOf(First(e, Len(e)))
  BY <1>2, FirstGrows
<1>4. SizeOf(First(e, 0)) = 0 /\ SizeOf(First(e, Len(e))) = SizeOf(e)
  BY <1>1
<1> QED
  BY <1>1, <1>3, <1>4

LEMMA FewEntries ==
  ASSUME NEW e, Small(e)
  PROVE  Len(e) \in 0..MostOctets
<1>1. e \in Seq(Fields) /\ SizeOf(e) <= MostOctets
  BY DEF Small
<1>2. Len(e) \in Nat /\ SizeOf(e) \in Nat /\ Len(e) <= SizeOf(e)
  BY <1>1, LengthFits
<1> QED
  BY <1>1, <1>2, Bounds

LEMMA IndicesAreSmall ==
  ASSUME NEW e, Small(e), NEW i, InTables(e, i)
  PROVE  i \in 1..Largest
<1>1. Len(e) \in 0..MostOctets
  BY FewEntries
<1>2. i \in 1..61 + Len(e)
  BY DEF InTables
<1> QED
  BY <1>1, <1>2, Bounds

(* An index in one table means the same in a longer one. *)
LEMMA PrefixMeans ==
  ASSUME NEW s \in Seq(Fields), NEW t \in Seq(Fields), IsPrefix(s, t), NEW i, InTables(s, i)
  PROVE  InTables(t, i) /\ Entry(t, i) = Entry(s, i)
<1>1. /\ Len(s) \in Nat /\ Len(t) \in Nat /\ Len(s) <= Len(t)
      /\ \A k \in 1..Len(s) : s[k] = t[k]
  BY PrefixLength
<1>2. i \in 1..61 + Len(s)
  BY DEF InTables
<1>3. InTables(t, i)
  BY <1>1, <1>2 DEF InTables
<1>4. ~(i <= 61) => i - 61 \in 1..Len(s)
  BY <1>1, <1>2
<1>5. Entry(t, i) = Entry(s, i)
  BY <1>1, <1>4 DEF Entry
<1> QED
  BY <1>3, <1>5

(* A dynamic index stands for a field, whichever table it is looked up in.  *)
LEMMA DynamicField ==
  ASSUME NEW s \in Seq(Fields), NEW i, InTables(s, i), ~(i <= 61)
  PROVE  Entry(s, i) \in Fields
<1>1. Len(s) \in Nat
  BY LenProperties
<1>2. i - 61 \in 1..Len(s)
  BY <1>1 DEF InTables
<1>3. s[i - 61] \in Fields
  BY <1>2, ElementOfSeq
<1> QED
  BY <1>3 DEF Entry

(* The searches of the encoder. *)
LEMMA LeastIs ==
  ASSUME NEW I, I \subseteq Nat, I # {}
  PROVE  Min(I) \in I
<1>1. PICK m \in I : \A y \in I : m <= y
  BY LeastIn
<1> QED
  BY <1>1 DEF Min

LEMMA FindExactIs ==
  ASSUME NEW f, NEW t
  PROVE  find_exact(t, f) = 0 \/ (find_exact(t, f) \in 1..Len(t.entries) /\ t.entries[find_exact(t, f)] = f)
<1> DEFINE I == {i \in 1..Len(t.entries) : t.entries[i] = f}
<1>1. find_exact(t, f) = IF I # {} THEN Min(I) ELSE 0
  BY DEF find_exact, SelectInSeq
<1>2. I \subseteq Nat
  OBVIOUS
<1>3. I # {} => Min(I) \in I
  BY Zenon, <1>2, LeastIs
<1> QED
  BY <1>1, <1>3

LEMMA FindNameIs ==
  ASSUME NEW f, NEW t
  PROVE  find_name(t, f) = 0 \/ (find_name(t, f) \in 1..Len(t.entries) /\ t.entries[find_name(t, f)][1] = f[1])
<1> DEFINE I == {i \in 1..Len(t.entries) : t.entries[i][1] = f[1]}
<1>1. find_name(t, f) = IF I # {} THEN Min(I) ELSE 0
  BY DEF find_name, SelectInSeq
<1>2. I \subseteq Nat
  OBVIOUS
<1>3. I # {} => Min(I) \in I
  BY Zenon, <1>2, LeastIs
<1> QED
  BY <1>1, <1>3

LEMMA StaticExactIs ==
  ASSUME NEW f
  PROVE  \/ static_find_exact(f) = 0
         \/ static_find_exact(f) \in 1..61 /\ STATIC_TABLE[static_find_exact(f)] = f
<1> DEFINE I == {i \in 1..Len(STATIC_TABLE) : STATIC_TABLE[i] = f}
<1>1. static_find_exact(f) = IF I # {} THEN Min(I) ELSE 0
  BY DEF static_find_exact, SelectInSeq
<1>2. I \subseteq Nat
  OBVIOUS
<1>3. I # {} => Min(I) \in I
  BY Zenon, <1>2, LeastIs
<1> QED
  BY <1>1, <1>3, Statics

LEMMA StaticNameIs ==
  ASSUME NEW f
  PROVE  \/ static_find_name(f) = 0
         \/ static_find_name(f) \in 1..61 /\ STATIC_TABLE[static_find_name(f)][1] = f[1]
<1> DEFINE I == {i \in 1..Len(STATIC_TABLE) : STATIC_TABLE[i][1] = f[1]}
<1>1. static_find_name(f) = IF I # {} THEN Min(I) ELSE 0
  BY DEF static_find_name, SelectInSeq
<1>2. I \subseteq Nat
  OBVIOUS
<1>3. I # {} => Min(I) \in I
  BY Zenon, <1>2, LeastIs
<1> QED
  BY <1>1, <1>3, Statics

-----------------------------------------------------------------------------
(* Representations of a field: what both ends write *)

StringTokens == {Str(f[1]) : f \in Fields} \cup {Str(f[2]) : f \in Fields}
Tokens == OctetSet \cup StringTokens

Texts(prefix, i, f) == IF prefix = 7 THEN <<>> ELSE Strings(i, f)

(* An index by which a field, or its name, can be written. *)
Refers(entries, f, prefix, mask, i) ==
    /\ Marks(prefix, mask) /\ prefix # 5 /\ i \in 0..Largest
    /\ i = 0 => prefix # 7
    /\ i # 0 => /\ InTables(entries, i)
                /\ prefix = 7 => Entry(entries, i) = f
                /\ prefix # 7 => Entry(entries, i)[1] = f[1]

Written(f, prefix, mask, i, b) ==
    \E s : Spells(s, i, Full(prefix), mask) /\ b = s \o Texts(prefix, i, f)

LEMMA TextsTyped ==
  ASSUME NEW f \in Fields, NEW prefix, NEW i
  PROVE  Texts(prefix, i, f) \in Seq(Tokens) /\ Len(Texts(prefix, i, f)) \in Nat
<1>1. Str(f[1]) \in Tokens /\ Str(f[2]) \in Tokens
  BY DEF Tokens, StringTokens
<1>2. PICK a : a = Str(f[1])
  OBVIOUS
<1>3. PICK b : b = Str(f[2])
  OBVIOUS
<1>4. a \in Tokens /\ b \in Tokens
  BY <1>1, <1>2, <1>3
<1>5. <<a, b>> \in Seq(Tokens) /\ <<b>> \in Seq(Tokens) /\ <<>> \in Seq(Tokens)
  BY <1>4
<1>6. Texts(prefix, i, f) \in Seq(Tokens)
  BY <1>2, <1>3, <1>5 DEF Texts, Strings
<1> QED
  BY <1>6, LenProperties

LEMMA SpellsTyped ==
  ASSUME NEW s, NEW n, NEW full, NEW mask, Spells(s, n, full, mask)
  PROVE  s \in Seq(OctetSet) /\ s \in Seq(Tokens)
<1>1. s \in Seq(OctetSet)
  BY DEF Spells
<1> QED
  BY <1>1, SeqMonotonic DEF Tokens

LEMMA WrittenTyped ==
  ASSUME NEW f \in Fields, NEW prefix, NEW mask, NEW i, NEW b, Written(f, prefix, mask, i, b)
  PROVE  b \in Seq(Tokens)
<1>1. PICK s : Spells(s, i, Full(prefix), mask) /\ b = s \o Texts(prefix, i, f)
  BY DEF Written
<1>2. s \in Seq(Tokens) /\ Texts(prefix, i, f) \in Seq(Tokens)
  BY <1>1, SpellsTyped, TextsTyped
<1> QED
  BY <1>1, <1>2, ConcatProperties

(* A number alone, and a number with strings. *)
LEMMA WrittenIndex ==
  ASSUME NEW f, NEW mask, NEW i, NEW s, Spells(s, i, Full(7), mask)
  PROVE  Written(f, 7, mask, i, s)
<1>1. s \in Seq(OctetSet)
  BY SpellsTyped
<1>2. s = s \o <<>>
  BY <1>1, ConcatEmptySeq
<1>3. Texts(7, i, f) = <<>>
  BY DEF Texts
<1> QED
  BY <1>2, <1>3 DEF Written

LEMMA WrittenLiteral ==
  ASSUME NEW f, NEW prefix, prefix # 7, NEW mask, NEW i, NEW s, Spells(s, i, Full(prefix), mask)
  PROVE  Written(f, prefix, mask, i, s \o Strings(i, f))
<1>1. Texts(prefix, i, f) = Strings(i, f)
  BY DEF Texts
<1> QED
  BY <1>1 DEF Written

(* How a table changes: a literal with indexing is inserted. *)
EncodedBy(t, f, prefix, mask, i, e) ==
    /\ Refers(t.entries, f, prefix, mask, i) /\ Written(f, prefix, mask, i, e.block)
    /\ e.table = IF prefix = 6 THEN insert(t, f) ELSE t

LEMMA SoundSmall ==
  ASSUME NEW t \in SoundTables
  PROVE  Small(t.entries)
<1>1. t.entries \in Seq(Fields) /\ t.size = SizeOf(t.entries) /\ t.size <= t.max_size
      /\ t.max_size <= MAX_TABLE_SIZE_CAP /\ t.size \in Nat /\ t.max_size \in Nat
  BY SoundFields
<1>2. MAX_TABLE_SIZE_CAP \in Nat /\ MAX_TABLE_SIZE_CAP <= MostOctets
  BY Limits
<1>3. SizeOf(t.entries) <= MostOctets
  BY <1>1, <1>2, Bounds
<1> QED
  BY <1>1, <1>3 DEF Small

(* The encoder writes representations. *)
LEMMA NameIndexIs ==
  ASSUME NEW t \in SoundTables, NEW f
  PROVE  /\ NameIndex(t, f) \in 0..Largest
         /\ NameIndex(t, f) # 0 => /\ InTables(t.entries, NameIndex(t, f))
                                   /\ Entry(t.entries, NameIndex(t, f))[1] = f[1]
<1>1. Small(t.entries) /\ Len(t.entries) \in Nat
  BY SoundSmall, SoundFields, LenProperties
<1>2. PICK i : i = NameIndex(t, f)
  OBVIOUS
<1>3. ASSUME i # 0
      PROVE  InTables(t.entries, i) /\ Entry(t.entries, i)[1] = f[1]
  <2>1. CASE static_find_name(f) # 0
    <3>1. i = static_find_name(f)
      BY <1>2, <2>1 DEF NameIndex
    <3>2. i \in 1..61 /\ STATIC_TABLE[i][1] = f[1]
      BY <2>1, <3>1, StaticNameIs
    <3>3. i \in 1..61
      BY <3>2
    <3>4. Len(t.entries) \in Nat
      BY <1>1
    <3>5. i \in 1..61 + Len(t.entries)
      BY <3>3, <3>4
    <3>6. Entry(t.entries, i) = STATIC_TABLE[i]
      BY <3>3 DEF Entry
    <3> QED
      BY <3>2, <3>5, <3>6 DEF InTables
  <2>2. CASE static_find_name(f) = 0
    <3>1. PICK k : k = find_name(t, f)
      OBVIOUS
    <3>2. k # 0 /\ i = 61 + k
      BY <1>2, <1>3, <2>2, <3>1, Statics DEF NameIndex
    <3>3. k \in 1..Len(t.entries) /\ t.entries[k][1] = f[1]
      BY <3>1, <3>2, FindNameIs
    <3>4. i \in 1..61 + Len(t.entries) /\ ~(i <= 61) /\ i - 61 = k
      BY <1>1, <3>2, <3>3
    <3> QED
      BY <3>3, <3>4 DEF InTables, Entry
  <2> QED
    BY <2>1, <2>2
<1>4. i \in 0..Largest
  BY <1>1, <1>3, IndicesAreSmall, Bounds
<1> QED
  BY <1>2, <1>3, <1>4

LEMMA MarksAre ==
  /\ Marks(7, 128) /\ Marks(6, 64) /\ Marks(5, 32) /\ Marks(4, 0) /\ Marks(4, 16)
BY DEF Marks

LEMMA IndexWritten ==
  ASSUME NEW t \in SoundTables, NEW f, NEW i, InTables(t.entries, i), Entry(t.entries, i) = f
  PROVE  Refers(t.entries, f, 7, 128, i) /\ Written(f, 7, 128, i, encode_int(i, 7, 128))
<1>1. i \in 1..Largest
  BY SoundSmall, IndicesAreSmall
<1>2. i \in 0..Largest /\ i # 0
  BY <1>1, Bounds
<1>3. Spells(encode_int(i, 7, 128), i, Full(7), 128)
  BY <1>2, MarksAre, EncodeIntIs
<1>4. Refers(t.entries, f, 7, 128, i)
  BY <1>2, MarksAre DEF Refers
<1> QED
  BY <1>3, <1>4, WrittenIndex

LEMMA LiteralWritten ==
  ASSUME NEW t \in SoundTables, NEW f, NEW prefix, NEW mask, Marks(prefix, mask), prefix \in {4, 6}
  PROVE  \E i : Refers(t.entries, f, prefix, mask, i) /\ Written(f, prefix, mask, i, LiteralOf(t, f, prefix, mask))
<1>1. PICK i : i = NameIndex(t, f)
  OBVIOUS
<1>2. i \in 0..Largest /\ (i # 0 => InTables(t.entries, i) /\ Entry(t.entries, i)[1] = f[1])
  BY <1>1, NameIndexIs
<1>3. prefix # 7 /\ prefix # 5
  OBVIOUS
<1>4. Spells(encode_int(i, prefix, mask), i, Full(prefix), mask)
  BY <1>2, EncodeIntIs
<1>5. LiteralOf(t, f, prefix, mask) = encode_int(i, prefix, mask) \o Strings(i, f)
  BY <1>1 DEF LiteralOf
<1>6. Written(f, prefix, mask, i, LiteralOf(t, f, prefix, mask))
  BY <1>3, <1>4, <1>5, WrittenLiteral
<1>7. Refers(t.entries, f, prefix, mask, i)
  BY <1>2, <1>3 DEF Refers
<1> QED
  BY <1>6, <1>7

LEMMA EncodeFieldIs ==
  ASSUME NEW t \in SoundTables, NEW f
  PROVE  \E prefix, mask, i : EncodedBy(t, f, prefix, mask, i, EncodeField(t, f))
<1> DEFINE exact == static_find_exact(f)
           found == find_exact(t, f)
           e == EncodeField(t, f)
<1>1. Len(t.entries) \in Nat
  BY SoundFields, LenProperties
<1>2. CASE exact # 0
  <2>1. PICK i : i = exact
    OBVIOUS
  <2>2. e = [table |-> t, block |-> encode_int(i, 7, 128)]
    BY <1>2, <2>1 DEF EncodeField
  <2>3. i \in 1..61 /\ STATIC_TABLE[i] = f
    BY <1>2, <2>1, StaticExactIs
  <2>4. InTables(t.entries, i)
    BY <1>1, <2>3 DEF InTables
  <2>5. InTables(t.entries, i) /\ Entry(t.entries, i) = f
    BY <2>3, <2>4 DEF Entry
  <2>6. Refers(t.entries, f, 7, 128, i) /\ Written(f, 7, 128, i, encode_int(i, 7, 128))
    BY <2>5, IndexWritten
  <2>7. EncodedBy(t, f, 7, 128, i, e)
    BY <2>2, <2>6 DEF EncodedBy
  <2> QED
    BY <2>7
<1>3. CASE exact = 0 /\ found # 0
  <2>1. PICK i : i = 61 + found
    OBVIOUS
  <2>2. e = [table |-> t, block |-> encode_int(i, 7, 128)]
    BY <1>3, <2>1, Statics DEF EncodeField
  <2>3. found \in 1..Len(t.entries) /\ t.entries[found] = f
    BY <1>3, FindExactIs
  <2>4. i \in 1..61 + Len(t.entries) /\ ~(i <= 61) /\ i - 61 = found
    BY <1>1, <2>1, <2>3
  <2>5. InTables(t.entries, i) /\ Entry(t.entries, i) = f
    BY <2>3, <2>4 DEF InTables, Entry
  <2>6. Refers(t.entries, f, 7, 128, i) /\ Written(f, 7, 128, i, encode_int(i, 7, 128))
    BY <2>5, IndexWritten
  <2>7. EncodedBy(t, f, 7, 128, i, e)
    BY <2>2, <2>6 DEF EncodedBy
  <2> QED
    BY <2>7
<1>4. CASE exact = 0 /\ found = 0 /\ f[1] \in NEVER_INDEX
  <2>1. f[1] \notin NO_INDEX
    BY <1>4 DEF NEVER_INDEX, NO_INDEX
  <2>2. e = [table |-> t, block |-> LiteralOf(t, f, 4, 16)]
    BY <1>4, <2>1 DEF EncodeField
  <2>3. PICK i : Refers(t.entries, f, 4, 16, i) /\ Written(f, 4, 16, i, LiteralOf(t, f, 4, 16))
    BY MarksAre, LiteralWritten
  <2>4. EncodedBy(t, f, 4, 16, i, e)
    BY <2>2, <2>3 DEF EncodedBy
  <2> QED
    BY <2>4
<1>5. CASE exact = 0 /\ found = 0 /\ f[1] \notin NEVER_INDEX /\ f[1] \in NO_INDEX
  <2>1. e = [table |-> t, block |-> LiteralOf(t, f, 4, 0)]
    BY <1>5 DEF EncodeField
  <2>2. PICK i : Refers(t.entries, f, 4, 0, i) /\ Written(f, 4, 0, i, LiteralOf(t, f, 4, 0))
    BY MarksAre, LiteralWritten
  <2>3. EncodedBy(t, f, 4, 0, i, e)
    BY <2>1, <2>2 DEF EncodedBy
  <2> QED
    BY <2>3
<1>6. CASE exact = 0 /\ found = 0 /\ f[1] \notin NEVER_INDEX /\ f[1] \notin NO_INDEX
  <2>1. e = [table |-> insert(t, f), block |-> LiteralOf(t, f, 6, 64)]
    BY <1>6 DEF EncodeField
  <2>2. PICK i : Refers(t.entries, f, 6, 64, i) /\ Written(f, 6, 64, i, LiteralOf(t, f, 6, 64))
    BY MarksAre, LiteralWritten
  <2>3. EncodedBy(t, f, 6, 64, i, e)
    BY <2>1, <2>2 DEF EncodedBy
  <2> QED
    BY <2>3
<1> HIDE DEF exact, found, e
<1> QED
  BY <1>2, <1>3, <1>4, <1>5, <1>6 DEF e

(* So does the peer, whichever encoding it chooses. *)
PeerEncodedBy(p, f, prefix, mask, i, e) ==
    /\ Refers(p.entries, f, prefix, mask, i) /\ Written(f, prefix, mask, i, e.block)
    /\ e.table = IF prefix = 6 THEN PeerInsert(p, f) ELSE p

LEMMA PeerLiteralIs ==
  ASSUME NEW p, Small(p.entries), NEW f, NEW prefix, NEW mask, Marks(prefix, mask),
         prefix \in {4, 6}, NEW b \in Literal(p, f, prefix, mask)
  PROVE  \E i : Refers(p.entries, f, prefix, mask, i) /\ Written(f, prefix, mask, i, b)
<1>1. p.entries \in Seq(Fields)
  BY DEF Small
<1>2. prefix # 7 /\ prefix # 5 /\ 0 \in 0..Largest
  BY Bounds
<1>3. CASE b = PeerInt(0, prefix, mask) \o <<Str(f[1]), Str(f[2])>>
  <2>1. b = PeerInt(0, prefix, mask) \o Strings(0, f)
    BY <1>3 DEF Strings
  <2>2. Spells(PeerInt(0, prefix, mask), 0, Full(prefix), mask)
    BY <1>2, PeerIntIs
  <2>3. Written(f, prefix, mask, 0, b)
    BY <1>2, <2>1, <2>2, WrittenLiteral
  <2>4. Refers(p.entries, f, prefix, mask, 0)
    BY <1>2 DEF Refers
  <2> QED
    BY <2>3, <2>4
<1>4. CASE \E i \in {j \in DOMAIN Addressed(p) : Addressed(p)[j][1] = f[1]} :
              b = PeerInt(i, prefix, mask) \o <<Str(f[2])>>
  <2>1. PICK i : /\ i \in DOMAIN Addressed(p) /\ Addressed(p)[i][1] = f[1]
                 /\ b = PeerInt(i, prefix, mask) \o <<Str(f[2])>>
    BY <1>4
  <2>2. InTables(p.entries, i) /\ Entry(p.entries, i)[1] = f[1]
    BY <1>1, <2>1, AddressedIs
  <2>3. i \in 1..Largest
    BY <2>2, IndicesAreSmall
  <2>4. i \in 0..Largest /\ i # 0
    BY <2>3, Bounds
  <2>5. b = PeerInt(i, prefix, mask) \o Strings(i, f)
    BY <2>1, <2>4 DEF Strings
  <2>6. Spells(PeerInt(i, prefix, mask), i, Full(prefix), mask)
    BY <2>4, PeerIntIs
  <2>7. Written(f, prefix, mask, i, b)
    BY <1>2, <2>5, <2>6, WrittenLiteral
  <2>8. Refers(p.entries, f, prefix, mask, i)
    BY <1>2, <2>2, <2>4 DEF Refers
  <2> QED
    BY <2>7, <2>8
<1> QED
  BY <1>3, <1>4 DEF Literal

LEMMA EncodingsAre ==
  ASSUME NEW p, Small(p.entries), NEW f, NEW e \in Encodings(p, f)
  PROVE  \E prefix, mask, i : PeerEncodedBy(p, f, prefix, mask, i, e)
<1>1. p.entries \in Seq(Fields)
  BY DEF Small
<1>2. CASE \E i \in {j \in DOMAIN Addressed(p) : Addressed(p)[j] = f} :
              e = [table |-> p, block |-> PeerInt(i, 7, 128)]
  <2>1. PICK i : /\ i \in DOMAIN Addressed(p) /\ Addressed(p)[i] = f
                 /\ e = [table |-> p, block |-> PeerInt(i, 7, 128)]
    BY <1>2
  <2>2. InTables(p.entries, i) /\ Entry(p.entries, i) = f
    BY <1>1, <2>1, AddressedIs
  <2>3. i \in 1..Largest
    BY <2>2, IndicesAreSmall
  <2>4. i \in 0..Largest /\ i # 0
    BY <2>3, Bounds
  <2>5. Spells(PeerInt(i, 7, 128), i, Full(7), 128)
    BY <2>4, MarksAre, PeerIntIs
  <2>6. Written(f, 7, 128, i, PeerInt(i, 7, 128))
    BY <2>5, WrittenIndex
  <2>7. Refers(p.entries, f, 7, 128, i)
    BY <2>2, <2>4, MarksAre DEF Refers
  <2>8. PeerEncodedBy(p, f, 7, 128, i, e)
    BY <2>1, <2>6, <2>7 DEF PeerEncodedBy
  <2> QED
    BY <2>8
<1>3. CASE \E b \in Literal(p, f, 4, 0) : e = [table |-> p, block |-> b]
  <2>1. PICK b \in Literal(p, f, 4, 0) : e = [table |-> p, block |-> b]
    BY <1>3
  <2>2. PICK i : Refers(p.entries, f, 4, 0, i) /\ Written(f, 4, 0, i, b)
    BY MarksAre, PeerLiteralIs
  <2>3. PeerEncodedBy(p, f, 4, 0, i, e)
    BY <2>1, <2>2 DEF PeerEncodedBy
  <2> QED
    BY <2>3
<1>4. CASE \E b \in Literal(p, f, 6, 64) : e = [table |-> PeerInsert(p, f), block |-> b]
  <2>1. PICK b \in Literal(p, f, 6, 64) : e = [table |-> PeerInsert(p, f), block |-> b]
    BY <1>4
  <2>2. PICK i : Refers(p.entries, f, 6, 64, i) /\ Written(f, 6, 64, i, b)
    BY MarksAre, PeerLiteralIs
  <2>3. PeerEncodedBy(p, f, 6, 64, i, e)
    BY <2>1, <2>2 DEF PeerEncodedBy
  <2> QED
    BY <2>3
<1> QED
  BY <1>2, <1>3, <1>4 DEF Encodings

-----------------------------------------------------------------------------
(* Representations of a field: what both ends read *)

LEMMA AtParts ==
  ASSUME NEW S, NEW a \in Seq(S), NEW b \in Seq(S), NEW data, NEW pos, At(data, pos, a \o b)
  PROVE  /\ At(data, pos, a) /\ At(data, pos + Len(a), b)
         /\ pos + Len(a \o b) = (pos + Len(a)) + Len(b)
<1>1. PICK c : c = a \o b
  OBVIOUS
<1>2. /\ Len(a) \in Nat /\ Len(b) \in Nat /\ Len(c) = Len(a) + Len(b)
      /\ \A i \in 1..Len(a) + Len(b) : c[i] = IF i <= Len(a) THEN a[i] ELSE b[i - Len(a)]
  BY <1>1, LenProperties, ConcatProperties
<1>3. /\ pos \in Nat \ {0} /\ Len(data) \in Nat /\ pos + Len(c) <= Len(data) + 1
      /\ \A i \in 1..Len(c) : data[(pos - 1) + i] = c[i]
  BY <1>1 DEF At
<1>4. ASSUME NEW i \in 1..Len(a)
      PROVE  data[(pos - 1) + i] = a[i]
  <2>1. i \in 1..Len(c) /\ i \in 1..Len(a) + Len(b) /\ i <= Len(a)
    BY <1>2
  <2> QED
    BY <1>2, <1>3, <2>1
<1>5. ASSUME NEW i \in 1..Len(b)
      PROVE  data[((pos + Len(a)) - 1) + i] = b[i]
  <2>1. PICK j : j = Len(a) + i
    OBVIOUS
  <2>2. /\ j \in 1..Len(c) /\ j \in 1..Len(a) + Len(b) /\ ~(j <= Len(a)) /\ j - Len(a) = i
        /\ (pos - 1) + j = ((pos + Len(a)) - 1) + i
    BY <1>2, <1>3, <2>1
  <2>3. data[(pos - 1) + j] = c[j] /\ c[j] = b[j - Len(a)]
    BY <1>2, <1>3, <2>2
  <2> QED
    BY <2>2, <2>3
<1>6. pos + Len(a) \in Nat \ {0} /\ pos + Len(a) <= Len(data) + 1 /\ (pos + Len(a)) + Len(b) <= Len(data) + 1
  BY <1>2, <1>3
<1>7. At(data, pos, a)
  BY <1>2, <1>3, <1>4, <1>6 DEF At
<1>8. At(data, pos + Len(a), b)
  BY <1>2, <1>3, <1>5, <1>6 DEF At
<1>9. pos + Len(c) = (pos + Len(a)) + Len(b)
  BY <1>2, <1>3
<1> QED
  BY <1>1, <1>7, <1>8, <1>9

LEMMA FirstOctet ==
  ASSUME NEW s, NEW n \in 0..Largest, NEW prefix, NEW mask, Marks(prefix, mask),
         Spells(s, n, Full(prefix), mask)
  PROVE  /\ Len(s) \in Nat \ {0}
         /\ s[1].octet \in mask..mask + Full(prefix)
<1>1. PICK full : full = Full(prefix)
  OBVIOUS
<1>2. full \in Nat /\ mask \in Nat /\ n \in Nat
  BY <1>1, FullIs
<1>3. Spells(s, n, full, mask)
  BY <1>1
<1>4. \A o : Octet(o).octet = o
  BY DEF Octet
<1>5. CASE ShortNumber(s, n, full, mask)
  <2>1. Len(s) = 1 /\ s[1] = Octet(mask + n) /\ n < full
    BY <1>5 DEF ShortNumber
  <2>2. mask + n \in mask..mask + full
    BY <1>2, <2>1
  <2> QED
    BY <1>1, <1>4, <2>1, <2>2
<1>6. ASSUME Len(s) \in {2, 3, 4}, s[1] = Octet(mask + full)
      PROVE  Len(s) \in Nat \ {0} /\ s[1].octet \in mask..mask + full
  <2>1. mask + full \in mask..mask + full
    BY <1>2
  <2> QED
    BY <1>4, <1>6, <2>1
<1>7. CASE TwoOctets(s, n, full, mask)
  BY <1>1, <1>6, <1>7 DEF TwoOctets
<1>8. CASE ThreeOctets(s, n, full, mask)
  BY <1>1, <1>6, <1>8 DEF ThreeOctets
<1>9. CASE LastOctets(s, n, full, mask)
  BY <1>1, <1>6, <1>9 DEF LastOctets
<1> QED
  BY <1>2, <1>3, <1>5, <1>7, <1>8, <1>9, SpellsCases

(* A representation at a position of a block. *)
Shown(data, pos, f, prefix, mask, i, b) ==
    /\ Marks(prefix, mask) /\ prefix # 5 /\ i \in 0..Largest /\ (i = 0 => prefix # 7)
    /\ f \in Fields /\ Written(f, prefix, mask, i, b) /\ At(data, pos, b)

(* The strings that follow the number, up to the next representation. *)
StringsAt(data, end, f, prefix, i, next) ==
    /\ end \in Nat
    /\ prefix = 7 => next = end
    /\ prefix # 7 /\ i = 0 =>
          /\ next = end + 2 /\ end + 1 <= Len(data)
          /\ data[end] = Str(f[1]) /\ data[end + 1] = Str(f[2])
    /\ prefix # 7 /\ i # 0 =>
          next = end + 1 /\ end <= Len(data) /\ data[end] = Str(f[2])

LEMMA ShownIs ==
  ASSUME NEW data, NEW pos, NEW f, NEW prefix, NEW mask, NEW i, NEW b,
         Shown(data, pos, f, prefix, mask, i, b)
  PROVE  \E end, shift :
            /\ decode_int(data, pos, prefix) = Ready(end, i, shift)
            /\ IntEnd(data, pos, prefix) \in Nat
            /\ IntEnd(data, pos, prefix) + 1 = end /\ IntValue(data, pos, prefix) = i
            /\ StringsAt(data, end, f, prefix, i, pos + Len(b))
            /\ data[pos].octet \in mask..mask + Full(prefix)
            /\ Len(b) \in Nat \ {0} /\ pos <= Len(data)
<1>1. /\ Marks(prefix, mask) /\ prefix # 5 /\ i \in 0..Largest
      /\ f \in Fields /\ Written(f, prefix, mask, i, b) /\ At(data, pos, b)
  BY DEF Shown
<1>2. PICK s : Spells(s, i, Full(prefix), mask) /\ b = s \o Texts(prefix, i, f)
  BY <1>1 DEF Written
<1>3. PICK w : w = Texts(prefix, i, f)
  OBVIOUS
<1>4. s \in Seq(Tokens) /\ w \in Seq(Tokens) /\ Len(w) \in Nat
  BY <1>1, <1>2, <1>3, SpellsTyped, TextsTyped
<1>5. b = s \o w
  BY <1>2, <1>3
<1>6. At(data, pos, s \o w)
  BY <1>1, <1>5
<1>7. /\ At(data, pos, s) /\ At(data, pos + Len(s), w)
      /\ pos + Len(b) = (pos + Len(s)) + Len(w)
  BY <1>4, <1>5, <1>6, AtParts
<1>8. PICK shift \in Nat : decode_int(data, pos, prefix) = Ready(pos + Len(s), i, shift)
  BY <1>1, <1>2, <1>7, DecodeIntIs
<1>9. PICK end : end = pos + Len(s)
  OBVIOUS
<1>10. /\ IntEnd(data, pos, prefix) \in Nat
       /\ IntEnd(data, pos, prefix) + 1 = end /\ IntValue(data, pos, prefix) = i
  BY <1>1, <1>2, <1>7, <1>9, PeerReadIs
<1>11. Len(s) \in Nat \ {0} /\ s[1].octet \in mask..mask + Full(prefix)
  BY <1>1, <1>2, FirstOctet
<1>12. /\ pos \in Nat \ {0} /\ Len(data) \in Nat /\ pos + Len(s) <= Len(data) + 1
       /\ \A j \in 1..Len(s) : data[(pos - 1) + j] = s[j]
  BY <1>7 DEF At
<1>13. data[pos] = s[1] /\ pos <= Len(data) /\ end \in Nat
  <2>1. 1 \in 1..Len(s) /\ (pos - 1) + 1 = pos
    BY <1>11, <1>12
  <2>2. data[pos] = s[1]
    BY <1>12, <2>1
  <2> QED
    BY <1>9, <1>11, <1>12, <2>2
<1>14. /\ Len(w) \in Nat /\ end + Len(w) <= Len(data) + 1 /\ end \in Nat \ {0}
       /\ \A j \in 1..Len(w) : data[(end - 1) + j] = w[j]
  BY <1>7, <1>9 DEF At
<1>15. StringsAt(data, end, f, prefix, i, end + Len(w))
  <2>1. CASE prefix = 7
    <3>1. w = <<>>
      BY <1>3, <2>1 DEF Texts
    <3>2. Len(w) = 0
      BY <3>1
    <3>3. end + Len(w) = end
      BY <1>14, <3>2
    <3> QED
      BY <1>13, <2>1, <3>3 DEF StringsAt
  <2>2. CASE prefix # 7 /\ i = 0
    <3>1. PICK x : x = Str(f[1])
      OBVIOUS
    <3>2. PICK y : y = Str(f[2])
      OBVIOUS
    <3>3. w = <<x, y>>
      BY <1>3, <2>2, <3>1, <3>2 DEF Texts, Strings
    <3>4. Len(w) = 2 /\ w[1] = x /\ w[2] = y
      BY <3>3
    <3>5. 1 \in 1..Len(w) /\ 2 \in 1..Len(w) /\ (end - 1) + 1 = end /\ (end - 1) + 2 = end + 1
      BY <1>14, <3>4
    <3>6. data[end] = x /\ data[end + 1] = y
      BY <1>14, <3>4, <3>5
    <3>7. end + Len(w) = end + 2 /\ end + 1 <= Len(data)
      BY <1>12, <1>14, <3>4
    <3> QED
      BY <1>13, <2>2, <3>1, <3>2, <3>6, <3>7 DEF StringsAt
  <2>3. CASE prefix # 7 /\ i # 0
    <3>1. PICK y : y = Str(f[2])
      OBVIOUS
    <3>2. w = <<y>>
      BY <1>3, <2>3, <3>1 DEF Texts, Strings
    <3>3. Len(w) = 1 /\ w[1] = y
      BY <3>2
    <3>4. 1 \in 1..Len(w) /\ (end - 1) + 1 = end
      BY <1>14, <3>3
    <3>5. data[end] = y
      BY <1>14, <3>3, <3>4
    <3>6. end + Len(w) = end + 1 /\ end <= Len(data)
      BY <1>12, <1>14, <3>3
    <3> QED
      BY <1>13, <2>3, <3>1, <3>5, <3>6 DEF StringsAt
  <2> QED
    BY <2>1, <2>2, <2>3
<1>16. end + Len(w) = pos + Len(b)
  BY <1>7, <1>9
<1>17. Len(b) \in Nat \ {0}
  <2>1. Len(b) = Len(s) + Len(w)
    BY <1>4, <1>5, ConcatProperties
  <2> QED
    BY <1>4, <1>11, <2>1
<1>18. decode_int(data, pos, prefix) = Ready(end, i, shift)
  BY <1>8, <1>9
<1>19. data[pos].octet \in mask..mask + Full(prefix)
  BY <1>11, <1>13
<1>20. StringsAt(data, end, f, prefix, i, pos + Len(b))
  BY <1>15, <1>16
<1> QED
  BY <1>10, <1>13, <1>17, <1>18, <1>19, <1>20

(* The state of a decoder, of ours and of the peer's. *)
Decoded(pos, h, t) == [ok |-> TRUE, pos |-> pos, headers |-> h, table |-> t]
Failed(pos, h, t) == [ok |-> FALSE, pos |-> pos, headers |-> h, table |-> t]

Reaches(entries, i) == i = 0 \/ InTables(entries, i)

(* What a representation says to one that has these entries. *)
Means(entries, f, prefix, i) ==
    IF prefix = 7 THEN Entry(entries, i)
    ELSE IF i = 0 THEN f ELSE <<Entry(entries, i)[1], f[2]>>

LEMMA NotGarbled ==
  ASSUME NEW f \in Fields
  PROVE  /\ Str(f[1]) # Str("garbled") /\ Str(f[2]) # Str("garbled")
         /\ Str(f[1]).str = f[1] /\ Str(f[2]).str = f[2] /\ f = <<f[1], f[2]>>
<1>1. f[1] # "garbled" /\ f[2] # "garbled" /\ f = <<f[1], f[2]>>
  BY FieldsAssumption
<1>2. \A x : Str(x).str = x
  BY DEF Str
<1>3. Str(f[1]) # Str("garbled")
  BY <1>1, <1>2
<1>4. Str(f[2]) # Str("garbled")
  BY <1>1, <1>2
<1> QED
  BY <1>1, <1>2, <1>3, <1>4

LEMMA LiteralRead ==
  ASSUME NEW data, Len(data) \in Nat, NEW pos, NEW h, NEW t, NEW f \in Fields, NEW prefix,
         prefix # 7, NEW i \in 0..Largest, NEW end, NEW shift, NEW next, NEW indexed \in BOOLEAN,
         decode_int(data, pos, prefix) = Ready(end, i, shift),
         StringsAt(data, end, f, prefix, i, next)
  PROVE  DecodeLiteral(data, Decoded(pos, h, t), prefix, indexed) =
           IF Reaches(t.entries, i)
           THEN PutField(Decoded(pos, h, t), next, Means(t.entries, f, prefix, i), indexed)
           ELSE Failed(pos, h, t)
<1>1. PICK s : s = Decoded(pos, h, t)
  OBVIOUS
<1>2. s.pos = pos /\ s.table = t /\ Refused(s) = Failed(pos, h, t)
  BY <1>1 DEF Refused, Decoded, Failed
<1>3. PICK int : int = decode_int(data, pos, prefix)
  OBVIOUS
<1>4. int.ok = TRUE /\ int.val = i /\ int.pos = end
  BY <1>3 DEF Ready
<1>5. CASE i = 0
  <2>1. next = end + 2 /\ end + 1 <= Len(data) /\ data[end] = Str(f[1]) /\ data[end + 1] = Str(f[2])
    BY <1>5 DEF StringsAt
  <2>2. Readable(data, end) /\ Readable(data, end + 1)
    <3>1. end <= Len(data) /\ end + 1 <= Len(data)
      BY <2>1 DEF StringsAt
    <3> QED
      BY <2>1, <3>1, NotGarbled DEF Readable
  <2>3. <<data[end].str, data[end + 1].str>> = f
    BY <2>1, NotGarbled
  <2>4. DecodeLiteral(data, s, prefix, indexed) =
          PutField(s, end + 2, <<data[end].str, data[end + 1].str>>, indexed)
    BY <1>2, <1>3, <1>4, <1>5, <2>2 DEF DecodeLiteral
  <2>5. Reaches(t.entries, i) /\ Means(t.entries, f, prefix, i) = f
    BY <1>5 DEF Reaches, Means
  <2> QED
    BY <1>1, <2>1, <2>3, <2>4, <2>5
<1>6. CASE i # 0 /\ ~InTables(t.entries, i)
  <2>1. ~Indexed(t, i)
    BY <1>6, IndexedIs
  <2>2. DecodeLiteral(data, s, prefix, indexed) = Refused(s)
    BY <1>2, <1>3, <1>4, <1>6, <2>1 DEF DecodeLiteral
  <2> QED
    BY <1>1, <1>2, <1>6, <2>2 DEF Reaches
<1>7. CASE i # 0 /\ InTables(t.entries, i)
  <2>1. next = end + 1 /\ end <= Len(data) /\ data[end] = Str(f[2])
    BY <1>7 DEF StringsAt
  <2>2. Readable(data, end)
    BY <2>1, NotGarbled DEF Readable
  <2>3. Indexed(t, i) /\ <<get_entry(t, i)[1], data[end].str>> = Means(t.entries, f, prefix, i)
    BY <1>7, <2>1, IndexedIs, NotGarbled DEF Means
  <2>4. DecodeLiteral(data, s, prefix, indexed) =
          PutField(s, end + 1, <<get_entry(t, i)[1], data[end].str>>, indexed)
    BY <1>2, <1>3, <1>4, <1>7, <2>2, <2>3 DEF DecodeLiteral
  <2>5. Reaches(t.entries, i)
    BY <1>7 DEF Reaches
  <2> QED
    BY <1>1, <2>1, <2>3, <2>4, <2>5
<1> QED
  BY <1>5, <1>6, <1>7

(* One turn of our decoder on a representation. *)
Entered(t, f, prefix) == IF prefix = 6 THEN insert(t, f) ELSE t

Reading(s, pos, h, t, f, prefix, i, b) ==
    s = IF Reaches(t.entries, i)
        THEN Decoded(pos + Len(b), Append(h, Means(t.entries, f, prefix, i)),
                     Entered(t, Means(t.entries, f, prefix, i), prefix))
        ELSE Failed(pos, h, t)

LEMMA DecodeFieldIs ==
  ASSUME NEW data, NEW pos, NEW h, NEW t, NEW f, NEW prefix, NEW mask, NEW i, NEW b,
         Shown(data, pos, f, prefix, mask, i, b), Len(data) \in Nat
  PROVE  Reading(DecodeField(data, Decoded(pos, h, t)), pos, h, t, f, prefix, i, b)
<1> SUFFICES DecodeField(data, Decoded(pos, h, t)) =
               IF Reaches(t.entries, i)
               THEN Decoded(pos + Len(b), Append(h, Means(t.entries, f, prefix, i)),
                            Entered(t, Means(t.entries, f, prefix, i), prefix))
               ELSE Failed(pos, h, t)
  BY DEF Reading
<1>1. PICK s : s = Decoded(pos, h, t)
  OBVIOUS
<1>2. s.pos = pos /\ s.table = t /\ s.headers = h /\ Refused(s) = Failed(pos, h, t)
  BY <1>1 DEF Refused, Decoded, Failed
<1>3. PICK next : next = pos + Len(b)
  OBVIOUS
<1>4. PICK end, shift :
         /\ decode_int(data, pos, prefix) = Ready(end, i, shift)
         /\ StringsAt(data, end, f, prefix, i, next)
         /\ data[pos].octet \in mask..mask + Full(prefix)
  BY <1>3, ShownIs
<1>5. PICK g : g = Means(t.entries, f, prefix, i)
  OBVIOUS
<1>6. Marks(prefix, mask) /\ prefix # 5 /\ i \in 0..Largest /\ (i = 0 => prefix # 7) /\ f \in Fields
  BY DEF Shown
<1>7. PICK o : o = data[pos].octet
  OBVIOUS
<1>8. /\ prefix \in {4, 6, 7}
      /\ prefix = 7 => o >= 128 /\ o \notin 64..127 /\ o \notin 32..63
      /\ prefix = 6 => ~(o >= 128) /\ o \in 64..127 /\ o \notin 32..63
      /\ prefix = 4 => ~(o >= 128) /\ o \notin 64..127 /\ o \notin 32..63
  <2>1. Full(7) = 127 /\ Full(6) = 63 /\ Full(4) = 15
    BY DEF Full
  <2>2. o \in mask..mask + Full(prefix)
    BY <1>4, <1>7
  <2> QED
    BY <1>6, <2>1, <2>2 DEF Marks
<1>9. CASE prefix = 7
  <2>1. DecodeField(data, s) = DecodeIndexed(data, s)
    BY <1>2, <1>7, <1>8, <1>9 DEF DecodeField
  <2>2. PICK int : int = decode_int(data, pos, 7)
    OBVIOUS
  <2>3. int.ok = TRUE /\ int.val = i /\ int.pos = next
    BY <1>4, <1>9, <2>2 DEF Ready, StringsAt
  <2>4. i # 0
    BY <1>6, <1>9
  <2>5. CASE InTables(t.entries, i)
    <3>1. Indexed(t, i) /\ get_entry(t, i) = g
      BY <1>5, <1>9, <2>5, IndexedIs DEF Means
    <3>2. DecodeIndexed(data, s) = Decoded(next, Append(h, g), t)
      BY <1>2, <2>2, <2>3, <3>1 DEF DecodeIndexed, Decoded
    <3> QED
      BY <1>1, <1>3, <1>5, <1>9, <2>1, <2>5, <3>2 DEF Reaches, Entered
  <2>6. CASE ~InTables(t.entries, i)
    <3>1. ~Indexed(t, i)
      BY <2>6, IndexedIs
    <3>2. DecodeIndexed(data, s) = Refused(s)
      BY <1>2, <2>2, <2>3, <3>1 DEF DecodeIndexed
    <3> QED
      BY <1>1, <1>2, <2>1, <2>4, <2>6, <3>2 DEF Reaches
  <2> QED
    BY <2>5, <2>6
<1>10. CASE prefix = 6
  <2>1. PICK w \in BOOLEAN : w = TRUE
    OBVIOUS
  <2>2. DecodeField(data, s) = DecodeLiteral(data, s, 6, w)
    BY <1>2, <1>7, <1>8, <1>10, <2>1 DEF DecodeField
  <2>3. DecodeLiteral(data, s, 6, w) =
          IF Reaches(t.entries, i) THEN PutField(s, next, g, w) ELSE Failed(pos, h, t)
    BY <1>1, <1>4, <1>5, <1>6, <1>10, LiteralRead
  <2>4. PutField(s, next, g, w) = Decoded(next, Append(h, g), insert(t, g))
    BY <1>2, <2>1 DEF PutField, Decoded
  <2> QED
    BY <1>1, <1>3, <1>5, <1>10, <2>2, <2>3, <2>4 DEF Entered
<1>11. CASE prefix = 4
  <2>1. PICK w \in BOOLEAN : w = FALSE
    OBVIOUS
  <2>2. DecodeField(data, s) = DecodeLiteral(data, s, 4, w)
    BY <1>2, <1>7, <1>8, <1>11, <2>1 DEF DecodeField
  <2>3. DecodeLiteral(data, s, 4, w) =
          IF Reaches(t.entries, i) THEN PutField(s, next, g, w) ELSE Failed(pos, h, t)
    BY <1>1, <1>4, <1>5, <1>6, <1>11, LiteralRead
  <2>4. PutField(s, next, g, w) = Decoded(next, Append(h, g), t)
    BY <1>2, <2>1 DEF PutField, Decoded
  <2> QED
    BY <1>1, <1>3, <1>5, <1>11, <2>2, <2>3, <2>4 DEF Entered
<1> QED
  BY <1>8, <1>9, <1>10, <1>11

(* One turn of the peer's decoder on a representation. *)
PeerEntered(p, f, prefix) == IF prefix = 6 THEN PeerInsert(p, f) ELSE p

PeerReading(s, pos, h, p, f, prefix, i, b) ==
    /\ Reaches(p.entries, i) =>
         s = Decoded(pos + Len(b), Append(h, Means(p.entries, f, prefix, i)),
                     PeerEntered(p, Means(p.entries, f, prefix, i), prefix))
    /\ ~Reaches(p.entries, i) => s.ok = FALSE /\ s.table = p

LEMMA PeerFieldIs ==
  ASSUME NEW data, NEW pos, NEW h, NEW p, NEW f, NEW prefix, NEW mask, NEW i, NEW b,
         Shown(data, pos, f, prefix, mask, i, b), p.entries \in Seq(Fields)
  PROVE  PeerReading(PeerField(data, Decoded(pos, h, p)), pos, h, p, f, prefix, i, b)
<1>1. PICK s : s = Decoded(pos, h, p)
  OBVIOUS
<1>2. s.pos = pos /\ s.table = p /\ s.headers = h
  BY <1>1 DEF Decoded
<1>3. PICK next : next = pos + Len(b)
  OBVIOUS
<1>4. PICK end :
         /\ IntEnd(data, pos, prefix) \in Nat
         /\ IntEnd(data, pos, prefix) + 1 = end /\ IntValue(data, pos, prefix) = i
         /\ StringsAt(data, end, f, prefix, i, next)
         /\ data[pos].octet \in mask..mask + Full(prefix)
  BY <1>3, ShownIs
<1>5. PICK last : last = IntEnd(data, pos, prefix)
  OBVIOUS
<1>6. Marks(prefix, mask) /\ prefix # 5 /\ i \in 0..Largest /\ (i = 0 => prefix # 7) /\ f \in Fields
  BY DEF Shown
<1>7. PICK o : o = data[pos].octet
  OBVIOUS
<1>8. PeerPrefix(o) = prefix
  <2>1. Full(7) = 127 /\ Full(6) = 63 /\ Full(4) = 15
    BY DEF Full
  <2>2. o \in mask..mask + Full(prefix)
    BY <1>4, <1>7
  <2> QED
    BY <1>6, <2>1, <2>2 DEF Marks, PeerPrefix
<1>9. PICK g : g = Means(p.entries, f, prefix, i)
  OBVIOUS
<1>10. PICK a : a = Addressed(p)
  OBVIOUS
<1>11. (i \in DOMAIN a <=> InTables(p.entries, i)) /\ (InTables(p.entries, i) => a[i] = Entry(p.entries, i))
  BY <1>10, AddressedIs
<1>12. last \in Nat /\ last + 1 = end /\ IntValue(data, pos, prefix) = i
  BY <1>4, <1>5
<1>13. ASSUME ~Reaches(p.entries, i)
       PROVE  PeerField(data, s).ok = FALSE /\ PeerField(data, s).table = p
  <2>1. i \notin DOMAIN a /\ i # 0
    BY <1>11, <1>13 DEF Reaches
  <2>2. PeerField(data, s) = [s EXCEPT !.ok = FALSE]
    BY <1>2, <1>7, <1>8, <1>10, <1>12, <2>1 DEF PeerField
  <2>3. s = [ok |-> TRUE, pos |-> pos, headers |-> h, table |-> p]
    BY <1>1 DEF Decoded
  <2> QED
    BY <2>2, <2>3
<1>14. ASSUME Reaches(p.entries, i)
       PROVE  PeerField(data, s) = Decoded(next, Append(h, g), PeerEntered(p, g, prefix))
  <2>1. CASE prefix = 7
    <3>1. InTables(p.entries, i) /\ i # 0
      BY <1>6, <1>14, <2>1 DEF Reaches
    <3>2. a[i] = g /\ i \in DOMAIN a
      BY <1>9, <1>11, <2>1, <3>1 DEF Means
    <3>3. next = last + 1 + 0
      BY <1>4, <1>12, <2>1 DEF StringsAt
    <3>4. PeerField(data, s) = Decoded(next, Append(h, g), p)
      BY <1>2, <1>5, <1>7, <1>8, <1>10, <1>12, <2>1, <3>1, <3>2, <3>3 DEF PeerField, Decoded
    <3> QED
      BY <2>1, <3>4 DEF PeerEntered
  <2>2. CASE prefix # 7 /\ i = 0
    <3>1. next = end + 2 /\ data[end] = Str(f[1]) /\ data[end + 1] = Str(f[2])
      BY <1>4, <2>2 DEF StringsAt
    <3>2. <<data[end].str, data[end + 1].str>> = f /\ g = f
      BY <1>6, <1>9, <2>2, <3>1, NotGarbled DEF Means
    <3>3. last + 1 + 1 = end + 1 /\ last + 1 + (1 + 1) = next
      BY <1>12, <3>1
    <3>4. PeerField(data, s) =
            Decoded(next, Append(h, g), IF prefix = 6 THEN PeerInsert(p, g) ELSE p)
      BY <1>2, <1>5, <1>7, <1>8, <1>10, <1>12, <2>2, <3>2, <3>3 DEF PeerField, Decoded
    <3> QED
      BY <3>4 DEF PeerEntered
  <2>3. CASE prefix # 7 /\ i # 0
    <3>1. next = end + 1 /\ data[end] = Str(f[2])
      BY <1>4, <2>3 DEF StringsAt
    <3>2. InTables(p.entries, i)
      BY <1>14, <2>3 DEF Reaches
    <3>3. i \in DOMAIN a /\ <<a[i][1], data[end].str>> = g
      BY <1>6, <1>9, <1>11, <2>3, <3>1, <3>2, NotGarbled DEF Means
    <3>4. last + 0 + 1 = end /\ last + 1 + (0 + 1) = next
      BY <1>12, <3>1
    <3>5. PeerField(data, s) =
            Decoded(next, Append(h, g), IF prefix = 6 THEN PeerInsert(p, g) ELSE p)
      BY <1>2, <1>5, <1>7, <1>8, <1>10, <1>12, <2>3, <3>3, <3>4 DEF PeerField, Decoded
    <3> QED
      BY <3>5 DEF PeerEntered
  <2> QED
    BY <2>1, <2>2, <2>3
<1> QED
  BY <1>1, <1>3, <1>9, <1>13, <1>14 DEF PeerReading

-----------------------------------------------------------------------------
(* What a representation means at the other end *)

(* It stands for a field in any table. *)
LEMMA MeansField ==
  ASSUME NEW s \in Seq(Fields), NEW t \in Seq(Fields), NEW f \in Fields, NEW prefix, NEW mask,
         NEW i, Refers(s, f, prefix, mask, i), Reaches(t, i)
  PROVE  Means(t, f, prefix, i) \in Fields
<1>1. CASE i = 0
  <2>1. Means(t, f, prefix, i) = f
    BY <1>1 DEF Means, Refers
  <2> QED
    BY <2>1
<1>2. CASE i # 0 /\ i <= 61
  <2>1. Entry(t, i) = Entry(s, i)
    BY <1>2 DEF Entry
  <2>2. f = <<f[1], f[2]>>
    BY FieldsAssumption
  <2>3. Means(t, f, prefix, i) = f
    BY <1>2, <2>1, <2>2 DEF Means, Refers
  <2> QED
    BY <2>3
<1>3. CASE i # 0 /\ ~(i <= 61)
  <2>1. Entry(t, i) \in Fields
    BY <1>3, DynamicField DEF Reaches
  <2>2. <<Entry(t, i)[1], f[2]>> \in Fields
    BY <2>1, FieldsAssumption
  <2> QED
    BY <1>3, <2>1, <2>2 DEF Means
<1> QED
  BY <1>1, <1>2, <1>3

(* It stands for the field that was written when both tables know the index. *)
LEMMA MeansSame ==
  ASSUME NEW s, NEW t, NEW f \in Fields, NEW prefix, NEW mask, NEW i,
         Refers(s, f, prefix, mask, i), i = 0 \/ Entry(t, i) = Entry(s, i)
  PROVE  Means(t, f, prefix, i) = f
<1>1. f = <<f[1], f[2]>>
  BY FieldsAssumption
<1> QED
  BY <1>1 DEF Means, Refers

LEMMA MeansInLonger ==
  ASSUME NEW s \in Seq(Fields), NEW t \in Seq(Fields), IsPrefix(s, t), NEW f \in Fields,
         NEW prefix, NEW mask, NEW i, Refers(s, f, prefix, mask, i)
  PROVE  Reaches(t, i) /\ Means(t, f, prefix, i) = f
<1>1. i # 0 => InTables(s, i)
  BY DEF Refers
<1>2. i # 0 => InTables(t, i) /\ Entry(t, i) = Entry(s, i)
  BY <1>1, PrefixMeans
<1> QED
  BY <1>2, MeansSame DEF Reaches

LEMMA MeansInShorter ==
  ASSUME NEW s \in Seq(Fields), NEW t \in Seq(Fields), IsPrefix(t, s), NEW f \in Fields,
         NEW prefix, NEW mask, NEW i, Refers(s, f, prefix, mask, i), Reaches(t, i)
  PROVE  Means(t, f, prefix, i) = f
<1>1. i # 0 => InTables(t, i)
  BY DEF Reaches
<1>2. i # 0 => Entry(t, i) = Entry(s, i)
  BY <1>1, PrefixMeans
<1> QED
  BY <1>2, MeansSame

(* The peer's table. *)
PeerTables ==
    {p \in [entries: Seq(Fields), max: Nat, evicted: BOOLEAN] : SizeOf(p.entries) <= p.max}

LEMMA PeerTableFields ==
  ASSUME NEW p \in PeerTables
  PROVE  /\ p.entries \in Seq(Fields) /\ p.max \in Nat /\ p.evicted \in BOOLEAN
         /\ SizeOf(p.entries) <= p.max
BY DEF PeerTables

(* What is left of entries in a table with a limit. *)
LimitedTo(q, p, entries, max) ==
    /\ q \in PeerTables /\ q.entries = Kept(entries, max) /\ q.max = max
    /\ ~q.evicted => ~p.evicted /\ ~(Len(Kept(entries, max)) < Len(entries))

LEMMA LimitedIs ==
  ASSUME NEW p \in PeerTables, NEW entries \in Seq(Fields), NEW max \in Nat
  PROVE  LimitedTo(Limited(p, entries, max), p, entries, max)
<1>1. PICK k : k = Kept(entries, max)
  OBVIOUS
<1>2. k \in Seq(Fields) /\ SizeOf(k) <= max
  BY <1>1, KeptTyped
<1>3. PICK v \in BOOLEAN : v = (p.evicted \/ Len(k) < Len(entries))
  OBVIOUS
<1>4. PICK q : q = [entries |-> k, max |-> max, evicted |-> v]
  OBVIOUS
<1>5. Limited(p, entries, max) = q
  BY <1>1, <1>3, <1>4 DEF Limited
<1>6. q \in PeerTables
  BY <1>2, <1>4 DEF PeerTables
<1>7. q.entries = k /\ q.max = max /\ q.evicted = v
  BY <1>4
<1>8. ~q.evicted => ~p.evicted /\ ~(Len(k) < Len(entries))
  BY <1>3, <1>7
<1> QED
  BY <1>1, <1>5, <1>6, <1>7, <1>8 DEF LimitedTo

LEMMA PeerInsertIs ==
  ASSUME NEW p \in PeerTables, NEW f \in Fields
  PROVE  LimitedTo(PeerInsert(p, f), p, <<f>> \o p.entries, p.max)
<1>1. PICK e : e = <<f>> \o p.entries
  OBVIOUS
<1>2. e \in Seq(Fields) /\ p.max \in Nat
  BY <1>1, PeerTableFields, ConsIs
<1>3. PeerInsert(p, f) = Limited(p, e, p.max)
  BY <1>1 DEF PeerInsert
<1>4. LimitedTo(Limited(p, e, p.max), p, e, p.max)
  BY <1>2, LimitedIs
<1> QED
  BY <1>1, <1>3, <1>4

(* A table whose entries the peer knows, in as much room. *)
LEMMA EnteredIs ==
  ASSUME NEW t \in SoundTables, NEW f \in Fields, NEW prefix
  PROVE  /\ Entered(t, f, prefix) \in SoundTables
         /\ Entered(t, f, prefix).max_size = t.max_size
BY InsertIs DEF Entered

(* Peer and encoder: the smaller table is a part of the larger one, and as  *)
(* long as the peer has evicted nothing it has all that the encoder has.    *)
Follows(p, t) ==
    /\ p.max <= t.max_size => IsPrefix(p.entries, t.entries)
    /\ p.max >= t.max_size \/ ~p.evicted => IsPrefix(t.entries, p.entries)

LEMMA FollowsEntered ==
  ASSUME NEW p \in PeerTables, NEW t \in SoundTables, Follows(p, t), NEW f \in Fields, NEW prefix
  PROVE  /\ PeerEntered(p, f, prefix) \in PeerTables
         /\ PeerEntered(p, f, prefix).max = p.max
         /\ Follows(PeerEntered(p, f, prefix), Entered(t, f, prefix))
<1>1. CASE prefix # 6
  BY <1>1 DEF PeerEntered, Entered
<1>2. CASE prefix = 6
  <2>1. PICK q : q = PeerInsert(p, f)
    OBVIOUS
  <2>2. PICK u : u = insert(t, f)
    OBVIOUS
  <2>3. /\ p.entries \in Seq(Fields) /\ p.max \in Nat /\ p.evicted \in BOOLEAN
        /\ t.entries \in Seq(Fields) /\ t.max_size \in Nat
    BY PeerTableFields, SoundFields
  <2>4. PICK a : a = <<f>> \o p.entries
    OBVIOUS
  <2>5. PICK b : b = <<f>> \o t.entries
    OBVIOUS
  <2>6. a \in Seq(Fields) /\ b \in Seq(Fields)
    BY <2>3, <2>4, <2>5, ConsIs
  <2>7. /\ q \in PeerTables /\ q.entries = Kept(a, p.max) /\ q.max = p.max
        /\ ~q.evicted => ~p.evicted /\ ~(Len(Kept(a, p.max)) < Len(a))
    BY <2>1, <2>4, PeerInsertIs DEF LimitedTo
  <2>8. u.entries = Kept(b, t.max_size) /\ u.max_size = t.max_size
    BY <2>2, <2>5, InsertIs
  <2>9. ASSUME p.max <= t.max_size
        PROVE  IsPrefix(q.entries, u.entries)
    <3>1. IsPrefix(a, b)
      BY <2>3, <2>4, <2>5, <2>9, ConsPrefix DEF Follows
    <3> QED
      BY <2>3, <2>6, <2>7, <2>8, <2>9, <3>1, KeptPrefix
  <2>10. ASSUME p.max >= t.max_size
         PROVE  IsPrefix(u.entries, q.entries)
    <3>1. IsPrefix(b, a)
      BY <2>3, <2>4, <2>5, <2>10, ConsPrefix DEF Follows
    <3>2. t.max_size <= p.max
      BY <2>3, <2>10
    <3> QED
      BY <2>3, <2>6, <2>7, <2>8, <3>1, <3>2, KeptPrefix
  <2>11. ASSUME ~q.evicted, p.max <= t.max_size
         PROVE  IsPrefix(u.entries, q.entries)
    <3>1. ~p.evicted /\ ~(Len(Kept(a, p.max)) < Len(a))
      BY <2>7, <2>11
    <3>2. p.entries = t.entries
      BY <2>3, <2>11, <3>1, PrefixBoth DEF Follows
    <3>3. a = b
      BY <2>4, <2>5, <3>2
    <3>4. Kept(a, p.max) = a /\ Kept(a, t.max_size) = a
      BY <2>3, <2>6, <2>11, <3>1, KeptWhole
    <3>5. u.entries = q.entries /\ u.entries \in Seq(Fields)
      BY <2>6, <2>7, <2>8, <3>3, <3>4
    <3> QED
      BY <3>5, PrefixItself
  <2>12. p.max <= t.max_size \/ p.max >= t.max_size
    BY <2>3
  <2>13. Follows(q, u)
    BY <2>7, <2>8, <2>9, <2>10, <2>11, <2>12 DEF Follows
  <2>14. PeerEntered(p, f, prefix) = q /\ Entered(t, f, prefix) = u
    BY <1>2, <2>1, <2>2 DEF PeerEntered, Entered
  <2> QED
    BY <2>7, <2>13, <2>14
<1> QED
  BY <1>1, <1>2

(* Our decoder and the peer's encoder: our table has room for all of it. *)
Covers(d, p) == IsPrefix(p.entries, d.entries) /\ p.max <= d.max_size

LEMMA CoversEntered ==
  ASSUME NEW p \in PeerTables, NEW d \in SoundTables, Covers(d, p), NEW f \in Fields, NEW prefix
  PROVE  Covers(Entered(d, f, prefix), PeerEntered(p, f, prefix))
<1>1. CASE prefix # 6
  BY <1>1 DEF PeerEntered, Entered
<1>2. CASE prefix = 6
  <2>1. PICK q : q = PeerInsert(p, f)
    OBVIOUS
  <2>2. PICK u : u = insert(d, f)
    OBVIOUS
  <2>3. /\ p.entries \in Seq(Fields) /\ p.max \in Nat /\ d.entries \in Seq(Fields) /\ d.max_size \in Nat
        /\ IsPrefix(p.entries, d.entries) /\ p.max <= d.max_size
    BY PeerTableFields, SoundFields DEF Covers
  <2>4. PICK a : a = <<f>> \o p.entries
    OBVIOUS
  <2>5. PICK b : b = <<f>> \o d.entries
    OBVIOUS
  <2>6. a \in Seq(Fields) /\ b \in Seq(Fields) /\ IsPrefix(a, b)
    BY <2>3, <2>4, <2>5, ConsIs, ConsPrefix
  <2>7. q.entries = Kept(a, p.max) /\ q.max = p.max
    BY <2>1, <2>4, PeerInsertIs DEF LimitedTo
  <2>8. u.entries = Kept(b, d.max_size) /\ u.max_size = d.max_size
    BY <2>2, <2>5, InsertIs
  <2>9. IsPrefix(Kept(a, p.max), Kept(b, d.max_size))
    BY <2>3, <2>6, KeptPrefix
  <2>10. Covers(u, q)
    BY <2>3, <2>7, <2>8, <2>9 DEF Covers
  <2>11. PeerEntered(p, f, prefix) = q /\ Entered(d, f, prefix) = u
    BY <1>2, <2>1, <2>2 DEF PeerEntered, Entered
  <2> QED
    BY <2>10, <2>11
<1> QED
  BY <1>1, <1>2

LEMMA PeerEnteredIs ==
  ASSUME NEW p \in PeerTables, NEW f \in Fields, NEW prefix
  PROVE  /\ PeerEntered(p, f, prefix) \in PeerTables
         /\ PeerEntered(p, f, prefix).max = p.max
BY PeerInsertIs DEF PeerEntered, LimitedTo

-----------------------------------------------------------------------------
(* A field on its way *)

LEMMA WrittenLength ==
  ASSUME NEW f \in Fields, NEW prefix, NEW mask, Marks(prefix, mask), NEW i \in 0..Largest,
         NEW b, Written(f, prefix, mask, i, b)
  PROVE  b \in Seq(Tokens) /\ Len(b) \in Nat \ {0}
<1>1. PICK s : Spells(s, i, Full(prefix), mask) /\ b = s \o Texts(prefix, i, f)
  BY DEF Written
<1>2. s \in Seq(Tokens) /\ Texts(prefix, i, f) \in Seq(Tokens) /\ Len(Texts(prefix, i, f)) \in Nat
  BY <1>1, SpellsTyped, TextsTyped
<1>3. Len(s) \in Nat \ {0}
  BY <1>1, FirstOctet
<1>4. Len(b) = Len(s) + Len(Texts(prefix, i, f)) /\ b \in Seq(Tokens)
  BY <1>1, <1>2, ConcatProperties
<1> QED
  BY <1>2, <1>3, <1>4

LEMMA EncodeFieldTyped ==
  ASSUME NEW t \in SoundTables, NEW f \in Fields, NEW e, e = EncodeField(t, f)
  PROVE  /\ e.block \in Seq(Tokens) /\ Len(e.block) \in Nat \ {0}
         /\ e.table \in SoundTables /\ e.table.max_size = t.max_size
<1>1. PICK prefix, mask, i : EncodedBy(t, f, prefix, mask, i, e)
  BY EncodeFieldIs
<1>2. Marks(prefix, mask) /\ i \in 0..Largest /\ Written(f, prefix, mask, i, e.block)
  BY <1>1 DEF EncodedBy, Refers
<1>3. e.table = Entered(t, f, prefix)
  BY <1>1 DEF EncodedBy, Entered
<1>4. e.block \in Seq(Tokens) /\ Len(e.block) \in Nat \ {0}
  BY <1>2, WrittenLength
<1>5. Entered(t, f, prefix) \in SoundTables /\ Entered(t, f, prefix).max_size = t.max_size
  BY EnteredIs
<1> QED
  BY <1>3, <1>4, <1>5

LEMMA EncodingTyped ==
  ASSUME NEW p \in PeerTables, Small(p.entries), NEW f \in Fields, NEW e \in Encodings(p, f)
  PROVE  /\ e.block \in Seq(Tokens) /\ Len(e.block) \in Nat \ {0}
         /\ e.table \in PeerTables /\ e.table.max = p.max
<1>1. PICK prefix, mask, i : PeerEncodedBy(p, f, prefix, mask, i, e)
  BY EncodingsAre
<1>2. Marks(prefix, mask) /\ i \in 0..Largest /\ Written(f, prefix, mask, i, e.block)
  BY <1>1 DEF PeerEncodedBy, Refers
<1>3. e.table = PeerEntered(p, f, prefix)
  BY <1>1 DEF PeerEncodedBy, PeerEntered
<1>4. e.block \in Seq(Tokens) /\ Len(e.block) \in Nat \ {0}
  BY <1>2, WrittenLength
<1>5. PeerEntered(p, f, prefix) \in PeerTables /\ PeerEntered(p, f, prefix).max = p.max
  BY PeerEnteredIs
<1> QED
  BY <1>3, <1>4, <1>5

(* The peer's decoder after some fields: it has them, and follows our table,  *)
(* or it has given up, with a smaller table that has overflowed.              *)
PeerHas(s, pos, h, t) == \E p \in PeerTables : s = Decoded(pos, h, p) /\ Follows(p, t)
PeerGaveUp(s, max) ==
    /\ s.ok = FALSE /\ s.table \in PeerTables
    /\ s.table.max < max /\ s.table.evicted

LEMMA PeerTakes ==
  ASSUME NEW t \in SoundTables, NEW f \in Fields, NEW e, e = EncodeField(t, f),
         NEW data, NEW pos, At(data, pos, e.block), NEW h, NEW s, PeerHas(s, pos, h, t)
  PROVE  \/ PeerHas(PeerNext(data, s), pos + Len(e.block), Append(h, f), e.table)
         \/ PeerGaveUp(PeerNext(data, s), t.max_size)
<1>1. PICK p \in PeerTables : s = Decoded(pos, h, p) /\ Follows(p, t)
  BY DEF PeerHas
<1>2. PICK prefix, mask, i : EncodedBy(t, f, prefix, mask, i, e)
  BY EncodeFieldIs
<1>3. PICK b : b = e.block
  OBVIOUS
<1>4. /\ Refers(t.entries, f, prefix, mask, i) /\ Written(f, prefix, mask, i, b)
      /\ e.table = Entered(t, f, prefix)
  BY <1>2, <1>3 DEF EncodedBy, Entered
<1>5. Shown(data, pos, f, prefix, mask, i, b)
  BY <1>3, <1>4 DEF Shown, Refers
<1>6. /\ p.entries \in Seq(Fields) /\ p.max \in Nat /\ p.evicted \in BOOLEAN
      /\ t.entries \in Seq(Fields) /\ t.max_size \in Nat
  BY PeerTableFields, SoundFields
<1>7. PeerNext(data, s) = PeerField(data, s)
  <2>1. pos <= Len(data)
    BY <1>5, ShownIs
  <2>2. s.ok = TRUE /\ s.pos = pos
    BY <1>1 DEF Decoded
  <2> QED
    BY <2>1, <2>2 DEF PeerNext
<1>8. PeerReading(PeerField(data, Decoded(pos, h, p)), pos, h, p, f, prefix, i, b)
  BY <1>5, <1>6, PeerFieldIs
<1>9. PeerReading(PeerField(data, s), pos, h, p, f, prefix, i, b)
  BY <1>1, <1>8
<1>10. ASSUME Reaches(p.entries, i), Means(p.entries, f, prefix, i) = f
      PROVE  PeerHas(PeerNext(data, s), pos + Len(b), Append(h, f), e.table)
  <2>1. PeerField(data, s) = Decoded(pos + Len(b), Append(h, f), PeerEntered(p, f, prefix))
    BY <1>10, <1>9 DEF PeerReading
  <2>2. PeerEntered(p, f, prefix) \in PeerTables /\ Follows(PeerEntered(p, f, prefix), Entered(t, f, prefix))
    BY <1>1, FollowsEntered
  <2> QED
    BY <1>4, <1>7, <2>1, <2>2 DEF PeerHas
<1>11. CASE p.max >= t.max_size \/ ~p.evicted
  <2>1. IsPrefix(t.entries, p.entries)
    BY <1>1, <1>11 DEF Follows
  <2>2. Reaches(p.entries, i) /\ Means(p.entries, f, prefix, i) = f
    BY <1>4, <1>6, <2>1, MeansInLonger
  <2> QED
    BY <1>3, <1>10, <2>2
<1>12. CASE ~(p.max >= t.max_size) /\ p.evicted
  <2>1. p.max <= t.max_size /\ p.max < t.max_size
    BY <1>6, <1>12
  <2>2. IsPrefix(p.entries, t.entries)
    BY <1>1, <2>1 DEF Follows
  <2>3. CASE Reaches(p.entries, i)
    <3>1. Means(p.entries, f, prefix, i) = f
      BY <1>4, <1>6, <2>2, <2>3, MeansInShorter
    <3> QED
      BY <1>3, <1>10, <2>3, <3>1
  <2>4. CASE ~Reaches(p.entries, i)
    <3>1. PeerField(data, s).ok = FALSE /\ PeerField(data, s).table = p
      BY <1>9, <2>4 DEF PeerReading
    <3> QED
      BY <1>7, <1>12, <2>1, <3>1 DEF PeerGaveUp
  <2> QED
    BY <2>3, <2>4
<1> QED
  BY <1>11, <1>12

(* Our decoder after some fields: if the tables agreed when it began, it has *)
(* these fields and they agree still; whatever it has, is fields.            *)
Has(s, pos, h, p, sure) ==
    \E d \in SoundTables, l \in Seq(Fields) :
       /\ s = Decoded(pos, l, d) /\ d.max_size <= TableSize
       /\ sure => l = h /\ Covers(d, p)

LEMMA Takes ==
  ASSUME NEW p \in PeerTables, Small(p.entries), NEW f \in Fields, NEW e \in Encodings(p, f),
         NEW data, NEW pos, At(data, pos, e.block), NEW h, NEW sure, NEW s, Has(s, pos, h, p, sure)
  PROVE  \/ Has(DecodeNext(data, s), pos + Len(e.block), Append(h, f), e.table, sure)
         \/ ~sure /\ ~DecodeNext(data, s).ok
<1>1. PICK d \in SoundTables, l \in Seq(Fields) :
         /\ s = Decoded(pos, l, d) /\ d.max_size <= TableSize
         /\ sure => l = h /\ Covers(d, p)
  BY DEF Has
<1>2. PICK prefix, mask, i : PeerEncodedBy(p, f, prefix, mask, i, e)
  BY EncodingsAre
<1>3. PICK b : b = e.block
  OBVIOUS
<1>4. /\ Refers(p.entries, f, prefix, mask, i) /\ Written(f, prefix, mask, i, b)
      /\ e.table = PeerEntered(p, f, prefix)
  BY <1>2, <1>3 DEF PeerEncodedBy, PeerEntered
<1>5. Shown(data, pos, f, prefix, mask, i, b)
  BY <1>3, <1>4 DEF Shown, Refers
<1>6. p.entries \in Seq(Fields) /\ d.entries \in Seq(Fields) /\ Len(data) \in Nat
  BY PeerTableFields, SoundFields DEF At
<1>7. DecodeNext(data, s) = DecodeField(data, s)
  <2>1. pos <= Len(data)
    BY <1>5, ShownIs
  <2>2. s.ok = TRUE /\ s.pos = pos
    BY <1>1 DEF Decoded
  <2> QED
    BY <2>1, <2>2 DEF DecodeNext
<1>8. Reading(DecodeField(data, Decoded(pos, l, d)), pos, l, d, f, prefix, i, b)
  BY <1>5, <1>6, DecodeFieldIs
<1>9. Reading(DecodeNext(data, s), pos, l, d, f, prefix, i, b)
  BY <1>1, <1>7, <1>8
<1>10. PICK g : g = Means(d.entries, f, prefix, i)
  OBVIOUS
<1>11. ASSUME sure
       PROVE  Reaches(d.entries, i) /\ g = f
  <2>1. IsPrefix(p.entries, d.entries)
    BY <1>1, <1>11 DEF Covers
  <2> QED
    BY <1>4, <1>6, <1>10, <2>1, MeansInLonger
<1>12. CASE Reaches(d.entries, i)
  <2>1. DecodeNext(data, s) = Decoded(pos + Len(b), Append(l, g), Entered(d, g, prefix))
    BY <1>9, <1>10, <1>12 DEF Reading
  <2>2. g \in Fields
    BY <1>4, <1>6, <1>10, <1>12, MeansField
  <2>3. PICK d2 : d2 = Entered(d, g, prefix)
    OBVIOUS
  <2>4. d2 \in SoundTables /\ d2.max_size <= TableSize
    BY <1>1, <2>2, <2>3, EnteredIs
  <2>5. PICK l2 : l2 = Append(l, g)
    OBVIOUS
  <2>6. l2 \in Seq(Fields)
    BY <2>2, <2>5, AppendProperties
  <2>7. ASSUME sure
        PROVE  l2 = Append(h, f) /\ Covers(d2, e.table)
    <3>1. g = f /\ l = h /\ Covers(d, p)
      BY <1>1, <1>11, <2>7
    <3>2. Covers(Entered(d, f, prefix), PeerEntered(p, f, prefix))
      BY <3>1, CoversEntered
    <3> QED
      BY <1>4, <2>3, <2>5, <3>1, <3>2
  <2>8. DecodeNext(data, s) = Decoded(pos + Len(e.block), l2, d2)
    BY <1>3, <2>1, <2>3, <2>5
  <2> QED
    BY <2>4, <2>6, <2>7, <2>8 DEF Has
<1>13. CASE ~Reaches(d.entries, i)
  <2>1. DecodeNext(data, s) = Failed(pos, l, d)
    BY <1>9, <1>13 DEF Reading
  <2>2. ~DecodeNext(data, s).ok
    BY <2>1 DEF Failed
  <2> QED
    BY <1>11, <1>13, <2>2
<1> QED
  BY <1>12, <1>13

-----------------------------------------------------------------------------
(* Turns *)

(* Those of the peer's decoder over a block. *)
PeerTurns(f, table, block, n) ==
    f = [k \in 0..n |->
            IF k = 0 THEN [ok |-> TRUE, pos |-> 1, headers |-> <<>>, table |-> table]
            ELSE PeerNext(block, f[k - 1])]

LEMMA PeerTurnsStep ==
  ASSUME NEW table, NEW block, NEW n \in Nat, NEW f, PeerTurns(f, table, block, n)
  PROVE  \E g : PeerTurns(g, table, block, n + 1)
<1> DEFINE T(x, k) == PeerNext(block, x)
           z == [ok |-> TRUE, pos |-> 1, headers |-> <<>>, table |-> table]
           g == [k \in 0..n + 1 |-> IF k = 0 THEN z ELSE T(f[k - 1], k)]
<1>1. f = [k \in 0..n |-> IF k = 0 THEN z ELSE T(f[k - 1], k)]
  BY DEF PeerTurns
<1> HIDE DEF T, z
<1>2. \A k \in 0..n : g[k] = f[k]
  BY <1>1
<1>3. \A k \in 0..n + 1 : k # 0 => k - 1 \in 0..n
  OBVIOUS
<1>4. g = [k \in 0..n + 1 |-> IF k = 0 THEN z ELSE T(g[k - 1], k)]
  BY <1>2, <1>3
<1> HIDE DEF g
<1> QED
  BY <1>4 DEF PeerTurns, T, z

LEMMA PeerTurnsExist ==
  ASSUME NEW table, NEW block, Len(block) \in Nat
  PROVE  \E f : PeerTurns(f, table, block, Len(block)) /\ PeerDecode(table, block) = f[Len(block)]
<1> DEFINE n == Len(block)
           S == {m \in Nat : \E f : PeerTurns(f, table, block, m)}
<1>1. 0 \in S
  <2>1. PeerTurns([k \in 0..0 |-> [ok |-> TRUE, pos |-> 1, headers |-> <<>>, table |-> table]], table, block, 0)
    BY DEF PeerTurns
  <2> QED
    BY <2>1
<1>2. \A m \in Nat : m \in S => m + 1 \in S
  BY PeerTurnsStep
<1>3. S \subseteq Nat /\ n \in Nat
  OBVIOUS
<1> HIDE DEF S
<1>4. n \in S
  BY <1>1, <1>2, <1>3, CountUp
<1>5. PeerTurns(CHOOSE f : PeerTurns(f, table, block, n), table, block, n)
  BY <1>4 DEF S
<1>6. PeerDecode(table, block) = (CHOOSE f : PeerTurns(f, table, block, n))[n]
  BY DEF PeerDecode, PeerTurns
<1> QED
  BY <1>5, <1>6

(* Those of our decoder. *)
DecodeTurns(f, table, data, n) ==
    f = [k \in 0..n |->
            IF k = 0 THEN [ok |-> TRUE, pos |-> 1, headers |-> <<>>, table |-> table]
            ELSE DecodeNext(data, f[k - 1])]

LEMMA DecodeTurnsStep ==
  ASSUME NEW table, NEW data, NEW n \in Nat, NEW f, DecodeTurns(f, table, data, n)
  PROVE  \E g : DecodeTurns(g, table, data, n + 1)
<1> DEFINE T(x, k) == DecodeNext(data, x)
           z == [ok |-> TRUE, pos |-> 1, headers |-> <<>>, table |-> table]
           g == [k \in 0..n + 1 |-> IF k = 0 THEN z ELSE T(f[k - 1], k)]
<1>1. f = [k \in 0..n |-> IF k = 0 THEN z ELSE T(f[k - 1], k)]
  BY DEF DecodeTurns
<1> HIDE DEF T, z
<1>2. \A k \in 0..n : g[k] = f[k]
  BY <1>1
<1>3. \A k \in 0..n + 1 : k # 0 => k - 1 \in 0..n
  OBVIOUS
<1>4. g = [k \in 0..n + 1 |-> IF k = 0 THEN z ELSE T(g[k - 1], k)]
  BY <1>2, <1>3
<1> HIDE DEF g
<1> QED
  BY <1>4 DEF DecodeTurns, T, z

LEMMA DecodeTurnsExist ==
  ASSUME NEW table, NEW data, Len(data) \in Nat
  PROVE  \E f : DecodeTurns(f, table, data, Len(data)) /\ decode(table, data) = f[Len(data)]
<1> DEFINE n == Len(data)
           S == {m \in Nat : \E f : DecodeTurns(f, table, data, m)}
<1>1. 0 \in S
  <2>1. DecodeTurns([k \in 0..0 |-> [ok |-> TRUE, pos |-> 1, headers |-> <<>>, table |-> table]], table, data, 0)
    BY DEF DecodeTurns
  <2> QED
    BY <2>1
<1>2. \A m \in Nat : m \in S => m + 1 \in S
  BY DecodeTurnsStep
<1>3. S \subseteq Nat /\ n \in Nat
  OBVIOUS
<1> HIDE DEF S
<1>4. n \in S
  BY <1>1, <1>2, <1>3, CountUp
<1>5. DecodeTurns(CHOOSE f : DecodeTurns(f, table, data, n), table, data, n)
  BY <1>4 DEF S
<1>6. decode(table, data) = (CHOOSE f : DecodeTurns(f, table, data, n))[n]
  BY DEF decode, DecodeTurns
<1> QED
  BY <1>5, <1>6

(* Those of our encoder over a header list. *)
EncodeTurns(f, table, headers, n) ==
    f = [k \in 0..n |->
            IF k = 0 THEN [table |-> table, block |-> <<>>] ELSE EncodeNext(f[k - 1], headers[k])]

LEMMA EncodeTurnsStep ==
  ASSUME NEW table, NEW headers, NEW n \in Nat, NEW f, EncodeTurns(f, table, headers, n)
  PROVE  \E g : EncodeTurns(g, table, headers, n + 1)
<1> DEFINE T(x, k) == EncodeNext(x, headers[k])
           z == [table |-> table, block |-> <<>>]
           g == [k \in 0..n + 1 |-> IF k = 0 THEN z ELSE T(f[k - 1], k)]
<1>1. f = [k \in 0..n |-> IF k = 0 THEN z ELSE T(f[k - 1], k)]
  BY DEF EncodeTurns
<1> HIDE DEF T, z
<1>2. \A k \in 0..n : g[k] = f[k]
  BY <1>1
<1>3. \A k \in 0..n + 1 : k # 0 => k - 1 \in 0..n
  OBVIOUS
<1>4. g = [k \in 0..n + 1 |-> IF k = 0 THEN z ELSE T(g[k - 1], k)]
  BY <1>2, <1>3
<1> HIDE DEF g
<1> QED
  BY <1>4 DEF EncodeTurns, T, z

LEMMA EncodeTurnsExist ==
  ASSUME NEW table, NEW headers, Len(headers) \in Nat
  PROVE  \E f : EncodeTurns(f, table, headers, Len(headers)) /\ encode(table, headers) = f[Len(headers)]
<1> DEFINE n == Len(headers)
           S == {m \in Nat : \E f : EncodeTurns(f, table, headers, m)}
<1>1. 0 \in S
  <2>1. EncodeTurns([k \in 0..0 |-> [table |-> table, block |-> <<>>]], table, headers, 0)
    BY DEF EncodeTurns
  <2> QED
    BY <2>1
<1>2. \A m \in Nat : m \in S => m + 1 \in S
  BY EncodeTurnsStep
<1>3. S \subseteq Nat /\ n \in Nat
  OBVIOUS
<1> HIDE DEF S
<1>4. n \in S
  BY <1>1, <1>2, <1>3, CountUp
<1>5. EncodeTurns(CHOOSE f : EncodeTurns(f, table, headers, n), table, headers, n)
  BY <1>4 DEF S
<1>6. encode(table, headers) = (CHOOSE f : EncodeTurns(f, table, headers, n))[n]
  BY DEF encode, EncodeTurns
<1> QED
  BY <1>5, <1>6

(* What the peer's encoder may have written after some fields. *)
Parts(f, starts, list, n) ==
    f = [k \in 0..n |->
            IF k = 0 THEN starts ELSE UNION {Extensions(part, list[k]) : part \in f[k - 1]}]

LEMMA PartsStep ==
  ASSUME NEW starts, NEW list, NEW n \in Nat, NEW f, Parts(f, starts, list, n)
  PROVE  \E g : Parts(g, starts, list, n + 1)
<1> DEFINE T(x, k) == UNION {Extensions(part, list[k]) : part \in x}
           z == starts
           g == [k \in 0..n + 1 |-> IF k = 0 THEN z ELSE T(f[k - 1], k)]
<1>1. f = [k \in 0..n |-> IF k = 0 THEN z ELSE T(f[k - 1], k)]
  BY DEF Parts
<1> HIDE DEF T, z
<1>2. \A k \in 0..n : g[k] = f[k]
  BY <1>1
<1>3. \A k \in 0..n + 1 : k # 0 => k - 1 \in 0..n
  OBVIOUS
<1>4. g = [k \in 0..n + 1 |-> IF k = 0 THEN z ELSE T(g[k - 1], k)]
  BY <1>2, <1>3
<1> HIDE DEF g
<1> QED
  BY <1>4 DEF Parts, T, z

LEMMA PartsExist ==
  ASSUME NEW starts, NEW list, Len(list) \in Nat
  PROVE  \E f : Parts(f, starts, list, Len(list)) /\ PeerEncode(starts, list) = f[Len(list)]
<1> DEFINE n == Len(list)
           S == {m \in Nat : \E f : Parts(f, starts, list, m)}
<1>1. 0 \in S
  <2>1. Parts([k \in 0..0 |-> starts], starts, list, 0)
    BY DEF Parts
  <2> QED
    BY <2>1
<1>2. \A m \in Nat : m \in S => m + 1 \in S
  BY PartsStep
<1>3. S \subseteq Nat /\ n \in Nat
  OBVIOUS
<1> HIDE DEF S
<1>4. n \in S
  BY <1>1, <1>2, <1>3, CountUp
<1>5. Parts(CHOOSE f : Parts(f, starts, list, n), starts, list, n)
  BY <1>4 DEF S
<1>6. PeerEncode(starts, list) = (CHOOSE f : Parts(f, starts, list, n))[n]
  BY DEF PeerEncode, Parts
<1> QED
  BY <1>5, <1>6

(* Nothing happens after a refusal, or after the last field. *)
LEMMA PeerStays ==
  ASSUME NEW f, NEW table, NEW block, NEW n \in Nat, PeerTurns(f, table, block, n),
         NEW m \in 0..n, PeerNext(block, f[m]) = f[m]
  PROVE  f[n] = f[m]
<1> DEFINE S == {j \in 0..n - m : f[m + j] = f[m]}
<1>1. S \subseteq Nat /\ 0 \in S /\ n - m \in Nat /\ m + (n - m) = n
  OBVIOUS
<1>2. ASSUME NEW j \in Nat, j \in S, j < n - m
      PROVE  j + 1 \in S
  <2>1. m + (j + 1) \in 0..n /\ m + (j + 1) # 0 /\ (m + (j + 1)) - 1 = m + j /\ j + 1 \in 0..n - m
    BY <1>2
  <2>2. f[m + (j + 1)] = PeerNext(block, f[m + j])
    BY <2>1 DEF PeerTurns
  <2> QED
    BY <1>2, <2>1, <2>2
<1> HIDE DEF S
<1>3. n - m \in S
  BY <1>1, <1>2, CountUp
<1> QED
  BY <1>1, <1>3 DEF S

LEMMA DecodeStays ==
  ASSUME NEW f, NEW table, NEW data, NEW n \in Nat, DecodeTurns(f, table, data, n),
         NEW m \in 0..n, DecodeNext(data, f[m]) = f[m]
  PROVE  f[n] = f[m]
<1> DEFINE S == {j \in 0..n - m : f[m + j] = f[m]}
<1>1. S \subseteq Nat /\ 0 \in S /\ n - m \in Nat /\ m + (n - m) = n
  OBVIOUS
<1>2. ASSUME NEW j \in Nat, j \in S, j < n - m
      PROVE  j + 1 \in S
  <2>1. m + (j + 1) \in 0..n /\ m + (j + 1) # 0 /\ (m + (j + 1)) - 1 = m + j /\ j + 1 \in 0..n - m
    BY <1>2
  <2>2. f[m + (j + 1)] = DecodeNext(data, f[m + j])
    BY <2>1 DEF DecodeTurns
  <2> QED
    BY <1>2, <2>1, <2>2
<1> HIDE DEF S
<1>3. n - m \in S
  BY <1>1, <1>2, CountUp
<1> QED
  BY <1>1, <1>3 DEF S

-----------------------------------------------------------------------------
(* A request on its way *)

(* What the encoder has written after k fields. *)
LEMMA EncodedSoFar ==
  ASSUME NEW t \in SoundTables, NEW headers \in Seq(Fields), NEW f,
         EncodeTurns(f, t, headers, Len(headers)), NEW k \in 0..Len(headers)
  PROVE  /\ f[k].table \in SoundTables /\ f[k].table.max_size = t.max_size
         /\ f[k].block \in Seq(Tokens)
<1> DEFINE n == Len(headers)
           Typed(s) == /\ s.table \in SoundTables /\ s.table.max_size = t.max_size
                       /\ s.block \in Seq(Tokens)
           S == {j \in 0..n : Typed(f[j])}
<1>1. n \in Nat
  BY LenProperties
<1>2. 0 \in S
  <2>1. f[0] = [table |-> t, block |-> <<>>]
    BY <1>1 DEF EncodeTurns
  <2>2. Typed(f[0])
    BY <2>1
  <2> QED
    BY <1>1, <2>2
<1>3. ASSUME NEW j \in Nat, j \in S, j < k
      PROVE  j + 1 \in S
  <2>1. j + 1 \in 0..n /\ j + 1 # 0 /\ (j + 1) - 1 = j /\ j + 1 \in 1..n
    BY <1>1, <1>3
  <2>2. f[j + 1] = EncodeNext(f[j], headers[j + 1])
    BY <2>1 DEF EncodeTurns
  <2>3. PICK x : x = headers[j + 1]
    OBVIOUS
  <2>4. x \in Fields
    BY <2>1, <2>3, ElementOfSeq
  <2>5. PICK e : e = EncodeField(f[j].table, x)
    OBVIOUS
  <2>6. e.block \in Seq(Tokens) /\ e.table \in SoundTables /\ e.table.max_size = t.max_size
    BY <1>3, <2>4, <2>5, EncodeFieldTyped
  <2>7. f[j + 1] = [table |-> e.table, block |-> f[j].block \o e.block]
    BY <2>2, <2>3, <2>5 DEF EncodeNext
  <2>8. f[j].block \o e.block \in Seq(Tokens)
    BY <1>3, <2>6, ConcatProperties
  <2>9. Typed(f[j + 1])
    BY <2>6, <2>7, <2>8
  <2> QED
    BY <2>1, <2>9
<1>4. S \subseteq Nat /\ k \in Nat
  BY <1>1
<1> HIDE DEF S
<1>5. k \in S
  BY <1>2, <1>3, <1>4, CountUp
<1> QED
  BY <1>5 DEF S

(* The first k + 1 elements. *)
LEMMA FirstAppend ==
  ASSUME NEW S, NEW s \in Seq(S), NEW k \in Nat, k + 1 <= Len(s)
  PROVE  First(s, k + 1) = Append(First(s, k), s[k + 1])
<1>1. Len(s) \in Nat /\ k \in 0..Len(s) /\ k + 1 \in 0..Len(s) /\ k + 1 \in 1..Len(s)
  BY LenProperties
<1> DEFINE a == First(s, k)
           b == First(s, k + 1)
           c == Append(a, s[k + 1])
<1>2. a \in Seq(S) /\ Len(a) = k /\ \A i \in 1..k : a[i] = s[i]
  BY <1>1, FirstIs
<1>3. b \in Seq(S) /\ Len(b) = k + 1 /\ \A i \in 1..k + 1 : b[i] = s[i]
  BY <1>1, FirstIs
<1>4. s[k + 1] \in S
  BY <1>1, ElementOfSeq
<1> HIDE DEF a, b
<1>5. c \in Seq(S) /\ Len(c) = Len(a) + 1 /\ (\A i \in 1..Len(a) : c[i] = a[i]) /\ c[Len(a) + 1] = s[k + 1]
  <2>1. c \in Seq(S)
    BY <1>2, <1>4, AppendProperties
  <2>2. Len(c) = Len(a) + 1
    BY <1>2, <1>4, AppendProperties
  <2>3. \A i \in 1..Len(a) : c[i] = a[i]
    BY <1>2, <1>4, AppendProperties
  <2>4. c[Len(a) + 1] = s[k + 1]
    BY <1>2, <1>4, AppendProperties
  <2> QED
    BY <2>1, <2>2, <2>3, <2>4
<1> HIDE DEF c
<1>6. Len(c) = Len(b) /\ Len(c) = k + 1
  BY <1>2, <1>3, <1>5
<1>7. \A i \in 1..Len(b) : b[i] = c[i]
  <2>1. \A i \in 1..Len(b) : i \in 1..k + 1 /\ (i \in 1..k \/ i = k + 1)
    BY <1>3
  <2> QED
    BY <1>2, <1>3, <1>5, <2>1
<1>8. b = c
  BY <1>3, <1>5, <1>6, <1>7, SeqEqual
<1> QED
  BY <1>8 DEF a, b, c

LEMMA PeerGoesOn ==
  ASSUME NEW t \in SoundTables, NEW x \in Fields, NEW y, y = EncodeField(t, x),
         NEW block \in Seq(Tokens), NEW data, At(data, 1, block \o y.block),
         NEW g, NEW p, PeerTurns(g, p, data, Len(data)),
         NEW m \in Nat, m <= Len(block), NEW h, PeerHas(g[m], 1 + Len(block), h, t)
  PROVE  /\ m + 1 \in 0..Len(data) /\ m + 1 <= Len(block \o y.block)
         /\ \/ PeerHas(g[m + 1], 1 + Len(block \o y.block), Append(h, x), y.table)
            \/ PeerGaveUp(g[m + 1], t.max_size)
<1>1. y.block \in Seq(Tokens) /\ Len(y.block) \in Nat \ {0} /\ Len(block) \in Nat
  BY EncodeFieldTyped, LenProperties
<1>2. PICK b : b = y.block
  OBVIOUS
<1>3. b \in Seq(Tokens) /\ Len(b) \in Nat \ {0} /\ At(data, 1, block \o b)
  BY <1>1, <1>2
<1>4. At(data, 1, block) /\ At(data, 1 + Len(block), b) /\ 1 + Len(block \o b) = (1 + Len(block)) + Len(b)
  BY <1>3, AtParts
<1>5. Len(data) \in Nat /\ 1 + Len(block \o b) <= Len(data) + 1
  BY <1>3 DEF At
<1>6. Len(block \o b) = Len(block) + Len(b)
  BY <1>3, ConcatProperties
<1>7. m + 1 \in 0..Len(data) /\ m + 1 <= Len(block \o b) /\ m + 1 # 0 /\ (m + 1) - 1 = m
  BY <1>1, <1>3, <1>5, <1>6
<1>8. g[m + 1] = PeerNext(data, g[m])
  BY <1>7 DEF PeerTurns
<1>9. PICK pos : pos = 1 + Len(block)
  OBVIOUS
<1>10. At(data, pos, y.block) /\ PeerHas(g[m], pos, h, t)
  BY <1>2, <1>4, <1>9
<1>11. \/ PeerHas(PeerNext(data, g[m]), pos + Len(y.block), Append(h, x), y.table)
       \/ PeerGaveUp(PeerNext(data, g[m]), t.max_size)
  BY <1>10, PeerTakes
<1> QED
  BY <1>2, <1>4, <1>7, <1>8, <1>9, <1>11

(* A turn of the peer's decoder in which the first k fields are dealt with. *)
PeerAfter(g, m, part, h, max) ==
    /\ m \in Nat /\ m <= Len(part.block)
    /\ \/ PeerHas(g[m], 1 + Len(part.block), h, part.table)
       \/ PeerGaveUp(g[m], max)

LEMMA PeerKeepsUp ==
  ASSUME NEW t \in SoundTables, NEW headers \in Seq(Fields), NEW f,
         EncodeTurns(f, t, headers, Len(headers)), NEW data, NEW g, NEW p \in PeerTables,
         Follows(p, t), PeerTurns(g, p, data, Len(data)), NEW k \in 0..Len(headers),
         At(data, 1, f[k].block)
  PROVE  \E m : PeerAfter(g, m, f[k], First(headers, k), t.max_size)
<1> DEFINE n == Len(headers)
           Good(j) == At(data, 1, f[j].block) =>
                        \E m : PeerAfter(g, m, f[j], First(headers, j), t.max_size)
           S == {j \in 0..n : Good(j)}
<1>1. n \in Nat /\ Len(data) \in Nat
  BY LenProperties DEF At
<1>2. 0 \in S
  <2>1. f[0] = [table |-> t, block |-> <<>>] /\ First(headers, 0) = <<>>
    BY <1>1, FirstWhole DEF EncodeTurns
  <2>2. g[0] = Decoded(1, <<>>, p)
    BY <1>1 DEF PeerTurns, Decoded
  <2>3. PeerHas(g[0], 1, <<>>, t)
    BY <2>2 DEF PeerHas
  <2>4. f[0].table = t /\ Len(f[0].block) = 0 /\ 1 + Len(f[0].block) = 1
    BY <2>1
  <2>5. PeerAfter(g, 0, f[0], First(headers, 0), t.max_size)
    BY <2>1, <2>3, <2>4 DEF PeerAfter
  <2> QED
    BY <1>1, <2>5
<1>3. ASSUME NEW j \in Nat, j \in S, j < k
      PROVE  j + 1 \in S
  <2>1. /\ j + 1 \in 0..n /\ j + 1 # 0 /\ (j + 1) - 1 = j /\ j + 1 \in 1..n
        /\ j \in 0..n /\ j + 1 <= n
    BY <1>1, <1>3
  <2>2. SUFFICES ASSUME At(data, 1, f[j + 1].block)
                 PROVE  \E m : PeerAfter(g, m, f[j + 1], First(headers, j + 1), t.max_size)
    BY <2>1
  <2>3. PICK x : x = headers[j + 1]
    OBVIOUS
  <2>4. x \in Fields
    BY <2>1, <2>3, ElementOfSeq
  <2>5. PICK part : part = f[j]
    OBVIOUS
  <2>6. part.table \in SoundTables /\ part.table.max_size = t.max_size /\ part.block \in Seq(Tokens)
    BY <2>1, <2>5, EncodedSoFar
  <2>7. PICK y : y = EncodeField(part.table, x)
    OBVIOUS
  <2>8. PICK next : next = f[j + 1]
    OBVIOUS
  <2>9. PICK c : c = part.block \o y.block
    OBVIOUS
  <2>10. next.table = y.table /\ next.block = c
    <3>1. f[j + 1] = EncodeNext(f[j], headers[j + 1])
      BY <2>1 DEF EncodeTurns
    <3>2. next = EncodeNext(part, x)
      BY <2>3, <2>5, <2>8, <3>1
    <3>3. next = [table |-> y.table, block |-> c]
      BY <2>7, <2>9, <3>2 DEF EncodeNext
    <3> QED
      BY <3>3
  <2>11. At(data, 1, part.block \o y.block)
    BY <2>2, <2>8, <2>9, <2>10
  <2>12. y.block \in Seq(Tokens)
    BY <2>4, <2>6, <2>7, EncodeFieldTyped
  <2>13. At(data, 1, part.block)
    BY <2>6, <2>11, <2>12, AtParts
  <2>14. PICK m : PeerAfter(g, m, part, First(headers, j), t.max_size)
    BY <1>3, <2>5, <2>13
  <2>15. PICK h : h = First(headers, j)
    OBVIOUS
  <2>16. First(headers, j + 1) = Append(h, x)
    BY <1>3, <2>1, <2>3, <2>15, FirstAppend
  <2>17. Len(next.block) \in Nat /\ Len(part.block) \in Nat /\ Len(part.block) <= Len(next.block)
    <3>1. PICK b : b = y.block
      OBVIOUS
    <3>2. PICK a : a = part.block
      OBVIOUS
    <3>3. a \in Seq(Tokens) /\ b \in Seq(Tokens) /\ c = a \o b
      BY <2>6, <2>9, <2>12, <3>1, <3>2
    <3>4. Len(c) = Len(a) + Len(b) /\ Len(a) \in Nat /\ Len(b) \in Nat
      BY <3>3, ConcatProperties, LenProperties
    <3>5. Len(c) \in Nat /\ Len(a) <= Len(c)
      BY <3>4
    <3> QED
      BY <2>10, <3>2, <3>4, <3>5
  <2>18. CASE PeerGaveUp(g[m], t.max_size)
    <3>1. m \in Nat /\ m <= Len(next.block)
      BY <2>14, <2>17 DEF PeerAfter
    <3>2. PeerAfter(g, m, next, First(headers, j + 1), t.max_size)
      BY <2>18, <3>1 DEF PeerAfter
    <3> QED
      BY <2>8, <3>2
  <2>19. CASE PeerHas(g[m], 1 + Len(part.block), h, part.table)
    <3>1. m \in Nat /\ m <= Len(part.block)
      BY <2>14 DEF PeerAfter
    <3>2. /\ m + 1 \in 0..Len(data) /\ m + 1 <= Len(part.block \o y.block)
          /\ \/ PeerHas(g[m + 1], 1 + Len(part.block \o y.block), Append(h, x), y.table)
             \/ PeerGaveUp(g[m + 1], part.table.max_size)
      BY <2>4, <2>6, <2>7, <2>11, <2>19, <3>1, PeerGoesOn
    <3>3. m + 1 \in Nat
      BY <3>1
    <3>4. PeerAfter(g, m + 1, next, Append(h, x), t.max_size)
      BY <2>6, <2>9, <2>10, <3>2, <3>3 DEF PeerAfter
    <3> QED
      BY <2>8, <2>16, <3>4
  <2> QED
    BY <2>14, <2>15, <2>18, <2>19 DEF PeerAfter
<1>4. S \subseteq Nat /\ k \in Nat
  BY <1>1
<1> HIDE DEF S
<1>5. k \in S
  BY <1>2, <1>3, <1>4, CountUp
<1> QED
  BY <1>5 DEF S

PeerGot(d, h, t) ==
    \E p \in PeerTables : d.ok = TRUE /\ d.headers = h /\ d.table = p /\ Follows(p, t)

(* The server has the request, and its table follows the encoder's; or it    *)
(* has refused it, with a smaller table that has overflowed.                 *)
LEMMA RequestRead ==
  ASSUME NEW t \in SoundTables, NEW headers \in Seq(Fields), NEW p \in PeerTables, Follows(p, t),
         NEW e, e = encode(t, headers), NEW d, d = PeerDecode(p, e.block)
  PROVE  PeerGot(d, headers, e.table) \/ PeerGaveUp(d, t.max_size)
<1> DEFINE n == Len(headers)
<1>1. n \in Nat /\ n \in 0..n
  BY LenProperties
<1>2. PICK f : EncodeTurns(f, t, headers, n) /\ encode(t, headers) = f[n]
  BY <1>1, EncodeTurnsExist
<1>3. e = f[n]
  BY <1>2
<1>4. e.block \in Seq(Tokens)
  BY <1>1, <1>2, <1>3, EncodedSoFar
<1>5. PICK data : data = e.block
  OBVIOUS
<1>6. data \in Seq(Tokens) /\ Len(data) \in Nat
  BY <1>4, <1>5, LenProperties
<1>7. PICK g : PeerTurns(g, p, data, Len(data)) /\ PeerDecode(p, data) = g[Len(data)]
  BY <1>6, PeerTurnsExist
<1>8. At(data, 1, data)
  BY <1>6 DEF At
<1>9. PICK m : PeerAfter(g, m, e, First(headers, n), t.max_size)
  <2>1. At(data, 1, f[n].block)
    BY <1>3, <1>5, <1>8
  <2>2. \E m : PeerAfter(g, m, f[n], First(headers, n), t.max_size)
    BY <1>1, <1>2, <1>7, <2>1, PeerKeepsUp
  <2> QED
    BY <1>3, <2>2
<1>10. First(headers, n) = headers
  BY FirstWhole
<1>11. m \in 0..Len(data)
  BY <1>5, <1>6, <1>9 DEF PeerAfter
<1>12. PeerHas(g[m], 1 + Len(data), headers, e.table) \/ PeerGaveUp(g[m], t.max_size)
  BY <1>5, <1>9, <1>10 DEF PeerAfter
<1>13. PeerNext(data, g[m]) = g[m]
  <2>1. CASE PeerHas(g[m], 1 + Len(data), headers, e.table)
    <3>1. g[m].pos = 1 + Len(data)
      BY <2>1 DEF PeerHas, Decoded
    <3>2. ~(g[m].pos <= Len(data))
      BY <1>6, <3>1
    <3> QED
      BY <3>2 DEF PeerNext
  <2>2. CASE PeerGaveUp(g[m], t.max_size)
    BY <2>2 DEF PeerGaveUp, PeerNext
  <2> QED
    BY <1>12, <2>1, <2>2
<1>14. d = g[m]
  <2>1. g[Len(data)] = g[m]
    BY <1>6, <1>7, <1>11, <1>13, PeerStays
  <2> QED
    BY <1>5, <1>7, <2>1
<1>15. CASE PeerHas(d, 1 + Len(data), headers, e.table)
  <2>1. PICK q \in PeerTables : d = Decoded(1 + Len(data), headers, q) /\ Follows(q, e.table)
    BY <1>15 DEF PeerHas
  <2>2. d.ok = TRUE /\ d.headers = headers /\ d.table = q
    BY <2>1 DEF Decoded
  <2> QED
    BY <2>1, <2>2 DEF PeerGot
<1> QED
  BY <1>12, <1>14, <1>15

-----------------------------------------------------------------------------
(* A response on its way *)

(* What the peer's encoder has written so far, in a table of allowed size. *)
IsPart(part) ==
    part.table \in PeerTables /\ part.table.max <= TableSize /\ part.block \in Seq(Tokens)

LEMMA PeerSmall ==
  ASSUME NEW p \in PeerTables, p.max <= TableSize
  PROVE  Small(p.entries)
<1>1. p.entries \in Seq(Fields) /\ p.max \in Nat /\ SizeOf(p.entries) <= p.max
  BY PeerTableFields
<1>2. SizeOf(p.entries) \in Nat
  BY <1>1, SizeTyped
<1>3. TableSize \in Nat /\ TableSize <= MostOctets
  BY Limits, Bounds
<1>4. SizeOf(p.entries) <= MostOctets
  BY <1>1, <1>2, <1>3, Bounds
<1> QED
  BY <1>1, <1>4 DEF Small

LEMMA PartsTyped ==
  ASSUME NEW start, IsPart(start), NEW list \in Seq(Fields), NEW f,
         Parts(f, {start}, list, Len(list)), NEW k \in 0..Len(list), NEW part \in f[k]
  PROVE  IsPart(part)
<1> DEFINE n == Len(list)
           S == {j \in 0..n : \A x \in f[j] : IsPart(x)}
<1>1. n \in Nat
  BY LenProperties
<1>2. 0 \in S
  <2>1. f[0] = {start}
    BY <1>1 DEF Parts
  <2> QED
    BY <1>1, <2>1
<1>3. ASSUME NEW j \in Nat, j \in S, j < k
      PROVE  j + 1 \in S
  <2>1. j + 1 \in 0..n /\ j + 1 # 0 /\ (j + 1) - 1 = j /\ j + 1 \in 1..n
    BY <1>1, <1>3
  <2>2. f[j + 1] = UNION {Extensions(x, list[j + 1]) : x \in f[j]}
    BY <2>1 DEF Parts
  <2>3. PICK field : field = list[j + 1]
    OBVIOUS
  <2>4. field \in Fields
    BY <2>1, <2>3, ElementOfSeq
  <2>5. ASSUME NEW y \in f[j + 1]
        PROVE  IsPart(y)
    <3>1. PICK x \in f[j] : y \in Extensions(x, field)
      BY <2>2, <2>3, <2>5
    <3>2. IsPart(x)
      BY <1>3, <3>1
    <3>3. PICK e \in Encodings(x.table, field) : y = [table |-> e.table, block |-> x.block \o e.block]
      BY <3>1 DEF Extensions
    <3>4. x.table \in PeerTables /\ Small(x.table.entries) /\ x.block \in Seq(Tokens) /\ x.table.max <= TableSize
      BY <3>2, PeerSmall DEF IsPart
    <3>5. e.block \in Seq(Tokens) /\ e.table \in PeerTables /\ e.table.max = x.table.max
      BY <2>4, <3>4, EncodingTyped
    <3>6. PICK c : c = x.block \o e.block
      OBVIOUS
    <3>7. c \in Seq(Tokens)
      BY <3>4, <3>5, <3>6, ConcatProperties
    <3>8. y.table = e.table /\ y.block = c
      BY <3>3, <3>6
    <3> QED
      BY <3>4, <3>5, <3>7, <3>8 DEF IsPart
  <2> QED
    BY <2>1, <2>5
<1>4. S \subseteq Nat /\ k \in Nat
  BY <1>1
<1> HIDE DEF S
<1>5. k \in S
  BY <1>2, <1>3, <1>4, CountUp
<1> QED
  BY <1>5 DEF S

(* A turn of our decoder in which the fields so far are dealt with. *)
After(g, m, part, h, sure) ==
    /\ m \in Nat /\ m <= Len(part.block)
    /\ \/ Has(g[m], 1 + Len(part.block), h, part.table, sure)
       \/ ~sure /\ ~g[m].ok

LEMMA GoesOn ==
  ASSUME NEW x, IsPart(x), NEW field \in Fields, NEW y \in Extensions(x, field),
         NEW data, At(data, 1, y.block), NEW g, NEW d, DecodeTurns(g, d, data, Len(data)),
         NEW h, NEW sure, At(data, 1, x.block) => \E m : After(g, m, x, h, sure)
  PROVE  \E m : After(g, m, y, Append(h, field), sure)
<1>1. PICK e \in Encodings(x.table, field) : y = [table |-> e.table, block |-> x.block \o e.block]
  BY DEF Extensions
<1>2. PICK p : p = x.table
  OBVIOUS
<1>3. p \in PeerTables /\ Small(p.entries) /\ p.max <= TableSize
  BY <1>2, PeerSmall DEF IsPart
<1>4. e \in Encodings(p, field)
  BY <1>1, <1>2
<1>5. e.block \in Seq(Tokens) /\ Len(e.block) \in Nat \ {0}
  BY <1>3, <1>4, EncodingTyped
<1>6. PICK a : a = x.block
  OBVIOUS
<1>7. PICK b : b = e.block
  OBVIOUS
<1>8. PICK c : c = a \o b
  OBVIOUS
<1>9. y.table = e.table /\ y.block = c
  BY <1>1, <1>6, <1>7, <1>8
<1>10. a \in Seq(Tokens) /\ b \in Seq(Tokens) /\ Len(b) \in Nat \ {0}
  BY <1>5, <1>6, <1>7 DEF IsPart
<1>11. Len(c) = Len(a) + Len(b) /\ Len(a) \in Nat
  BY <1>8, <1>10, ConcatProperties, LenProperties
<1>12. At(data, 1, a \o b)
  BY <1>8, <1>9
<1>13. At(data, 1, a) /\ At(data, 1 + Len(a), b)
  BY <1>10, <1>12, AtParts
<1>14. PICK m : After(g, m, x, h, sure)
  BY <1>6, <1>13
<1>15. m \in Nat /\ m <= Len(a)
  BY <1>6, <1>14 DEF After
<1>16. Len(data) \in Nat /\ 1 + Len(c) <= Len(data) + 1
  BY <1>9 DEF At
<1>17. CASE ~sure /\ ~g[m].ok
  <2>1. m <= Len(c)
    BY <1>10, <1>11, <1>15
  <2>2. After(g, m, y, Append(h, field), sure)
    BY <1>9, <1>15, <1>17, <2>1 DEF After
  <2> QED
    BY <2>2
<1>18. CASE Has(g[m], 1 + Len(a), h, p, sure)
  <2>1. PICK pos : pos = 1 + Len(a)
    OBVIOUS
  <2>2. m + 1 \in Nat /\ m + 1 \in 0..Len(data) /\ m + 1 # 0 /\ (m + 1) - 1 = m /\ m + 1 <= Len(c)
    BY <1>10, <1>11, <1>15, <1>16
  <2>3. g[m + 1] = DecodeNext(data, g[m])
    BY <2>2 DEF DecodeTurns
  <2>4. At(data, pos, e.block) /\ Has(g[m], pos, h, p, sure)
    BY <1>7, <1>13, <1>18, <2>1
  <2>5. \/ Has(DecodeNext(data, g[m]), pos + Len(e.block), Append(h, field), e.table, sure)
        \/ ~sure /\ ~DecodeNext(data, g[m]).ok
    BY <1>3, <1>4, <2>4, Takes
  <2>6. pos + Len(e.block) = 1 + Len(c)
    <3>1. pos + Len(b) = 1 + Len(c)
      BY <1>10, <1>11, <2>1
    <3> QED
      BY <1>7, <3>1
  <2>7. After(g, m + 1, y, Append(h, field), sure)
    BY <1>9, <2>2, <2>3, <2>5, <2>6 DEF After
  <2> QED
    BY <2>7
<1> QED
  BY <1>2, <1>6, <1>14, <1>17, <1>18 DEF After

LEMMA KeepsUp ==
  ASSUME NEW start, IsPart(start), NEW list \in Seq(Fields), NEW f,
         Parts(f, {start}, list, Len(list)), NEW data, NEW g, NEW d,
         DecodeTurns(g, d, data, Len(data)), NEW sure,
         At(data, 1, start.block) => \E m : After(g, m, start, <<>>, sure),
         NEW k \in 0..Len(list), NEW part \in f[k], At(data, 1, part.block)
  PROVE  \E m : After(g, m, part, First(list, k), sure)
<1> DEFINE n == Len(list)
           Good(x, h) == At(data, 1, x.block) => \E m : After(g, m, x, h, sure)
           S == {j \in 0..n : \A x \in f[j] : Good(x, First(list, j))}
<1>1. n \in Nat
  BY LenProperties
<1>2. 0 \in S
  <2>1. f[0] = {start}
    BY <1>1 DEF Parts
  <2>2. First(list, 0) = <<>>
    BY FirstWhole
  <2> QED
    BY <1>1, <2>1, <2>2
<1>3. ASSUME NEW j \in Nat, j \in S, j < k
      PROVE  j + 1 \in S
  <2>1. j + 1 \in 0..n /\ j + 1 # 0 /\ (j + 1) - 1 = j /\ j + 1 \in 1..n /\ j \in 0..n /\ j + 1 <= n
    BY <1>1, <1>3
  <2>2. f[j + 1] = UNION {Extensions(x, list[j + 1]) : x \in f[j]}
    BY <2>1 DEF Parts
  <2>3. PICK field : field = list[j + 1]
    OBVIOUS
  <2>4. field \in Fields
    BY <2>1, <2>3, ElementOfSeq
  <2>5. PICK h : h = First(list, j)
    OBVIOUS
  <2>6. First(list, j + 1) = Append(h, field)
    BY <1>3, <2>1, <2>3, <2>5, FirstAppend
  <2>7. ASSUME NEW y \in f[j + 1]
        PROVE  Good(y, Append(h, field))
    <3>1. PICK x \in f[j] : y \in Extensions(x, field)
      BY <2>2, <2>3, <2>7
    <3>2. IsPart(x)
      BY <2>1, <3>1, PartsTyped
    <3>3. Good(x, h)
      BY <1>3, <2>5, <3>1
    <3> QED
      BY <2>4, <3>1, <3>2, <3>3, GoesOn
  <2> QED
    BY <2>1, <2>6, <2>7
<1>4. S \subseteq Nat /\ k \in Nat
  BY <1>1
<1> HIDE DEF S
<1>5. k \in S
  BY <1>2, <1>3, <1>4, CountUp
<1> QED
  BY <1>5 DEF S

(* The peer's encoder begins with nothing, or with a size update.           *)
LEMMA StartsPlain ==
  ASSUME NEW p \in PeerTables, p.max <= TableSize, NEW start, start = [table |-> p, block |-> <<>>],
         NEW d \in SoundTables, d.max_size <= TableSize, NEW sure, sure => Covers(d, p),
         NEW data, Len(data) \in Nat, NEW g, DecodeTurns(g, d, data, Len(data))
  PROVE  IsPart(start) /\ After(g, 0, start, <<>>, sure)
<1>1. start.table = p /\ start.block = <<>> /\ Len(start.block) = 0
  OBVIOUS
<1>2. g[0] = Decoded(1, <<>>, d)
  BY DEF DecodeTurns, Decoded
<1>3. <<>> \in Seq(Fields) /\ <<>> \in Seq(Tokens)
  OBVIOUS
<1>4. Has(g[0], 1, <<>>, p, sure)
  BY <1>2, <1>3 DEF Has
<1>5. 1 + Len(start.block) = 1
  BY <1>1
<1> QED
  BY <1>1, <1>3, <1>4, <1>5 DEF IsPart, After

LEMMA UpdateTyped ==
  ASSUME NEW p \in PeerTables, NEW n \in Nat, n <= TableSize
  PROVE  /\ Spells(PeerInt(n, 5, 32), n, Full(5), 32) /\ n \in 0..Largest
         /\ IsPart(SizeUpdate(p, n))
<1>1. TableSize \in Nat /\ TableSize <= Largest
  BY Limits, Bounds
<1>2. n \in 0..Largest
  BY <1>1, Bounds
<1>3. Spells(PeerInt(n, 5, 32), n, Full(5), 32)
  BY <1>2, MarksAre, PeerIntIs
<1>4. PeerInt(n, 5, 32) \in Seq(Tokens)
  BY <1>3, SpellsTyped
<1>5. PICK b : b = PeerInt(n, 5, 32)
  OBVIOUS
<1>6. PICK q : q = Limited(p, p.entries, n)
  OBVIOUS
<1>7. q \in PeerTables /\ q.max = n
  BY <1>6, LimitedIs, PeerTableFields DEF LimitedTo
<1>8. SizeUpdate(p, n) = [table |-> q, block |-> b]
  BY <1>5, <1>6 DEF SizeUpdate
<1>9. IsPart(SizeUpdate(p, n))
  BY <1>4, <1>5, <1>7, <1>8 DEF IsPart
<1> QED
  BY <1>2, <1>3, <1>9

LEMMA StartsResized ==
  ASSUME NEW p \in PeerTables, NEW n \in Nat, n <= TableSize, NEW start, start = SizeUpdate(p, n),
         NEW d \in SoundTables, NEW sure, sure => Covers(d, p),
         NEW data, At(data, 1, start.block), NEW g, DecodeTurns(g, d, data, Len(data))
  PROVE  After(g, 1, start, <<>>, sure)
<1>1. PICK b : b = PeerInt(n, 5, 32)
  OBVIOUS
<1>2. PICK q : q = Limited(p, p.entries, n)
  OBVIOUS
<1>3. start = [table |-> q, block |-> b]
  BY <1>1, <1>2 DEF SizeUpdate
<1>4. start.table = q /\ start.block = b
  BY <1>3
<1>5. Spells(b, n, Full(5), 32) /\ n \in 0..Largest /\ Marks(5, 32)
  BY <1>1, UpdateTyped, MarksAre
<1>6. At(data, 1, b)
  BY <1>4
<1>7. PICK shift : decode_int(data, 1, 5) = Ready(1 + Len(b), n, shift)
  BY <1>5, <1>6, DecodeIntIs
<1>8. Len(b) \in Nat \ {0} /\ b[1].octet \in 32..32 + Full(5)
  BY <1>5, FirstOctet
<1>9. Len(data) \in Nat /\ 1 <= Len(data) /\ data[1] = b[1]
  <2>1. Len(data) \in Nat /\ 1 + Len(b) <= Len(data) + 1 /\ \A i \in 1..Len(b) : data[(1 - 1) + i] = b[i]
    BY <1>6 DEF At
  <2>2. 1 \in 1..Len(b) /\ (1 - 1) + 1 = 1
    BY <1>8
  <2> QED
    BY <1>8, <2>1, <2>2
<1>10. g[1] = DecodeNext(data, Decoded(1, <<>>, d))
  <2>1. g[0] = Decoded(1, <<>>, d)
    BY <1>9 DEF DecodeTurns, Decoded
  <2>2. 1 \in 0..Len(data) /\ 1 # 0 /\ 1 - 1 = 0
    BY <1>9
  <2> QED
    BY <2>1, <2>2 DEF DecodeTurns
<1>11. PICK s : s = Decoded(1, <<>>, d)
  OBVIOUS
<1>12. s.ok = TRUE /\ s.pos = 1 /\ s.headers = <<>> /\ s.table = d
  BY <1>11 DEF Decoded
<1>13. PICK o : o = data[1].octet
  OBVIOUS
<1>14. o \in 32..63 /\ ~(o >= 128) /\ o \notin 64..127
  <2>1. o \in 32..32 + Full(5) /\ Full(5) = 31
    BY <1>8, <1>9, <1>13 DEF Full
  <2> QED
    BY <2>1
<1>15. g[1] = DecodeSizeUpdate(data, s)
  BY <1>9, <1>10, <1>11, <1>12, <1>13, <1>14 DEF DecodeNext, DecodeField
<1>16. PICK u : u = set_max(d, n)
  OBVIOUS
<1>17. g[1] = Decoded(1 + Len(b), <<>>, u)
  <2>1. PICK int : int = decode_int(data, 1, 5)
    OBVIOUS
  <2>2. int.ok = TRUE /\ int.val = n /\ int.pos = 1 + Len(b)
    BY <1>7, <2>1 DEF Ready
  <2> QED
    BY <1>12, <1>15, <1>16, <2>1, <2>2 DEF DecodeSizeUpdate, Decoded
<1>18. n <= MAX_TABLE_SIZE_CAP
  BY Limits
<1>19. u \in SoundTables /\ u.entries = Kept(d.entries, n) /\ u.max_size = n
  BY <1>16, <1>18, SetMaxIs
<1>20. ASSUME sure
       PROVE  Covers(u, q)
  <2>1. p.entries \in Seq(Fields) /\ d.entries \in Seq(Fields) /\ IsPrefix(p.entries, d.entries)
    BY <1>20, PeerTableFields, SoundFields DEF Covers
  <2>2. q.entries = Kept(p.entries, n) /\ q.max = n
    BY <1>2, <2>1, LimitedIs DEF LimitedTo
  <2>3. IsPrefix(Kept(p.entries, n), Kept(d.entries, n))
    BY <2>1, KeptPrefix
  <2> QED
    BY <1>19, <2>2, <2>3 DEF Covers
<1>21. <<>> \in Seq(Fields)
  OBVIOUS
<1>22. Has(g[1], 1 + Len(b), <<>>, q, sure)
  BY <1>17, <1>19, <1>20, <1>21 DEF Has
<1>23. 1 \in Nat /\ 1 <= Len(b)
  BY <1>8
<1> QED
  BY <1>4, <1>22, <1>23 DEF After

(* What our decoder makes of a block that stands for a list, if the tables  *)
(* agreed and if they did not.                                              *)
Received(r, h, p, sure) ==
    \/ /\ r.ok = TRUE /\ r.table \in SoundTables /\ r.table.max_size <= TableSize
       /\ r.headers \in Seq(Fields)
       /\ sure => r.headers = h /\ Covers(r.table, p)
    \/ ~sure /\ ~r.ok

Starts(p) == {[table |-> p, block |-> <<>>]} \cup {SizeUpdate(p, n) : n \in Updates}

LEMMA UpdateSize ==
  ASSUME NEW n \in Updates
  PROVE  n \in Nat /\ n <= TableSize
<1>1. Updates \subseteq 0..TableSize
  BY ServersAssumption
<1>2. n \in 0..TableSize
  BY Zenon, <1>1
<1> QED
  BY <1>2, Limits

LEMMA StartIs ==
  ASSUME NEW p \in PeerTables, p.max <= TableSize, NEW start \in Starts(p),
         NEW d \in SoundTables, d.max_size <= TableSize, NEW sure, sure => Covers(d, p),
         NEW data, Len(data) \in Nat, NEW g, DecodeTurns(g, d, data, Len(data))
  PROVE  /\ IsPart(start)
         /\ At(data, 1, start.block) => \E m : After(g, m, start, <<>>, sure)
<1>1. CASE start = [table |-> p, block |-> <<>>]
  BY <1>1, StartsPlain
<1>2. CASE \E n \in Updates : start = SizeUpdate(p, n)
  <2>1. PICK n \in Updates : start = SizeUpdate(p, n)
    BY <1>2
  <2>2. n \in Nat /\ n <= TableSize
    BY UpdateSize
  <2>3. IsPart(start)
    BY <2>1, <2>2, UpdateTyped
  <2>4. At(data, 1, start.block) => After(g, 1, start, <<>>, sure)
    BY <2>1, <2>2, StartsResized
  <2> QED
    BY <2>3, <2>4
<1> QED
  BY <1>1, <1>2 DEF Starts

LEMMA ResponseRead ==
  ASSUME NEW p \in PeerTables, p.max <= TableSize, NEW headers \in Seq(Fields),
         NEW start \in Starts(p), NEW e \in PeerEncode({start}, headers),
         NEW d \in SoundTables, d.max_size <= TableSize, NEW sure, sure => Covers(d, p),
         NEW r, r = decode(d, e.block)
  PROVE  IsPart(e) /\ Received(r, headers, e.table, sure)
<1> DEFINE n == Len(headers)
<1>1. n \in Nat /\ n \in 0..n
  BY LenProperties
<1>2. PICK f : Parts(f, {start}, headers, n) /\ PeerEncode({start}, headers) = f[n]
  BY <1>1, PartsExist
<1>3. e \in f[n]
  BY <1>2
<1>4. IsPart(start)
  <2>1. CASE start = [table |-> p, block |-> <<>>]
    <3>1. start.table = p /\ start.block = <<>> /\ <<>> \in Seq(Tokens)
      BY <2>1
    <3> QED
      BY <3>1 DEF IsPart
  <2>2. CASE \E k \in Updates : start = SizeUpdate(p, k)
    BY <2>2, UpdateTyped, UpdateSize
  <2> QED
    BY <2>1, <2>2 DEF Starts
<1>5. IsPart(e)
  BY <1>1, <1>2, <1>3, <1>4, PartsTyped
<1>6. PICK data : data = e.block
  OBVIOUS
<1>7. data \in Seq(Tokens) /\ Len(data) \in Nat
  BY <1>5, <1>6, LenProperties DEF IsPart
<1>8. PICK g : DecodeTurns(g, d, data, Len(data)) /\ decode(d, data) = g[Len(data)]
  BY <1>7, DecodeTurnsExist
<1>9. At(data, 1, e.block)
  BY <1>6, <1>7 DEF At
<1>10. At(data, 1, start.block) => \E m : After(g, m, start, <<>>, sure)
  BY <1>7, <1>8, StartIs
<1>11. PICK m : After(g, m, e, First(headers, n), sure)
  BY <1>1, <1>2, <1>3, <1>4, <1>8, <1>9, <1>10, KeepsUp
<1>12. First(headers, n) = headers
  BY FirstWhole
<1>13. m \in 0..Len(data)
  BY <1>6, <1>7, <1>11 DEF After
<1>14. \/ Has(g[m], 1 + Len(data), headers, e.table, sure)
       \/ ~sure /\ ~g[m].ok
  BY <1>6, <1>11, <1>12 DEF After
<1>15. DecodeNext(data, g[m]) = g[m]
  <2>1. CASE Has(g[m], 1 + Len(data), headers, e.table, sure)
    <3>1. g[m].pos = 1 + Len(data)
      BY <2>1 DEF Has, Decoded
    <3>2. ~(g[m].pos <= Len(data))
      BY <1>7, <3>1
    <3> QED
      BY <3>2 DEF DecodeNext
  <2>2. CASE ~g[m].ok
    BY <2>2 DEF DecodeNext
  <2> QED
    BY <1>14, <2>1, <2>2
<1>16. r = g[m]
  <2>1. g[Len(data)] = g[m]
    BY <1>7, <1>8, <1>13, <1>15, DecodeStays
  <2> QED
    BY <1>6, <1>8, <2>1
<1>17. CASE Has(r, 1 + Len(data), headers, e.table, sure)
  <2>1. PICK d2 \in SoundTables, l \in Seq(Fields) :
           /\ r = Decoded(1 + Len(data), l, d2) /\ d2.max_size <= TableSize
           /\ sure => l = headers /\ Covers(d2, e.table)
    BY <1>17 DEF Has
  <2>2. r.ok = TRUE /\ r.headers = l /\ r.table = d2
    BY <2>1 DEF Decoded
  <2>3. Received(r, headers, e.table, sure)
    BY <2>1, <2>2 DEF Received
  <2> QED
    BY <1>5, <2>3
<1> QED
  BY <1>5, <1>14, <1>16, <1>17 DEF Received

-----------------------------------------------------------------------------
(* Garbage *)

(* A refusal in the first turn is the outcome. *)
LEMMA RefusedAtOnce ==
  ASSUME NEW d, NEW data, Len(data) \in Nat \ {0},
         DecodeField(data, Decoded(1, <<>>, d)).ok = FALSE
  PROVE  decode(d, data).ok = FALSE
<1>1. PICK s : s = Decoded(1, <<>>, d)
  OBVIOUS
<1>2. s.ok = TRUE /\ s.pos = 1
  BY <1>1 DEF Decoded
<1>3. PICK g : DecodeTurns(g, d, data, Len(data)) /\ decode(d, data) = g[Len(data)]
  BY DecodeTurnsExist
<1>4. g[1] = DecodeNext(data, s)
  <2>1. g[0] = s
    BY <1>1, <1>3 DEF DecodeTurns, Decoded
  <2>2. 1 \in 0..Len(data) /\ 1 # 0 /\ 1 - 1 = 0
    OBVIOUS
  <2> QED
    BY <1>3, <2>1, <2>2 DEF DecodeTurns
<1>5. g[1] = DecodeField(data, s)
  <2>1. s.pos <= Len(data)
    BY <1>2
  <2> QED
    BY <1>2, <1>4, <2>1 DEF DecodeNext
<1>6. g[1].ok = FALSE
  BY <1>1, <1>5
<1>7. DecodeNext(data, g[1]) = g[1]
  BY <1>6 DEF DecodeNext
<1>8. 1 \in 0..Len(data) /\ Len(data) \in Nat
  OBVIOUS
<1>9. g[Len(data)] = g[1]
  BY <1>3, <1>7, <1>8, DecodeStays
<1> QED
  BY <1>3, <1>6, <1>9

(* Which representation an octet begins. *)
LEMMA IndexedField ==
  ASSUME NEW data, NEW d, data[1].octet \in 128..255
  PROVE  DecodeField(data, Decoded(1, <<>>, d)) = DecodeIndexed(data, Decoded(1, <<>>, d))
<1>1. PICK o : o = data[1].octet
  OBVIOUS
<1>2. o >= 128 /\ o \notin 64..127 /\ o \notin 32..63
  BY <1>1
<1>3. PICK s : s = Decoded(1, <<>>, d)
  OBVIOUS
<1>4. data[s.pos].octet = o
  BY <1>1, <1>3 DEF Decoded
<1>5. DecodeField(data, s) = DecodeIndexed(data, s)
  BY <1>2, <1>4 DEF DecodeField
<1> QED
  BY <1>3, <1>5

LEMMA UpdateField ==
  ASSUME NEW data, NEW d, data[1].octet \in 32..63
  PROVE  DecodeField(data, Decoded(1, <<>>, d)) = DecodeSizeUpdate(data, Decoded(1, <<>>, d))
<1>1. PICK o : o = data[1].octet
  OBVIOUS
<1>2. ~(o >= 128) /\ o \notin 64..127 /\ o \in 32..63
  BY <1>1
<1> QED
  BY <1>1, <1>2 DEF DecodeField, Decoded

LEMMA LiteralField ==
  ASSUME NEW data, NEW d, data[1].octet \in 64..127
  PROVE  \E w \in BOOLEAN :
            DecodeField(data, Decoded(1, <<>>, d)) = DecodeLiteral(data, Decoded(1, <<>>, d), 6, w)
<1>1. PICK o : o = data[1].octet
  OBVIOUS
<1>2. ~(o >= 128) /\ o \in 64..127 /\ o \notin 32..63
  BY <1>1
<1>3. PICK w \in BOOLEAN : w = TRUE
  OBVIOUS
<1>4. DecodeField(data, Decoded(1, <<>>, d)) = DecodeLiteral(data, Decoded(1, <<>>, d), 6, w)
  BY <1>1, <1>2, <1>3 DEF DecodeField, Decoded
<1> QED
  BY <1>4

LEMMA RefusedIs ==
  ASSUME NEW s
  PROVE  Refused(s).ok = FALSE
BY DEF Refused
LEMMA OneSpells ==
  ASSUME NEW prefix, NEW mask, Marks(prefix, mask), NEW n \in Nat, n < Full(prefix)
  PROVE  n \in 0..Largest /\ Spells(<<Octet(mask + n)>>, n, Full(prefix), mask)
<1>1. Full(prefix) \in Nat /\ Full(prefix) <= 127 /\ 127 <= Largest
  <2>1. Full(7) = 127 /\ Full(6) = 63 /\ Full(5) = 31 /\ Full(4) = 15
    BY DEF Full
  <2>2. 127 <= Largest
    BY SMT DEF Largest
  <2> QED
    BY <2>1, <2>2 DEF Marks
<1>2. n \in 0..Largest
  BY <1>1, Bounds
<1>3. encode_int(n, prefix, mask) = <<Octet(mask + n)>>
  BY DEF encode_int
<1>4. Spells(encode_int(n, prefix, mask), n, Full(prefix), mask)
  BY <1>2, EncodeIntIs
<1> QED
  BY <1>2, <1>3, <1>4

(* An index that is 0, or past the entries. *)
LEMMA IndexRefused ==
  ASSUME NEW d, NEW i \in 0..Largest, ~InTables(d.entries, i),
         NEW b, Spells(b, i, Full(7), 128)
  PROVE  decode(d, b).ok = FALSE
<1>1. b \in Seq(OctetSet)
  BY SpellsTyped
<1>2. Len(b) \in Nat \ {0} /\ b[1].octet \in 128..128 + Full(7)
  BY MarksAre, FirstOctet
<1>3. At(b, 1, b)
  BY <1>2 DEF At
<1>4. PICK shift : decode_int(b, 1, 7) = Ready(1 + Len(b), i, shift)
  BY <1>3, MarksAre, DecodeIntIs
<1>5. DecodeField(b, Decoded(1, <<>>, d)) = DecodeIndexed(b, Decoded(1, <<>>, d))
  <2>1. Full(7) = 127
    BY DEF Full
  <2>2. PICK o : o = b[1].octet
    OBVIOUS
  <2>3. PICK full : full = Full(7)
    OBVIOUS
  <2>4. o \in 128..128 + full
    BY <1>2, <2>2, <2>3
  <2>5. o \in 128..255
    BY <2>1, <2>3, <2>4
  <2> QED
    BY <2>2, <2>5, IndexedField
<1>6. PICK s : s = Decoded(1, <<>>, d)
  OBVIOUS
<1>7. s.pos = 1 /\ s.table = d
  BY <1>6 DEF Decoded
<1>8. PICK int : int = decode_int(b, 1, 7)
  OBVIOUS
<1>9. int.ok = TRUE /\ int.val = i
  BY <1>4, <1>8 DEF Ready
<1>10. ~Indexed(d, i)
  BY IndexedIs
<1>11. DecodeIndexed(b, s) = Refused(s)
  BY <1>7, <1>8, <1>9, <1>10 DEF DecodeIndexed
<1> QED
  BY <1>2, <1>5, <1>6, <1>11, RefusedIs, RefusedAtOnce

(* A number whose octets end too early, or never. *)
Bad(s) == s.ok = FALSE

LEMMA ReadStuck ==
  ASSUME NEW data, NEW s, Bad(s)
  PROVE  ReadMore(data, s) = s
BY DEF ReadMore, Bad

LEMMA ReadPastEnd ==
  ASSUME NEW data, NEW pos, ~(pos <= Len(data)), Len(data) \in Nat, pos \in Nat, NEW val, NEW shift
  PROVE  Bad(ReadMore(data, Going(pos, val, shift)))
<1>1. PICK s : s = Going(pos, val, shift)
  OBVIOUS
<1>2. s.ok = TRUE /\ s.more = TRUE /\ s.pos = pos /\ s = [ok |-> TRUE, pos |-> pos, val |-> val, shift |-> shift, more |-> TRUE]
  BY <1>1 DEF Going
<1>3. pos > Len(data)
  OBVIOUS
<1>4. ReadMore(data, s) = ReadOctet(data, s)
  BY <1>2 DEF ReadMore
<1>5. ReadOctet(data, s) = [s EXCEPT !.ok = FALSE, !.more = FALSE]
  BY <1>2, <1>3 DEF ReadOctet
<1>6. [s EXCEPT !.ok = FALSE, !.more = FALSE].ok = FALSE
  BY <1>2
<1>7. PICK r : r = ReadMore(data, s)
  OBVIOUS
<1>8. r.ok = FALSE
  BY <1>4, <1>5, <1>6, <1>7
<1> QED
  BY <1>1, <1>7, <1>8 DEF Bad

LEMMA ReadTooLong ==
  ASSUME NEW data, NEW pos, pos \in Nat, Len(data) \in Nat, pos <= Len(data),
         data[pos] = Octet(128), NEW val
  PROVE  Bad(ReadMore(data, Going(pos, val, 28)))
<1>1. PICK s : s = Going(pos, val, 28)
  OBVIOUS
<1>2. s.ok = TRUE /\ s.more = TRUE /\ s.pos = pos /\ s.shift = 28
  BY <1>1 DEF Going
<1>3. ~(pos > Len(data))
  OBVIOUS
<1>4. PICK b : b = data[pos].octet
  OBVIOUS
<1>5. b = 128
  BY <1>4 DEF Octet
<1>6. (b < 128 \/ 28 + 7 <= 28) = FALSE
  BY <1>5
<1>7. ReadMore(data, s) = ReadOctet(data, s)
  BY <1>2 DEF ReadMore
<1>8. ReadOctet(data, s).ok = (b < 128 \/ 28 + 7 <= 28)
  BY <1>2, <1>3, <1>4 DEF ReadOctet
<1>9. PICK r : r = ReadMore(data, s)
  OBVIOUS
<1>10. r.ok = FALSE
  BY <1>6, <1>7, <1>8, <1>9
<1> QED
  BY <1>1, <1>9, <1>10 DEF Bad

(* The first octet of a size update whose number goes on. *)
LEMMA StartsLong ==
  ASSUME NEW data, data[1] = Octet(63)
  PROVE  decode_int(data, 1, 5) =
           ReadMore(data, ReadMore(data, ReadMore(data, ReadMore(data,
             ReadMore(data, Going(2, 31, 0))))))
<1>1. data[1].octet % 2^5 = 31 /\ Full(5) = 31
  <2>1. 63 % 2^5 = 31 /\ 2^5 = 32
    OBVIOUS
  <2> QED
    BY <2>1 DEF Octet, Full
<1>2. PICK v, full : v = data[1].octet % 2^5 /\ full = Full(5)
  OBVIOUS
<1>3. (v = full) = TRUE /\ v = 31
  BY <1>1, <1>2
<1>4. PICK s : s = [ok |-> TRUE, pos |-> 1 + 1, val |-> v, shift |-> 0, more |-> v = full]
  OBVIOUS
<1>5. s = Going(2, 31, 0)
  <2>1. PICK w \in BOOLEAN : w = (v = full)
    OBVIOUS
  <2>2. w = TRUE
    BY <1>3, <2>1
  <2>3. s = [ok |-> TRUE, pos |-> 2, val |-> 31, shift |-> 0, more |-> w]
    BY <1>3, <1>4, <2>1
  <2> QED
    BY <2>2, <2>3 DEF Going
<1>6. decode_int(data, 1, 5) =
        ReadMore(data, ReadMore(data, ReadMore(data, ReadMore(data, ReadMore(data, s)))))
  BY <1>2, <1>4 DEF decode_int
<1> QED
  BY <1>5, <1>6

LEMMA UpdateRefused ==
  ASSUME NEW d, NEW data, Len(data) \in Nat \ {0}, data[1] = Octet(63),
         Bad(decode_int(data, 1, 5))
  PROVE  Bad(decode(d, data))
<1>1. PICK s : s = Decoded(1, <<>>, d)
  OBVIOUS
<1>2. s.pos = 1
  BY <1>1 DEF Decoded
<1>3. DecodeSizeUpdate(data, s) = Refused(s)
  <2>1. PICK int : int = decode_int(data, 1, 5)
    OBVIOUS
  <2>2. int.ok = FALSE
    BY <2>1 DEF Bad
  <2> QED
    BY <1>2, <2>1, <2>2 DEF DecodeSizeUpdate
<1>4. data[1].octet \in 32..63
  BY DEF Octet
<1>5. DecodeField(data, s) = DecodeSizeUpdate(data, s)
  BY <1>1, <1>4, UpdateField
<1> QED
  BY <1>1, <1>3, <1>5, RefusedIs, RefusedAtOnce DEF Bad

LEMMA CutOffRefused ==
  ASSUME NEW d, NEW data, data = <<Octet(63)>>
  PROVE  Bad(decode(d, data))
<1>1. Len(data) = 1 /\ data[1] = Octet(63)
  OBVIOUS
<1>2. PICK s : s = ReadMore(data, Going(2, 31, 0))
  OBVIOUS
<1>3. Bad(s)
  <2>1. ~(2 <= Len(data)) /\ Len(data) \in Nat /\ 2 \in Nat
    BY <1>1
  <2> QED
    BY <1>2, <2>1, ReadPastEnd
<1>4. ReadMore(data, s) = s
  BY <1>3, ReadStuck
<1>5. decode_int(data, 1, 5) = s
  BY <1>1, <1>2, <1>4, StartsLong
<1> QED
  BY <1>1, <1>3, <1>5, UpdateRefused

LEMMA LongRefused ==
  ASSUME NEW d, NEW data, Len(data) = 7, data[1] = Octet(63),
         \A i \in 2..6 : data[i] = Octet(128)
  PROVE  Bad(decode(d, data))
<1>1. Octet(128) = Octet(0 + 128)
  OBVIOUS
<1>2. HighAt(data, 2, 0, 0) /\ HighAt(data, 3, 0, 7) /\ HighAt(data, 4, 0, 14) /\ HighAt(data, 5, 0, 21)
  <2>1. data[2] = Octet(0 + 128) /\ data[3] = Octet(0 + 128) /\ data[4] = Octet(0 + 128)
        /\ data[5] = Octet(0 + 128)
    BY <1>1
  <2> QED
    BY <2>1 DEF HighAt
<1>3. PICK a : a = Plus(31, 0, 0)
  OBVIOUS
<1>4. PICK b : b = Plus(a, 0, 7)
  OBVIOUS
<1>5. PICK c : c = Plus(b, 0, 14)
  OBVIOUS
<1>6. PICK e : e = Plus(c, 0, 21)
  OBVIOUS
<1>7. ReadMore(data, Going(2, 31, 0)) = Going(3, a, 7)
  <2>1. ReadMore(data, Going(2, 31, 0)) = Going(2 + 1, Plus(31, 0, 0), 0 + 7)
    BY <1>2, ReadOn
  <2> QED
    BY <1>3, <2>1
<1>8. ReadMore(data, Going(3, a, 7)) = Going(4, b, 14)
  <2>1. ReadMore(data, Going(3, a, 7)) = Going(3 + 1, Plus(a, 0, 7), 7 + 7)
    BY <1>2, ReadOn
  <2> QED
    BY <1>4, <2>1
<1>9. ReadMore(data, Going(4, b, 14)) = Going(5, c, 21)
  <2>1. ReadMore(data, Going(4, b, 14)) = Going(4 + 1, Plus(b, 0, 14), 14 + 7)
    BY <1>2, ReadOn
  <2> QED
    BY <1>5, <2>1
<1>10. ReadMore(data, Going(5, c, 21)) = Going(6, e, 28)
  <2>1. ReadMore(data, Going(5, c, 21)) = Going(5 + 1, Plus(c, 0, 21), 21 + 7)
    BY <1>2, ReadOn
  <2> QED
    BY <1>6, <2>1
<1>11. decode_int(data, 1, 5) = ReadMore(data, Going(6, e, 28))
  BY <1>7, <1>8, <1>9, <1>10, StartsLong
<1>12. Bad(ReadMore(data, Going(6, e, 28)))
  <2>1. data[6] = Octet(128) /\ 6 <= Len(data) /\ 6 \in Nat /\ Len(data) \in Nat
    OBVIOUS
  <2> QED
    BY <2>1, ReadTooLong
<1> QED
  BY <1>11, <1>12, UpdateRefused

(* Literals with a string missing, and with one that is not UTF-8. *)
LEMMA LiteralRefused ==
  ASSUME NEW d, NEW data, Len(data) \in Nat \ {0}, data[1].octet \in 64..127, NEW n,
         NEW shift, decode_int(data, 1, 6) = Ready(2, n, shift),
         ~Readable(data, IF n = 0 THEN 2 + 1 ELSE 2)
  PROVE  Bad(decode(d, data))
<1>1. PICK s : s = Decoded(1, <<>>, d)
  OBVIOUS
<1>2. s.pos = 1
  BY <1>1 DEF Decoded
<1>3. PICK int : int = decode_int(data, 1, 6)
  OBVIOUS
<1>4. int.ok = TRUE /\ int.pos = 2 /\ int.val = n
  BY <1>3 DEF Ready
<1>5. PICK w \in BOOLEAN : DecodeField(data, s) = DecodeLiteral(data, s, 6, w)
  BY <1>1, LiteralField
<1>6. DecodeLiteral(data, s, 6, w) = Refused(s)
  BY <1>2, <1>3, <1>4 DEF DecodeLiteral
<1> QED
  BY <1>1, <1>5, <1>6, RefusedIs, RefusedAtOnce DEF Bad

LEMMA NameRefused ==
  ASSUME NEW d, NEW data, data = <<Octet(126)>>
  PROVE  Bad(decode(d, data))
<1>1. Full(6) = 63 /\ 64 + 62 = 126 /\ 62 \in Nat /\ 62 < 63
  BY DEF Full
<1>2. PICK n, b : n = 62 /\ b = data
  OBVIOUS
<1>3. n \in 0..Largest /\ Spells(b, n, Full(6), 64) /\ Marks(6, 64)
  BY <1>1, <1>2, MarksAre, OneSpells
<1>4. At(data, 1, b)
  <2>1. Len(data) = 1 /\ \A i \in 1..1 : (1 - 1) + i = i
    OBVIOUS
  <2> QED
    BY <1>2, <2>1 DEF At
<1>5. PICK shift : decode_int(data, 1, 6) = Ready(1 + Len(b), n, shift)
  BY <1>3, <1>4, DecodeIntIs
<1>6. Len(data) = 1 /\ data[1].octet \in 64..127 /\ 1 + Len(b) = 2
  BY <1>2 DEF Octet
<1>7. ~Readable(data, IF n = 0 THEN 2 + 1 ELSE 2)
  BY <1>2, <1>6 DEF Readable
<1> QED
  BY <1>5, <1>6, <1>7, LiteralRefused

LEMMA TextRefused ==
  ASSUME NEW d, NEW name, NEW data, data = <<Octet(64), Str(name), Str("garbled")>>
  PROVE  Bad(decode(d, data))
<1>1. PICK b : b = <<Octet(64)>>
  OBVIOUS
<1>2. Full(6) = 63 /\ 64 + 0 = 64 /\ 0 \in Nat /\ 0 < 63
  BY DEF Full
<1>3. 0 \in 0..Largest /\ Spells(b, 0, Full(6), 64) /\ Marks(6, 64)
  BY <1>1, <1>2, MarksAre, OneSpells
<1>4. Len(data) = 3 /\ data[1] = Octet(64) /\ data[3] = Str("garbled") /\ Len(b) = 1 /\ b[1] = Octet(64)
  BY <1>1
<1>5. At(data, 1, b)
  <2>1. \A i \in 1..1 : (1 - 1) + i = 1 /\ i = 1
    OBVIOUS
  <2> QED
    BY <1>4, <2>1 DEF At
<1>6. PICK shift : decode_int(data, 1, 6) = Ready(1 + Len(b), 0, shift)
  BY <1>3, <1>5, DecodeIntIs
<1>7. data[1].octet \in 64..127 /\ 1 + Len(b) = 2
  BY <1>4 DEF Octet
<1>8. ~Readable(data, IF 0 = 0 THEN 2 + 1 ELSE 2)
  BY <1>4 DEF Readable
<1> QED
  BY <1>4, <1>6, <1>7, <1>8, LiteralRefused

Long == <<Octet(63)>> \o [i \in 1..5 |-> Octet(128)] \o <<Octet(0)>>

LEMMA LongIs ==
  ASSUME NEW data, data = Long
  PROVE  Len(data) = 7 /\ data[1] = Octet(63) /\ \A i \in 2..6 : data[i] = Octet(128)
<1>1. PICK a : a = <<Octet(63)>>
  OBVIOUS
<1>2. PICK b : b = [i \in 1..5 |-> Octet(128)]
  OBVIOUS
<1>3. PICK c : c = <<Octet(0)>>
  OBVIOUS
<1>4. 63 \in 0..255 /\ 128 \in 0..255 /\ 0 \in 0..255
  OBVIOUS
<1>5. Octet(63) \in OctetSet /\ Octet(128) \in OctetSet
  BY <1>4, OctetIs
<1>6. a \in Seq(OctetSet) /\ Len(a) = 1 /\ a[1] = Octet(63) /\ c \in Seq(OctetSet) /\ Len(c) = 1
  BY <1>1, <1>3, <1>4, OneOctet
<1>7. b \in [1..5 -> OctetSet] /\ \A i \in 1..5 : b[i] = Octet(128)
  BY <1>2, <1>5
<1>8. b \in Seq(OctetSet) /\ Len(b) = 5
  <2>1. PICK k : k = 5
    OBVIOUS
  <2>2. k \in Nat /\ b \in [1..k -> OctetSet]
    BY SMT, <1>7, <2>1
  <2>3. b \in Seq(OctetSet) /\ Len(b) = k
    BY Zenon, <2>2, FunctionIsSeq
  <2> QED
    BY <2>1, <2>3
<1>9. PICK h : h = a \o b
  OBVIOUS
<1>10. h \in Seq(OctetSet) /\ Len(h) = Len(a) + Len(b)
       /\ \A i \in 1..Len(a) + Len(b) : h[i] = IF i <= Len(a) THEN a[i] ELSE b[i - Len(a)]
  BY <1>6, <1>8, <1>9, ConcatProperties
<1>11. Len(h) = 6 /\ h[1] = Octet(63) /\ \A i \in 2..6 : h[i] = Octet(128)
  BY <1>6, <1>7, <1>8, <1>10
<1>12. data = h \o c
  BY <1>1, <1>2, <1>3, <1>9 DEF Long
<1>13. h \in Seq(OctetSet) /\ c \in Seq(OctetSet)
  BY <1>6, <1>10
<1>14. PICK w : w = h \o c
  OBVIOUS
<1>15. Len(w) = Len(h) + Len(c)
  BY <1>13, <1>14, ConcatProperties
<1>16. \A i \in 1..Len(h) + Len(c) : w[i] = IF i <= Len(h) THEN h[i] ELSE c[i - Len(h)]
  BY <1>13, <1>14, ConcatProperties
<1>17. Len(w) = 7
  BY <1>6, <1>11, <1>15
<1>18. \A i \in 1..6 : w[i] = h[i]
  BY <1>6, <1>11, <1>16
<1>19. w[1] = Octet(63) /\ \A i \in 2..6 : w[i] = Octet(128)
  BY <1>11, <1>18
<1> QED
  BY <1>12, <1>14, <1>17, <1>19

(* No table within our limit has an entry at the index of the garbage. *)
LEMMA FarRefused ==
  ASSUME NEW d \in SoundTables, d.max_size <= TableSize, NEW b,
         b = PeerInt(Len(STATIC_TABLE) + TableSize + 1, 7, 128)
  PROVE  Bad(decode(d, b))
<1>1. PICK n : n = 61 + TableSize + 1
  OBVIOUS
<1>2. TableSize \in Nat /\ TableSize <= MostOctets
  BY Limits, Bounds
<1>3. n \in 0..Largest
  BY <1>1, <1>2, Bounds
<1>4. b = PeerInt(n, 7, 128)
  BY <1>1, Statics
<1>5. Spells(b, n, Full(7), 128)
  BY <1>3, <1>4, MarksAre, PeerIntIs
<1>6. ~InTables(d.entries, n)
  <2>1. d.entries \in Seq(Fields) /\ d.size = SizeOf(d.entries) /\ d.size <= d.max_size
        /\ d.max_size \in Nat /\ d.size \in Nat
    BY SoundFields
  <2>2. Len(d.entries) \in Nat /\ Len(d.entries) <= SizeOf(d.entries)
    BY <2>1, LengthFits
  <2>3. Len(d.entries) <= TableSize
    BY <1>2, <2>1, <2>2
  <2>4. ~(n <= 61 + Len(d.entries))
    BY <1>1, <1>2, <2>2, <2>3
  <2> QED
    BY <2>2, <2>4 DEF InTables
<1> QED
  BY <1>3, <1>5, <1>6, IndexRefused DEF Bad

(* Whatever its table, within our limit, the decoder refuses garbage. *)
LEMMA GarbageRefused ==
  ASSUME NEW d \in SoundTables, d.max_size <= TableSize, NEW block \in Malformed
  PROVE  Bad(decode(d, block))
<1>1. CASE block = <<Octet(128)>>
  <2>1. Full(7) = 127 /\ 128 + 0 = 128 /\ 0 \in Nat /\ 0 < 127
    BY DEF Full
  <2>2. 0 \in 0..Largest /\ Spells(block, 0, Full(7), 128)
    BY <1>1, <2>1, MarksAre, OneSpells
  <2>3. ~InTables(d.entries, 0)
    BY DEF InTables
  <2> QED
    BY <2>2, <2>3, IndexRefused DEF Bad
<1>2. CASE block = PeerInt(Len(STATIC_TABLE) + TableSize + 1, 7, 128)
  BY <1>2, FarRefused
<1>3. CASE block = <<Octet(63)>>
  BY <1>3, CutOffRefused
<1>4. CASE block = <<Octet(126)>>
  BY <1>4, NameRefused
<1>5. CASE block = <<Octet(64), Str("x-new"), Str("garbled")>>
  BY <1>5, TextRefused
<1>6. CASE block = Long
  BY <1>6, LongIs, LongRefused
<1> QED
  BY <1>1, <1>2, <1>3, <1>4, <1>5, <1>6 DEF Malformed, Long

LEMMA EncodedTyped ==
  ASSUME NEW t \in SoundTables, NEW headers \in Seq(Fields), NEW e, e = encode(t, headers)
  PROVE  e.table \in SoundTables /\ e.table.max_size = t.max_size /\ e.block \in Seq(Tokens)
<1>1. Len(headers) \in Nat /\ Len(headers) \in 0..Len(headers)
  BY LenProperties
<1>2. PICK f : EncodeTurns(f, t, headers, Len(headers)) /\ encode(t, headers) = f[Len(headers)]
  BY <1>1, EncodeTurnsExist
<1> QED
  BY <1>1, <1>2, EncodedSoFar

-----------------------------------------------------------------------------
(* The invariant *)

Message == [block: Seq(Tokens) \cup Malformed, headers: Seq(Fields) \cup {Garbage}, end: BOOLEAN]

Server == [dec: PeerTables, enc: PeerTables, request: Seq(Fields), answers: BOOLEAN,
           blocks: Nat, refused: BOOLEAN]

Typed ==
    /\ pc \in {"idle", "upload", "response", "dropped"}
    /\ enc \in SoundTables /\ enc.max_size = TableSize
    /\ dec \in SoundTables /\ dec.max_size <= TableSize
    /\ resp_headers \in Seq(Fields)
    /\ down \in Seq(Message)
    /\ skipped \in BOOLEAN /\ sent \in 0..MaxRequests
    /\ srv \in Server /\ srv.enc.max <= TableSize

(* No block but the last is the end of an answer. *)
Ends(msgs, answers) ==
    \A i \in 1..Len(msgs) : msgs[i].end => i = Len(msgs) /\ ~answers

(* One request runs at a time: it is on its way, or it is answered, and     *)
(* nothing comes after the end of its answer.                               *)
OneAtATime ==
    /\ pc = "dropped" => up = <<>> /\ down = <<>>
    /\ pc = "idle" => up = <<>> /\ down = <<>> /\ ~srv.answers
    /\ up # <<>> => down = <<>> /\ ~srv.answers
    /\ Ends(down, srv.answers)
    /\ srv.refused => pc = "dropped"

(* A request on its way was encoded with a table that the server's follows. *)
Requested(t, headers) ==
    /\ t.max_size = TableSize /\ Follows(srv.dec, t)
    /\ up = <<[block |-> encode(t, headers).block, headers |-> headers]>>
    /\ enc = encode(t, headers).table

ServerFollows ==
    /\ up = <<>> /\ pc # "dropped" => Follows(srv.dec, enc)
    /\ up # <<>> => \E t \in SoundTables, headers \in Seq(Fields) : Requested(t, headers)

(* A block on its way, and the tables of the server before and after it. *)
Said(m, p, q) ==
    \/ /\ m.headers \in Seq(Fields)
       /\ \E start \in Starts(p) : \E e \in PeerEncode({start}, m.headers) :
             m.block = e.block /\ q = e.table
    \/ m.block \in Malformed /\ m.headers = Garbage /\ q = p

(* The tables between the blocks on their way, the last of them as it is now. *)
Between(tables, msgs, last) ==
    /\ \A i \in 1..Len(msgs) + 1 : tables[i] \in PeerTables /\ tables[i].max <= TableSize
    /\ \A i \in 1..Len(msgs) : Said(msgs[i], tables[i], tables[i + 1])
    /\ tables[Len(msgs) + 1] = last

DecoderCovers ==
    pc # "dropped" =>
       \E tables : /\ Between(tables, down, srv.enc)
                   /\ ~skipped => Covers(dec, tables[1])

IInv == Typed /\ OneAtATime /\ ServerFollows /\ DecoderCovers /\ RefusedOnlyWhenFull

LEMMA NewIs ==
  /\ new(TableSize) \in SoundTables /\ new(TableSize).max_size = TableSize
  /\ new(TableSize).entries = <<>>
<1>1. <<>> \in Seq(Fields) /\ SizeOf(<<>>) = 0
  BY EmptySize
<1>2. TableSize \in Nat /\ TableSize <= MAX_TABLE_SIZE_CAP
  BY Limits
<1>3. [entries |-> <<>>, size |-> SizeOf(<<>>), max_size |-> TableSize] \in SoundTables
  <2>1. SizeOf(<<>>) <= TableSize
    BY <1>1, <1>2
  <2> QED
    BY <1>1, <1>2, <2>1, SoundIs
<1>4. new(TableSize) = [entries |-> <<>>, size |-> SizeOf(<<>>), max_size |-> TableSize]
  BY <1>1 DEF new
<1> QED
  BY <1>3, <1>4

LEMMA PeerNewIs ==
  ASSUME NEW max \in Nat, NEW p, p = PeerTable(max)
  PROVE  p \in PeerTables /\ p.max = max /\ p.entries = <<>>
<1>1. <<>> \in Seq(Fields) /\ SizeOf(<<>>) = 0
  BY EmptySize
<1>2. p = [entries |-> <<>>, max |-> max, evicted |-> FALSE]
  BY DEF PeerTable
<1>3. p \in [entries: Seq(Fields), max: Nat, evicted: BOOLEAN]
  BY <1>1, <1>2
<1>4. SizeOf(p.entries) <= p.max
  BY <1>1, <1>2
<1> QED
  BY <1>2, <1>3, <1>4 DEF PeerTables

LEMMA EmptyPrefix == IsPrefix(<<>>, <<>>)
<1>1. <<>> \in Seq(Fields)
  OBVIOUS
<1> QED
  BY <1>1, PrefixItself

LEMMA LimitsTyped ==
  ASSUME NEW limits \in ServerLimits
  PROVE  limits.dec \in Nat /\ limits.enc \in Nat /\ limits.enc <= TableSize
<1>1. limits.dec \in Nat /\ limits.enc \in 0..TableSize
  BY ServersAssumption
<1> QED
  BY <1>1, Limits

LEMMA InitInv == Init => IInv
<1> SUFFICES ASSUME Init PROVE IInv
  OBVIOUS
<1>1. PICK limits \in ServerLimits :
         srv = [dec |-> PeerTable(limits.dec), enc |-> PeerTable(limits.enc),
                request |-> <<>>, answers |-> FALSE, blocks |-> 0, refused |-> FALSE]
  BY DEF Init
<1>2. limits.dec \in Nat /\ limits.enc \in Nat /\ limits.enc <= TableSize
  BY LimitsTyped
<1>3. PICK p : p = PeerTable(limits.dec)
  OBVIOUS
<1>4. PICK q : q = PeerTable(limits.enc)
  OBVIOUS
<1>5. p \in PeerTables /\ p.entries = <<>>
  BY <1>2, <1>3, PeerNewIs
<1>6. q \in PeerTables /\ q.entries = <<>> /\ q.max <= TableSize
  BY <1>2, <1>4, PeerNewIs
<1>7. srv = [dec |-> p, enc |-> q, request |-> <<>>, answers |-> FALSE, blocks |-> 0, refused |-> FALSE]
  BY <1>1, <1>3, <1>4
<1>8. srv \in Server /\ srv.dec = p /\ srv.enc = q /\ ~srv.answers /\ ~srv.refused
  <2>1. <<>> \in Seq(Fields)
    OBVIOUS
  <2> QED
    BY <1>5, <1>6, <1>7, <2>1 DEF Server
<1>9. /\ pc = "idle" /\ enc = new(TableSize) /\ dec = new(TableSize) /\ resp_headers = <<>>
      /\ up = <<>> /\ down = <<>> /\ skipped = FALSE /\ sent = 0
  BY DEF Init
<1>10. /\ enc \in SoundTables /\ enc.max_size = TableSize /\ enc.entries = <<>>
       /\ dec \in SoundTables /\ dec.max_size = TableSize /\ dec.entries = <<>>
  BY <1>9, NewIs
<1>11. TableSize \in Nat /\ MaxRequests \in Nat
  <2>1. MaxRequests \in Nat
    BY BoundsAssumption
  <2> QED
    BY <2>1, Limits
<1>12. Typed
  <2>1. resp_headers \in Seq(Fields) /\ down \in Seq(Message)
    BY <1>9
  <2>2. skipped \in BOOLEAN
    BY <1>9
  <2>3. sent \in 0..MaxRequests
    <3>1. sent = 0
      BY <1>9
    <3> QED
      BY <1>11, <3>1
  <2>4. dec.max_size <= TableSize
    BY <1>10, <1>11
  <2>5. srv.enc.max <= TableSize
    BY <1>6, <1>8
  <2> QED
    BY <1>8, <1>9, <1>10, <2>1, <2>2, <2>4, <2>5, <2>3 DEF Typed
<1>13. OneAtATime
  <2>1. Len(down) = 0
    BY <1>9
  <2> QED
    BY <1>8, <1>9, <2>1 DEF OneAtATime, Ends
<1>14. ServerFollows
  BY <1>5, <1>8, <1>9, <1>10, EmptyPrefix DEF ServerFollows, Follows
<1>15. DecoderCovers
  <2>1. PICK tables : tables = [i \in {1} |-> q]
    OBVIOUS
  <2>2. tables[1] = q /\ Len(down) = 0 /\ 0 + 1 = 1
    BY <1>9, <2>1
  <2>3. Between(tables, down, srv.enc)
    BY <1>6, <1>8, <2>2 DEF Between
  <2>4. Covers(dec, tables[1])
    BY <1>6, <1>10, <2>2, EmptyPrefix DEF Covers
  <2> QED
    BY <2>3, <2>4 DEF DecoderCovers
<1>16. RefusedOnlyWhenFull
  BY <1>8 DEF RefusedOnlyWhenFull
<1> QED
  BY <1>12, <1>13, <1>14, <1>15, <1>16 DEF IInv

LEMMA TailIs ==
  ASSUME NEW S, NEW s \in Seq(S), s # <<>>, NEW t, t = Tail(s)
  PROVE  /\ t \in Seq(S) /\ Len(s) \in Nat \ {0} /\ Len(t) = Len(s) - 1
         /\ \A i \in 1..Len(t) : t[i] = s[i + 1]
         /\ Head(s) = s[1] /\ Head(s) \in S
<1>1. Tail(s) \in Seq(S) /\ Head(s) \in S
  BY HeadTailProperties
<1>2. Len(Tail(s)) = Len(s) - 1
  BY HeadTailProperties
<1>3. \A i \in 1..Len(Tail(s)) : Tail(s)[i] = s[i + 1]
  BY HeadTailProperties
<1>4. Len(s) \in Nat \ {0}
  BY EmptySeq, LenProperties
<1>5. Head(s) = s[1]
  OBVIOUS
<1> QED
  BY <1>1, <1>2, <1>3, <1>4, <1>5

(* What is left once the first block has arrived, or has been dropped. *)
LEMMA TailBetween ==
  ASSUME NEW msgs \in Seq(Message), msgs # <<>>, NEW tables, NEW last, Between(tables, msgs, last)
  PROVE  /\ Said(Head(msgs), tables[1], tables[2])
         /\ tables[1] \in PeerTables /\ tables[1].max <= TableSize
         /\ \E rest : Between(rest, Tail(msgs), last) /\ rest[1] = tables[2]
<1>1. PICK t : t = Tail(msgs)
  OBVIOUS
<1>2. PICK n : n = Len(t)
  OBVIOUS
<1>3. /\ t \in Seq(Message) /\ Len(msgs) \in Nat \ {0} /\ n = Len(msgs) - 1
      /\ \A i \in 1..n : t[i] = msgs[i + 1]
      /\ Head(msgs) = msgs[1]
  BY <1>1, <1>2, TailIs
<1>4. Len(msgs) = n + 1 /\ n \in Nat
  BY <1>3
<1>5. PICK rest : rest = [i \in 1..n + 1 |-> tables[i + 1]]
  OBVIOUS
<1>6. /\ \A i \in 1..(n + 1) + 1 : tables[i] \in PeerTables /\ tables[i].max <= TableSize
      /\ \A i \in 1..n + 1 : Said(msgs[i], tables[i], tables[i + 1])
      /\ tables[(n + 1) + 1] = last
  BY <1>4 DEF Between
<1>7. \A i \in 1..n + 1 : rest[i] \in PeerTables /\ rest[i].max <= TableSize
  <2> TAKE i \in 1..n + 1
  <2>1. i + 1 \in 1..(n + 1) + 1
    BY <1>4
  <2> QED
    BY <1>5, <1>6, <2>1
<1>8. \A i \in 1..n : Said(t[i], rest[i], rest[i + 1])
  <2> TAKE i \in 1..n
  <2>1. i + 1 \in 1..n + 1 /\ i \in 1..n + 1
    BY <1>4
  <2>2. rest[i] = tables[i + 1] /\ rest[i + 1] = tables[(i + 1) + 1] /\ t[i] = msgs[i + 1]
    BY <1>3, <1>5, <2>1
  <2>3. Said(msgs[i + 1], tables[i + 1], tables[(i + 1) + 1])
    BY <1>6, <2>1
  <2> QED
    BY <2>2, <2>3
<1>9. rest[n + 1] = last /\ rest[1] = tables[2]
  <2>1. n + 1 \in 1..n + 1 /\ 1 \in 1..n + 1 /\ 1 + 1 = 2
    BY <1>4
  <2> QED
    BY <1>5, <1>6, <2>1
<1>10. Between(rest, t, last)
  BY <1>2, <1>7, <1>8, <1>9 DEF Between
<1>11. Said(msgs[1], tables[1], tables[2]) /\ tables[1] \in PeerTables /\ tables[1].max <= TableSize
  <2>1. 1 \in 1..n + 1 /\ 1 \in 1..(n + 1) + 1 /\ 1 + 1 = 2
    BY <1>4
  <2> QED
    BY <1>6, <2>1
<1> QED
  BY <1>1, <1>3, <1>9, <1>10, <1>11

(* One more block on its way. *)
LEMMA AppendBetween ==
  ASSUME NEW msgs \in Seq(Message), NEW tables, NEW last, Between(tables, msgs, last),
         NEW m \in Message, NEW q \in PeerTables, q.max <= TableSize, Said(m, last, q)
  PROVE  \E more : Between(more, Append(msgs, m), q) /\ more[1] = tables[1]
<1>1. PICK n : n = Len(msgs)
  OBVIOUS
<1>2. n \in Nat
  BY <1>1, LenProperties
<1>3. PICK s : s = Append(msgs, m)
  OBVIOUS
<1>4. s \in Seq(Message) /\ Len(s) = n + 1 /\ s[n + 1] = m /\ \A i \in 1..n : s[i] = msgs[i]
  BY <1>1, <1>3, AppendIs
<1>5. PICK more : more = [i \in 1..(n + 1) + 1 |-> IF i <= n + 1 THEN tables[i] ELSE q]
  OBVIOUS
<1>6. /\ \A i \in 1..n + 1 : tables[i] \in PeerTables /\ tables[i].max <= TableSize
      /\ \A i \in 1..n : Said(msgs[i], tables[i], tables[i + 1])
      /\ tables[n + 1] = last
  BY <1>1 DEF Between
<1>7. more[(n + 1) + 1] = q /\ more[n + 1] = last /\ more[1] = tables[1]
  <2>1. ~((n + 1) + 1 <= n + 1) /\ n + 1 <= n + 1 /\ 1 <= n + 1 /\ 1 \in 1..(n + 1) + 1
        /\ n + 1 \in 1..(n + 1) + 1 /\ (n + 1) + 1 \in 1..(n + 1) + 1
    BY <1>2
  <2> QED
    BY <1>5, <1>6, <2>1
<1>8. \A i \in 1..(n + 1) + 1 : more[i] \in PeerTables /\ more[i].max <= TableSize
  <2> TAKE i \in 1..(n + 1) + 1
  <2>1. CASE i <= n + 1
    <3>1. i \in 1..n + 1
      BY <1>2, <2>1
    <3>2. more[i] = tables[i]
      BY <1>5, <2>1
    <3> QED
      BY <1>6, <3>1, <3>2
  <2>2. CASE ~(i <= n + 1)
    <3>1. more[i] = q
      BY <1>5, <2>2
    <3> QED
      BY <3>1
  <2> QED
    BY <2>1, <2>2
<1>9. \A i \in 1..n + 1 : Said(s[i], more[i], more[i + 1])
  <2> TAKE i \in 1..n + 1
  <2>1. CASE i \in 1..n
    <3>1. i <= n + 1 /\ i + 1 <= n + 1 /\ i \in 1..(n + 1) + 1 /\ i + 1 \in 1..(n + 1) + 1
      BY <1>2, <2>1
    <3>2. more[i] = tables[i] /\ more[i + 1] = tables[i + 1] /\ s[i] = msgs[i]
      BY <1>4, <1>5, <2>1, <3>1
    <3> QED
      BY <1>6, <2>1, <3>2
  <2>2. CASE i = n + 1
    BY <1>4, <1>7, <2>2
  <2> QED
    BY <1>2, <2>1, <2>2
<1>10. Between(more, s, q)
  BY <1>4, <1>7, <1>8, <1>9 DEF Between
<1> QED
  BY <1>3, <1>7, <1>10

LEMMA EndsTail ==
  ASSUME NEW msgs \in Seq(Message), msgs # <<>>, NEW answers \in BOOLEAN, Ends(msgs, answers)
  PROVE  /\ Ends(Tail(msgs), answers)
         /\ Head(msgs).end => Tail(msgs) = <<>> /\ ~answers
<1>1. PICK t : t = Tail(msgs)
  OBVIOUS
<1>2. PICK n : n = Len(t)
  OBVIOUS
<1>3. /\ t \in Seq(Message) /\ Len(msgs) \in Nat \ {0} /\ n = Len(msgs) - 1
      /\ \A i \in 1..n : t[i] = msgs[i + 1]
      /\ Head(msgs) = msgs[1]
  BY <1>1, <1>2, TailIs
<1>4. Len(msgs) = n + 1 /\ n \in Nat
  BY <1>3
<1>5. \A i \in 1..n + 1 : msgs[i].end => i = n + 1 /\ ~answers
  BY <1>4 DEF Ends
<1>6. \A i \in 1..n : t[i].end => i = n /\ ~answers
  <2> TAKE i \in 1..n
  <2>1. i + 1 \in 1..n + 1 /\ t[i] = msgs[i + 1]
    BY <1>3, <1>4
  <2>2. msgs[i + 1].end => i + 1 = n + 1 /\ ~answers
    BY <1>5, <2>1
  <2>3. i + 1 = n + 1 => i = n
    BY <1>4
  <2> QED
    BY <2>1, <2>2, <2>3
<1>7. Ends(t, answers)
  BY <1>2, <1>6 DEF Ends
<1>8. ASSUME msgs[1].end
      PROVE  t = <<>> /\ ~answers
  <2>1. 1 \in 1..n + 1
    BY <1>4
  <2>2. 1 = n + 1 /\ ~answers
    BY <1>5, <1>8, <2>1
  <2>3. n = 0
    BY <1>4, <2>2
  <2> QED
    BY <1>2, <1>3, <2>2, <2>3, EmptySeq
<1> QED
  BY <1>1, <1>3, <1>7, <1>8

LEMMA EndsAppend ==
  ASSUME NEW msgs \in Seq(Message), NEW open \in BOOLEAN, open, Ends(msgs, open),
         NEW m \in Message, NEW answers \in BOOLEAN, m.end => ~answers
  PROVE  Ends(Append(msgs, m), answers)
<1>1. PICK n : n = Len(msgs)
  OBVIOUS
<1>2. n \in Nat
  BY <1>1, LenProperties
<1>3. PICK s : s = Append(msgs, m)
  OBVIOUS
<1>4. Len(s) = n + 1 /\ s[n + 1] = m /\ \A i \in 1..n : s[i] = msgs[i]
  BY <1>1, <1>3, AppendIs
<1>5. \A i \in 1..n : ~msgs[i].end
  BY <1>1 DEF Ends
<1>6. \A i \in 1..n + 1 : s[i].end => i = n + 1 /\ ~answers
  <2> TAKE i \in 1..n + 1
  <2>1. CASE i \in 1..n
    BY <1>4, <1>5, <2>1
  <2>2. CASE i = n + 1
    BY <1>4, <2>2
  <2> QED
    BY <1>2, <2>1, <2>2
<1> QED
  BY <1>3, <1>4, <1>6 DEF Ends

LEMMA TailTyped ==
  ASSUME NEW msgs \in Seq(Message), msgs # <<>>
  PROVE  Tail(msgs) \in Seq(Message)
BY TailIs

LEMMA DropInv ==
  ASSUME IInv, Drop, srv' \in Server, srv'.enc.max <= TableSize,
         srv'.refused => srv'.dec.max < TableSize /\ srv'.dec.evicted
  PROVE  IInv'
<1>1. /\ pc' = "dropped" /\ up' = <<>> /\ down' = <<>> /\ enc' = enc /\ dec' = dec
      /\ resp_headers' = resp_headers /\ skipped' = skipped /\ sent' = sent
  BY DEF Drop
<1>2. Typed'
  <2>1. down' \in Seq(Message)
    BY <1>1
  <2> QED
    BY <1>1, <2>1 DEF IInv, Typed
<1>3. OneAtATime'
  <2>1. Len(down') = 0
    BY <1>1
  <2> QED
    BY <1>1, <2>1 DEF OneAtATime, Ends
<1>4. ServerFollows'
  BY <1>1 DEF ServerFollows
<1>5. DecoderCovers'
  BY <1>1 DEF DecoderCovers
<1>6. RefusedOnlyWhenFull'
  BY DEF RefusedOnlyWhenFull
<1> QED
  BY <1>2, <1>3, <1>4, <1>5, <1>6 DEF IInv

LEMMA SkipInv ==
  ASSUME IInv, handle_frame
  PROVE  IInv'
<1>1. /\ pc = "upload" /\ down # <<>> /\ down' = Tail(down) /\ skipped' = TRUE
      /\ pc' = pc /\ enc' = enc /\ dec' = dec /\ resp_headers' = resp_headers
      /\ up' = up /\ sent' = sent /\ srv' = srv
  BY DEF handle_frame
<1>2. down \in Seq(Message) /\ srv \in Server
  BY DEF IInv, Typed
<1>3. up = <<>> /\ Ends(down, srv.answers) /\ srv.answers \in BOOLEAN
  BY <1>1, <1>2 DEF IInv, OneAtATime, Server
<1>4. Typed'
  <2>1. skipped' \in BOOLEAN
    BY <1>1
  <2>2. down' \in Seq(Message)
    BY <1>1, <1>2, TailTyped
  <2> QED
    BY <1>1, <2>1, <2>2 DEF IInv, Typed
<1>5. OneAtATime'
  <2>1. Ends(down', srv'.answers)
    BY <1>1, <1>2, <1>3, EndsTail
  <2> QED
    BY <1>1, <1>3, <2>1 DEF IInv, OneAtATime
<1>6. ServerFollows'
  BY <1>1, <1>3 DEF IInv, ServerFollows
<1>7. DecoderCovers'
  <2>1. PICK tables : Between(tables, down, srv.enc)
    BY <1>1 DEF IInv, DecoderCovers
  <2>2. PICK rest : Between(rest, Tail(down), srv.enc)
    BY <1>1, <1>2, <2>1, TailBetween
  <2>3. Between(rest, down', srv'.enc)
    BY <1>1, <2>2
  <2> QED
    BY <1>1, <2>3 DEF DecoderCovers
<1>8. RefusedOnlyWhenFull'
  BY <1>1 DEF IInv, RefusedOnlyWhenFull
<1> QED
  BY <1>4, <1>5, <1>6, <1>7, <1>8 DEF IInv

(* What our decoder makes of a block of the server. *)
LEMMA SaidRead ==
  ASSUME NEW m, NEW p \in PeerTables, p.max <= TableSize, NEW q, Said(m, p, q),
         NEW d \in SoundTables, d.max_size <= TableSize, NEW sure, sure => Covers(d, p),
         NEW r, r = decode(d, m.block), r.ok
  PROVE  /\ r.table \in SoundTables /\ r.table.max_size <= TableSize
         /\ r.headers \in Seq(Fields) /\ m.headers \in Seq(Fields)
         /\ sure => r.headers = m.headers /\ Covers(r.table, q)
<1>1. CASE m.block \in Malformed
  <2>1. Bad(r)
    BY <1>1, GarbageRefused
  <2> QED
    BY <2>1 DEF Bad
<1>2. CASE /\ m.headers \in Seq(Fields)
           /\ \E start \in Starts(p) : \E e \in PeerEncode({start}, m.headers) :
                 m.block = e.block /\ q = e.table
  <2>1. PICK h : h = m.headers
    OBVIOUS
  <2>2. h \in Seq(Fields)
    BY <1>2, <2>1
  <2>3. PICK start \in Starts(p) : \E e \in PeerEncode({start}, h) : m.block = e.block /\ q = e.table
    BY <1>2, <2>1
  <2>4. PICK e \in PeerEncode({start}, h) : m.block = e.block /\ q = e.table
    BY <2>3
  <2>5. r = decode(d, e.block)
    BY <2>4
  <2>6. Received(r, h, e.table, sure)
    BY <2>2, <2>5, ResponseRead
  <2> QED
    BY <2>1, <2>2, <2>4, <2>6 DEF Received
<1> QED
  BY <1>1, <1>2 DEF Said

LEMMA ReadInv ==
  ASSUME IInv, ReadHeaders
  PROVE  IInv'
<1>1. down # <<>> /\ pc = "response" /\ srv' = srv
  BY DEF ReadHeaders
<1>2. /\ down \in Seq(Message) /\ srv \in Server /\ srv.answers \in BOOLEAN
      /\ dec \in SoundTables /\ dec.max_size <= TableSize
  BY DEF IInv, Typed, Server
<1>3. PICK m : m = Head(down)
  OBVIOUS
<1>4. PICK r : r = decode(dec, m.block)
  OBVIOUS
<1>5. CASE ~r.ok
  <2>1. Drop
    BY <1>3, <1>4, <1>5 DEF ReadHeaders
  <2>2. srv' \in Server /\ srv'.enc.max <= TableSize
    BY <1>1 DEF IInv, Typed
  <2>3. srv'.refused => srv'.dec.max < TableSize /\ srv'.dec.evicted
    BY <1>1 DEF IInv, RefusedOnlyWhenFull
  <2> QED
    BY <2>1, <2>2, <2>3, DropInv
<1>6. CASE r.ok
  <2>1. /\ dec' = r.table /\ resp_headers' = r.headers /\ down' = Tail(down)
        /\ pc' = (IF m.end THEN "idle" ELSE "response")
        /\ enc' = enc /\ up' = up /\ skipped' = skipped /\ sent' = sent
    BY <1>3, <1>4, <1>6 DEF ReadHeaders
  <2>2. PICK tables : Between(tables, down, srv.enc) /\ (~skipped => Covers(dec, tables[1]))
    BY <1>1 DEF IInv, DecoderCovers
  <2>3. PICK p : p = tables[1]
    OBVIOUS
  <2>4. PICK q : q = tables[2]
    OBVIOUS
  <2>5. /\ Said(m, p, q) /\ p \in PeerTables /\ p.max <= TableSize
        /\ \E rest : Between(rest, Tail(down), srv.enc) /\ rest[1] = q
    BY <1>1, <1>2, <1>3, <2>2, <2>3, <2>4, TailBetween
  <2>6. PICK sure : sure = ~skipped
    OBVIOUS
  <2>7. /\ r.table \in SoundTables /\ r.table.max_size <= TableSize /\ r.headers \in Seq(Fields)
        /\ sure => Covers(r.table, q)
    BY <1>2, <1>4, <1>6, <2>2, <2>3, <2>5, <2>6, SaidRead
  <2>8. up = <<>> /\ Ends(down, srv.answers)
    BY <1>1 DEF IInv, OneAtATime
  <2>9. Typed'
    <3>1. down' \in Seq(Message)
      BY <1>1, <1>2, <2>1, TailTyped
    <3>2. pc' \in {"idle", "upload", "response", "dropped"}
      BY <2>1
    <3> QED
      BY <1>1, <2>1, <2>7, <3>1, <3>2 DEF IInv, Typed
  <2>10. OneAtATime'
    <3>1. Ends(down', srv'.answers) /\ (m.end => down' = <<>> /\ ~srv'.answers)
      BY <1>1, <1>2, <1>3, <2>1, <2>8, EndsTail
    <3>2. pc' # "dropped" /\ (pc' = "idle" => m.end)
      BY <2>1
    <3>3. srv'.refused => FALSE
      BY <1>1 DEF IInv, OneAtATime
    <3> QED
      BY <1>1, <2>1, <2>8, <3>1, <3>2, <3>3 DEF OneAtATime
  <2>11. ServerFollows'
    BY <1>1, <2>1, <2>8 DEF IInv, ServerFollows
  <2>12. DecoderCovers'
    <3>1. PICK rest : Between(rest, Tail(down), srv.enc) /\ rest[1] = q
      BY <2>5
    <3>2. Between(rest, down', srv'.enc)
      BY <1>1, <2>1, <3>1
    <3>3. ~skipped' => Covers(dec', rest[1])
      BY <2>1, <2>6, <2>7, <3>1
    <3> QED
      BY <3>2, <3>3 DEF DecoderCovers
  <2>13. RefusedOnlyWhenFull'
    BY <1>1 DEF IInv, RefusedOnlyWhenFull
  <2> QED
    BY <2>9, <2>10, <2>11, <2>12, <2>13 DEF IInv
<1> QED
  BY <1>5, <1>6

LEMMA TimeoutInv ==
  ASSUME IInv, Timeout
  PROVE  IInv'
<1>1. Drop /\ srv' = srv
  BY DEF Timeout
<1>2. srv' \in Server /\ srv'.enc.max <= TableSize
  BY <1>1 DEF IInv, Typed
<1>3. srv'.refused => srv'.dec.max < TableSize /\ srv'.dec.evicted
  BY <1>1 DEF IInv, RefusedOnlyWhenFull
<1> QED
  BY <1>1, <1>2, <1>3, DropInv

LEMMA UploadInv ==
  ASSUME IInv, UploadDone
  PROVE  IInv'
<1>1. /\ pc = "upload" /\ pc' = "response" /\ enc' = enc /\ dec' = dec
      /\ resp_headers' = resp_headers /\ up' = up /\ down' = down /\ skipped' = skipped
      /\ sent' = sent /\ srv' = srv
  BY DEF UploadDone
<1>2. Typed'
  BY <1>1 DEF IInv, Typed
<1>3. OneAtATime'
  BY <1>1 DEF IInv, OneAtATime
<1>4. ServerFollows'
  BY <1>1 DEF IInv, ServerFollows, Requested
<1>5. DecoderCovers'
  BY <1>1 DEF IInv, DecoderCovers
<1>6. RefusedOnlyWhenFull'
  BY <1>1 DEF IInv, RefusedOnlyWhenFull
<1> QED
  BY <1>2, <1>3, <1>4, <1>5, <1>6 DEF IInv

LEMMA StutterInv ==
  ASSUME IInv, UNCHANGED vars
  PROVE  IInv'
<1>1. /\ pc' = pc /\ enc' = enc /\ dec' = dec
      /\ resp_headers' = resp_headers /\ up' = up /\ down' = down /\ skipped' = skipped
      /\ sent' = sent /\ srv' = srv
  BY DEF vars
<1>2. Typed'
  BY <1>1 DEF IInv, Typed
<1>3. OneAtATime'
  BY <1>1 DEF IInv, OneAtATime
<1>4. ServerFollows'
  BY <1>1 DEF IInv, ServerFollows, Requested
<1>5. DecoderCovers'
  BY <1>1 DEF IInv, DecoderCovers
<1>6. RefusedOnlyWhenFull'
  BY <1>1 DEF IInv, RefusedOnlyWhenFull
<1> QED
  BY <1>2, <1>3, <1>4, <1>5, <1>6 DEF IInv

LEMMA SendInv ==
  ASSUME IInv, NEW headers \in Seq(Fields), NEW has_body \in BOOLEAN,
         send_request(headers, has_body)
  PROVE  IInv'
<1>1. PICK e : e = encode(enc, headers)
  OBVIOUS
<1>2. /\ pc = "idle" /\ sent < MaxRequests /\ enc' = e.table
      /\ up' = <<[block |-> e.block, headers |-> headers]>>
      /\ pc' = (IF has_body THEN "upload" ELSE "response") /\ sent' = sent + 1
      /\ dec' = dec /\ resp_headers' = resp_headers /\ down' = down /\ skipped' = skipped
      /\ srv' = srv
  BY <1>1 DEF send_request
<1>3. enc \in SoundTables /\ enc.max_size = TableSize
  BY DEF IInv, Typed
<1>4. e.table \in SoundTables /\ e.table.max_size = TableSize
  BY <1>1, <1>3, EncodedTyped
<1>5. up = <<>> /\ down = <<>> /\ ~srv.answers /\ ~srv.refused
  BY <1>2 DEF IInv, OneAtATime
<1>6. Typed'
  <2>1. pc' \in {"idle", "upload", "response", "dropped"}
    BY <1>2
  <2>2. sent' \in 0..MaxRequests
    <3>1. MaxRequests \in Nat
      BY BoundsAssumption
    <3>2. sent \in 0..MaxRequests
      BY DEF IInv, Typed
    <3>3. sent < MaxRequests /\ sent' = sent + 1
      BY <1>2
    <3> QED
      BY <3>1, <3>2, <3>3
  <2> QED
    BY <1>2, <1>4, <2>1, <2>2 DEF IInv, Typed
<1>7. OneAtATime'
  <2>1. pc' # "dropped" /\ pc' # "idle"
    BY <1>2
  <2>2. Len(down') = 0
    BY <1>2, <1>5
  <2> QED
    BY <1>2, <1>5, <2>1, <2>2 DEF OneAtATime, Ends
<1>8. ServerFollows'
  <2>1. up' # <<>>
    BY <1>2
  <2>2. Follows(srv.dec, enc)
    BY <1>2, <1>5 DEF IInv, ServerFollows
  <2>3. PICK t : t = enc
    OBVIOUS
  <2>4. /\ t.max_size = TableSize /\ Follows(srv'.dec, t)
        /\ up' = <<[block |-> encode(t, headers).block, headers |-> headers]>>
        /\ enc' = encode(t, headers).table
    BY <1>1, <1>2, <1>3, <2>2, <2>3
  <2>5. Requested(t, headers)'
    BY <2>4 DEF Requested
  <2> QED
    BY <1>3, <2>1, <2>3, <2>5 DEF ServerFollows
<1>9. DecoderCovers'
  BY <1>2 DEF IInv, DecoderCovers
<1>10. RefusedOnlyWhenFull'
  BY <1>2, <1>5 DEF RefusedOnlyWhenFull
<1> QED
  BY <1>6, <1>7, <1>8, <1>9, <1>10 DEF IInv

(* What the server makes of a request. *)
LEMMA RequestedRead ==
  ASSUME IInv, up # <<>>, NEW d, d = PeerDecode(srv.dec, Head(up).block)
  PROVE  /\ Head(up).headers \in Seq(Fields) /\ Tail(up) = <<>>
         /\ \/ d.ok = TRUE /\ d.headers = Head(up).headers /\ d.table \in PeerTables
               /\ Follows(d.table, enc)
            \/ PeerGaveUp(d, TableSize)
<1>1. PICK t \in SoundTables, headers \in Seq(Fields) : Requested(t, headers)
  BY DEF IInv, ServerFollows
<1>2. PICK e : e = encode(t, headers)
  OBVIOUS
<1>3. PICK m : m = [block |-> e.block, headers |-> headers]
  OBVIOUS
<1>4. /\ t.max_size = TableSize /\ Follows(srv.dec, t) /\ up = <<m>> /\ enc = e.table
  BY <1>1, <1>2, <1>3 DEF Requested
<1>5. Head(up) = m /\ m.block = e.block /\ m.headers = headers /\ Tail(up) = <<>>
  BY <1>3, <1>4
<1>6. srv.dec \in PeerTables
  BY DEF IInv, Typed, Server
<1>7. PICK p : p = srv.dec
  OBVIOUS
<1>8. d = PeerDecode(p, e.block)
  BY <1>5, <1>7
<1>9. PeerGot(d, headers, e.table) \/ PeerGaveUp(d, t.max_size)
  BY <1>2, <1>4, <1>6, <1>7, <1>8, RequestRead
<1>10. CASE PeerGot(d, headers, e.table)
  BY <1>4, <1>5, <1>10 DEF PeerGot
<1>11. CASE PeerGaveUp(d, t.max_size)
  BY <1>4, <1>5, <1>11
<1> QED
  BY <1>9, <1>10, <1>11

LEMMA SrvRequestInv ==
  ASSUME IInv, SrvRequest
  PROVE  IInv'
<1>1. up # <<>>
  BY DEF SrvRequest
<1>2. PICK d : d = PeerDecode(srv.dec, Head(up).block)
  OBVIOUS
<1>3. /\ Head(up).headers \in Seq(Fields) /\ Tail(up) = <<>>
      /\ \/ d.ok = TRUE /\ d.headers = Head(up).headers /\ d.table \in PeerTables
            /\ Follows(d.table, enc)
         \/ PeerGaveUp(d, TableSize)
  BY <1>1, <1>2, RequestedRead
<1>4. srv \in Server /\ srv.enc.max <= TableSize
  BY DEF IInv, Typed
<1>5. down = <<>> /\ pc # "dropped" /\ pc # "idle"
  BY <1>1 DEF IInv, OneAtATime
<1>6. CASE d.ok
  <2>1. /\ srv' = [srv EXCEPT !.dec = d.table, !.request = d.headers, !.answers = TRUE]
        /\ up' = Tail(up) /\ pc' = pc /\ enc' = enc /\ dec' = dec
        /\ resp_headers' = resp_headers /\ down' = down /\ skipped' = skipped /\ sent' = sent
    BY <1>2, <1>6 DEF SrvRequest
  <2>2. d.headers \in Seq(Fields) /\ d.table \in PeerTables /\ Follows(d.table, enc)
    BY <1>3, <1>6 DEF PeerGaveUp
  <2>3. srv' \in Server
    BY <1>4, <2>1, <2>2 DEF Server
  <2>4. srv'.dec = d.table /\ srv'.enc = srv.enc /\ srv'.refused = srv.refused
    BY <1>4, <2>1 DEF Server
  <2>5. up' = <<>>
    BY <1>3, <2>1
  <2>6. Typed'
    BY <1>4, <2>1, <2>3, <2>4 DEF IInv, Typed
  <2>7. OneAtATime'
    <3>1. Len(down') = 0 /\ ~srv.refused
      BY <1>5, <2>1 DEF IInv, OneAtATime
    <3> QED
      BY <1>5, <2>1, <2>4, <2>5, <3>1 DEF OneAtATime, Ends
  <2>8. ServerFollows'
    BY <2>1, <2>2, <2>4, <2>5 DEF ServerFollows
  <2>9. DecoderCovers'
    BY <2>1, <2>4 DEF IInv, DecoderCovers
  <2>10. RefusedOnlyWhenFull'
    <3>1. ~srv'.refused
      BY <1>5, <2>4 DEF IInv, OneAtATime
    <3> QED
      BY <3>1 DEF RefusedOnlyWhenFull
  <2> QED
    BY <2>6, <2>7, <2>8, <2>9, <2>10 DEF IInv
<1>7. CASE ~d.ok
  <2>1. Drop /\ srv' = [srv EXCEPT !.dec = d.table, !.refused = TRUE]
    BY <1>2, <1>7 DEF SrvRequest
  <2>2. d.table \in PeerTables /\ d.table.max < TableSize /\ d.table.evicted
    BY <1>3, <1>7 DEF PeerGaveUp
  <2>3. srv' \in Server
    BY <1>4, <2>1, <2>2 DEF Server
  <2>4. srv'.dec = d.table /\ srv'.enc = srv.enc
    BY <1>4, <2>1 DEF Server
  <2> QED
    BY <1>4, <2>1, <2>2, <2>3, <2>4, DropInv
<1> QED
  BY <1>6, <1>7

(* A block that the server sends. *)
LEMMA AnswerInv ==
  ASSUME IInv, Answering, NEW m \in Message, NEW q \in PeerTables, q.max <= TableSize,
         Said(m, srv.enc, q), down' = Append(down, m),
         srv' \in Server, srv'.dec = srv.dec, srv'.enc = q, srv'.answers = (~m.end),
         srv'.refused = srv.refused,
         UNCHANGED <<pc, enc, dec, resp_headers, up, skipped, sent>>
  PROVE  IInv'
<1>1. srv.answers /\ pc # "dropped"
  BY DEF Answering
<1>2. /\ pc' = pc /\ enc' = enc /\ dec' = dec /\ resp_headers' = resp_headers
      /\ up' = up /\ skipped' = skipped /\ sent' = sent
  OBVIOUS
<1>3. down \in Seq(Message) /\ srv.answers \in BOOLEAN
  BY DEF IInv, Typed, Server
<1>4. up = <<>> /\ pc # "idle" /\ ~srv.refused /\ Ends(down, srv.answers)
  BY <1>1 DEF IInv, OneAtATime
<1>5. Typed'
  <2>1. down' \in Seq(Message)
    BY <1>3, AppendProperties
  <2> QED
    BY <1>2, <2>1 DEF IInv, Typed
<1>6. OneAtATime'
  <2>1. srv'.answers \in BOOLEAN
    BY DEF Server
  <2>2. Ends(down', srv'.answers)
    BY <1>1, <1>3, <1>4, <2>1, EndsAppend
  <2> QED
    BY <1>1, <1>2, <1>4, <2>2 DEF OneAtATime
<1>7. ServerFollows'
  BY <1>2, <1>4 DEF IInv, ServerFollows
<1>8. DecoderCovers'
  <2>1. PICK tables : Between(tables, down, srv.enc) /\ (~skipped => Covers(dec, tables[1]))
    BY <1>1 DEF IInv, DecoderCovers
  <2>2. PICK more : Between(more, Append(down, m), q) /\ more[1] = tables[1]
    BY <1>3, <2>1, AppendBetween
  <2> QED
    BY <1>2, <2>1, <2>2 DEF DecoderCovers
<1>9. RefusedOnlyWhenFull'
  BY <1>4 DEF RefusedOnlyWhenFull
<1> QED
  BY <1>5, <1>6, <1>7, <1>8, <1>9 DEF IInv

(* An encoding of a list is a block of tokens, and its table a table. *)
LEMMA EncodedPart ==
  ASSUME IInv, NEW start \in Starts(srv.enc), NEW headers \in Seq(Fields),
         NEW e \in PeerEncode({start}, headers)
  PROVE  IsPart(e)
<1>1. PICK p : p = srv.enc
  OBVIOUS
<1>2. p \in PeerTables /\ p.max <= TableSize /\ start \in Starts(p)
  BY <1>1 DEF IInv, Typed, Server
<1>3. PICK d : d = dec
  OBVIOUS
<1>4. d \in SoundTables /\ d.max_size <= TableSize
  BY <1>3 DEF IInv, Typed
<1>5. PICK sure \in BOOLEAN : ~sure
  OBVIOUS
<1>6. PICK r : r = decode(d, e.block)
  OBVIOUS
<1> QED
  BY <1>2, <1>4, <1>5, <1>6, ResponseRead

LEMMA ResponseInv ==
  ASSUME IInv, NEW headers \in Seq(Fields), NEW end \in BOOLEAN, SrvResponse(headers, end)
  PROVE  IInv'
<1>1. PICK start \in Starts(srv.enc) :
         \E e \in PeerEncode({start}, headers) :
            /\ down' = Append(down, [block |-> e.block, headers |-> headers, end |-> end])
            /\ srv' = [srv EXCEPT !.enc = e.table, !.answers = ~end, !.blocks = @ + 1]
  BY DEF SrvResponse, Starts
<1>2. PICK e \in PeerEncode({start}, headers) :
         /\ down' = Append(down, [block |-> e.block, headers |-> headers, end |-> end])
         /\ srv' = [srv EXCEPT !.enc = e.table, !.answers = ~end, !.blocks = @ + 1]
  BY <1>1
<1>3. Answering /\ UNCHANGED <<pc, enc, dec, resp_headers, up, skipped, sent>>
  BY DEF SrvResponse
<1>4. e.table \in PeerTables /\ e.table.max <= TableSize /\ e.block \in Seq(Tokens)
  BY <1>2, EncodedPart DEF IsPart
<1>5. PICK m : m = [block |-> e.block, headers |-> headers, end |-> end]
  OBVIOUS
<1>6. m \in Message /\ m.block = e.block /\ m.headers = headers /\ m.end = end
  BY <1>4, <1>5 DEF Message
<1>7. Said(m, srv.enc, e.table)
  BY <1>2, <1>6 DEF Said
<1>8. srv \in Server
  BY DEF IInv, Typed
<1>9. srv' \in Server
  <2>1. srv.blocks + 1 \in Nat
    BY <1>8 DEF Server
  <2>2. (~end) \in BOOLEAN
    OBVIOUS
  <2> QED
    BY <1>2, <1>4, <1>8, <2>1, <2>2 DEF Server
<1>10. srv'.dec = srv.dec /\ srv'.enc = e.table /\ srv'.refused = srv.refused
  BY <1>2, <1>8 DEF Server
<1>11. srv'.answers = (~m.end)
  BY <1>2, <1>6, <1>8 DEF Server
<1>12. down' = Append(down, m)
  BY <1>2, <1>5
<1> QED
  BY <1>3, <1>4, <1>6, <1>7, <1>9, <1>10, <1>11, <1>12, AnswerInv

LEMMA GarbageInv ==
  ASSUME IInv, NEW block \in Malformed, SrvGarbage(block)
  PROVE  IInv'
<1>1. /\ down' = Append(down, [block |-> block, headers |-> Garbage, end |-> TRUE])
      /\ srv' = [srv EXCEPT !.answers = FALSE, !.blocks = @ + 1]
  BY DEF SrvGarbage
<1>2. Answering /\ UNCHANGED <<pc, enc, dec, resp_headers, up, skipped, sent>>
  BY DEF SrvGarbage
<1>3. srv \in Server /\ srv.enc \in PeerTables /\ srv.enc.max <= TableSize
  BY DEF IInv, Typed, Server
<1>4. PICK m : m = [block |-> block, headers |-> Garbage, end |-> TRUE]
  OBVIOUS
<1>5. m \in Message /\ m.block = block /\ m.headers = Garbage /\ m.end
  BY <1>4 DEF Message
<1>6. Said(m, srv.enc, srv.enc)
  BY <1>5 DEF Said
<1>7. srv' \in Server
  <2>1. srv.blocks + 1 \in Nat
    BY <1>3 DEF Server
  <2> QED
    BY <1>1, <1>3, <2>1 DEF Server
<1>8. srv'.dec = srv.dec /\ srv'.enc = srv.enc /\ srv'.refused = srv.refused
  BY <1>1, <1>3 DEF Server
<1>9. srv'.answers = (~m.end)
  <2>1. srv'.answers = FALSE
    BY <1>1, <1>3 DEF Server
  <2> QED
    BY <1>5, <2>1
<1>10. down' = Append(down, m)
  BY <1>1, <1>4
<1> QED
  BY <1>2, <1>3, <1>5, <1>6, <1>7, <1>8, <1>9, <1>10, AnswerInv

LEMMA ListsAre ==
  /\ \A headers \in RequestLists : headers \in Seq(Fields)
  /\ \A headers \in ResponseLists : headers \in Seq(Fields)
<1>1. RequestLists \subseteq Seq(Fields) /\ ResponseLists \subseteq Seq(Fields)
  BY ListsAssumption
<1> QED
  BY Zenon, <1>1

LEMMA NextInv == IInv /\ [Next]_vars => IInv'
<1> SUFFICES ASSUME IInv, [Next]_vars PROVE IInv'
  OBVIOUS
<1>1. ASSUME NEW headers \in RequestLists, NEW has_body \in BOOLEAN,
             send_request(headers, has_body)
      PROVE  IInv'
  BY <1>1, ListsAre, SendInv
<1>2. CASE handle_frame
  BY <1>2, SkipInv
<1>3. CASE UploadDone
  BY <1>3, UploadInv
<1>4. CASE ReadHeaders
  BY <1>4, ReadInv
<1>5. CASE Timeout
  BY <1>5, TimeoutInv
<1>6. CASE Rest
  BY <1>6, StutterInv DEF Rest
<1>7. CASE SrvRequest
  BY <1>7, SrvRequestInv
<1>8. ASSUME NEW headers \in ResponseLists, NEW end \in BOOLEAN, SrvResponse(headers, end)
      PROVE  IInv'
  BY <1>8, ListsAre, ResponseInv
<1>9. ASSUME NEW block \in Malformed, SrvGarbage(block)
      PROVE  IInv'
  BY <1>9, GarbageInv
<1>10. CASE UNCHANGED vars
  BY <1>10, StutterInv
<1> QED
  BY <1>1, <1>2, <1>3, <1>4, <1>5, <1>6, <1>7, <1>8, <1>9, <1>10 DEF Next

(* The invariant holds of every reachable state. *)
THEOREM Inductive == Spec => []IInv
BY InitInv, NextInv, PTL DEF Spec

LEMMA IInvTypeOK == IInv => TypeOK
<1> SUFFICES ASSUME IInv PROVE TypeOK
  OBVIOUS
<1>1. Sound(enc) /\ Sound(dec)
  BY DEF IInv, Typed, SoundTables
<1> QED
  BY <1>1 DEF IInv, Typed, TypeOK

LEMMA IInvAgree == IInv => IndicesAgree
<1> SUFFICES ASSUME IInv, pc # "dropped"
             PROVE  /\ up = <<>> => IF srv.dec.max <= TableSize
                                    THEN IsPrefix(srv.dec.entries, enc.entries)
                                    ELSE IsPrefix(enc.entries, srv.dec.entries)
                    /\ down = <<>> /\ ~skipped => IsPrefix(srv.enc.entries, dec.entries)
  BY DEF IndicesAgree
<1>1. ASSUME up = <<>>
      PROVE  IF srv.dec.max <= TableSize
             THEN IsPrefix(srv.dec.entries, enc.entries)
             ELSE IsPrefix(enc.entries, srv.dec.entries)
  <2>1. Follows(srv.dec, enc) /\ enc.max_size = TableSize
    BY <1>1 DEF IInv, ServerFollows, Typed
  <2>2. srv.dec.max \in Nat /\ TableSize \in Nat
    BY Limits, PeerTableFields DEF IInv, Typed, Server
  <2> QED
    BY <2>1, <2>2 DEF Follows
<1>2. ASSUME down = <<>>, ~skipped
      PROVE  IsPrefix(srv.enc.entries, dec.entries)
  <2>1. PICK tables : Between(tables, down, srv.enc) /\ (~skipped => Covers(dec, tables[1]))
    BY DEF IInv, DecoderCovers
  <2>2. tables[1] = srv.enc
    <3>1. Len(down) + 1 = 1
      BY <1>2
    <3> QED
      BY <2>1, <3>1 DEF Between
  <2> QED
    BY <1>2, <2>1, <2>2 DEF Covers
<1> QED
  BY <1>1, <1>2

(* Type correctness: the sizes that the two tables of the client keep are    *)
(* those of their entries, and within their limits.                          *)
THEOREM TypeCorrect == Spec => []TypeOK
BY Inductive, IInvTypeOK, PTL

(* Between two blocks an index that both ends know means the same entry to   *)
(* both, whatever the sizes of their tables.                                 *)
THEOREM IndicesAlwaysAgree == Spec => []IndicesAgree
BY Inductive, IInvAgree, PTL

(* A server refuses a block of the encoder only if its table is smaller than *)
(* the encoder's and has overflowed.                                         *)
THEOREM RefusesOnlyWhenFull == Spec => []RefusedOnlyWhenFull
<1>1. IInv => RefusedOnlyWhenFull
  BY DEF IInv
<1> QED
  BY <1>1, Inductive, PTL

-----------------------------------------------------------------------------
(* Refinement *)

Lists == Seq(Fields) \cup {Garbage}

LEMMA HeadersEmpty == HeadersOf(<<>>) = <<>>
BY DEF HeadersOf

LEMMA HeadersAre ==
  ASSUME NEW S, NEW msgs \in Seq(S), NEW T, \A m \in S : m.headers \in T
  PROVE  /\ HeadersOf(msgs) \in Seq(T) /\ Len(HeadersOf(msgs)) = Len(msgs)
         /\ \A i \in 1..Len(msgs) : HeadersOf(msgs)[i] = msgs[i].headers
<1>1. PICK n : n = Len(msgs)
  OBVIOUS
<1>2. n \in Nat /\ DOMAIN msgs = 1..n /\ \A i \in 1..n : msgs[i] \in S
  BY <1>1, LenProperties, ElementOfSeq
<1>3. PICK h : h = [i \in 1..n |-> msgs[i].headers]
  OBVIOUS
<1>4. h \in [1..n -> T]
  BY <1>2, <1>3
<1>5. h \in Seq(T) /\ Len(h) = n
  BY <1>2, <1>4, FunctionIsSeq
<1>6. HeadersOf(msgs) = h
  BY <1>2, <1>3 DEF HeadersOf
<1> QED
  BY <1>1, <1>3, <1>5, <1>6

LEMMA HeadersAppend ==
  ASSUME NEW msgs \in Seq(Message), NEW m \in Message, NEW q, q = HeadersOf(msgs),
         NEW r, r = HeadersOf(Append(msgs, m))
  PROVE  r # <<>> /\ Front(r) = q /\ Last(r) = m.headers
<1>1. \A x \in Message : x.headers \in Lists
  BY DEF Message, Lists
<1>2. PICK n : n = Len(msgs)
  OBVIOUS
<1>3. PICK s : s = Append(msgs, m)
  OBVIOUS
<1>4. n \in Nat /\ s \in Seq(Message) /\ Len(s) = n + 1 /\ s[n + 1] = m /\ \A i \in 1..n : s[i] = msgs[i]
  BY <1>2, <1>3, AppendIs, LenProperties
<1>5. q \in Seq(Lists) /\ Len(q) = n /\ \A i \in 1..n : q[i] = msgs[i].headers
  BY <1>1, <1>2, HeadersAre
<1>6. r \in Seq(Lists) /\ Len(r) = n + 1 /\ \A i \in 1..n + 1 : r[i] = s[i].headers
  BY <1>1, <1>3, <1>4, HeadersAre
<1>7. Last(r) = m.headers
  <2>1. n + 1 \in 1..n + 1
    BY <1>4
  <2> QED
    BY <1>4, <1>6, <2>1 DEF Last
<1>8. Front(r) = First(r, n)
  <2>1. Len(r) - 1 = n
    BY <1>4, <1>6
  <2> QED
    BY <2>1 DEF Front, First
<1>9. First(r, n) \in Seq(Lists) /\ Len(First(r, n)) = n /\ \A i \in 1..n : First(r, n)[i] = r[i]
  <2>1. n \in 0..Len(r)
    BY <1>4, <1>6
  <2> QED
    BY <1>6, <2>1, FirstIs
<1>10. First(r, n) = q
  <2>1. \A i \in 1..n : First(r, n)[i] = q[i]
    <3> TAKE i \in 1..n
    <3>1. i \in 1..n + 1
      BY <1>4
    <3> QED
      BY <1>4, <1>5, <1>6, <1>9, <3>1
  <2> QED
    BY <1>5, <1>9, <2>1, SeqEqual
<1>11. r # <<>>
  <2>1. Len(r) # 0
    BY <1>4, <1>6
  <2> QED
    BY <2>1
<1> QED
  BY <1>7, <1>8, <1>10, <1>11

LEMMA HeadersTail ==
  ASSUME NEW msgs \in Seq(Message), msgs # <<>>, NEW q, q = HeadersOf(msgs),
         NEW r, r = HeadersOf(Tail(msgs))
  PROVE  q # <<>> /\ Head(q) = Head(msgs).headers /\ r = Tail(q)
<1>1. \A x \in Message : x.headers \in Lists
  BY DEF Message, Lists
<1>2. PICK t : t = Tail(msgs)
  OBVIOUS
<1>3. PICK n : n = Len(t)
  OBVIOUS
<1>4. /\ t \in Seq(Message) /\ Len(msgs) \in Nat \ {0} /\ n = Len(msgs) - 1
      /\ \A i \in 1..n : t[i] = msgs[i + 1]
      /\ Head(msgs) = msgs[1]
  BY <1>2, <1>3, TailIs
<1>5. Len(msgs) = n + 1 /\ n \in Nat
  BY <1>4
<1>6. q \in Seq(Lists) /\ Len(q) = n + 1 /\ \A i \in 1..n + 1 : q[i] = msgs[i].headers
  BY <1>1, <1>5, HeadersAre
<1>7. r \in Seq(Lists) /\ Len(r) = n /\ \A i \in 1..n : r[i] = t[i].headers
  BY <1>1, <1>2, <1>3, <1>4, HeadersAre
<1>8. q # <<>>
  <2>1. Len(q) # 0
    BY <1>5, <1>6
  <2> QED
    BY <2>1
<1>9. PICK u : u = Tail(q)
  OBVIOUS
<1>10. u \in Seq(Lists) /\ Len(u) = Len(q) - 1 /\ (\A i \in 1..Len(u) : u[i] = q[i + 1]) /\ Head(q) = q[1]
  BY <1>6, <1>8, <1>9, TailIs
<1>11. Len(u) = n
  BY <1>5, <1>6, <1>10
<1>12. \A i \in 1..n : r[i] = u[i]
  <2> TAKE i \in 1..n
  <2>1. i + 1 \in 1..n + 1
    BY <1>5
  <2>2. u[i] = q[i + 1] /\ t[i] = msgs[i + 1]
    BY <1>4, <1>10, <1>11
  <2> QED
    BY <1>6, <1>7, <2>1, <2>2
<1>13. r = u
  BY <1>7, <1>10, <1>11, <1>12, SeqEqual
<1>14. Head(q) = Head(msgs).headers
  <2>1. 1 \in 1..n + 1
    BY <1>5
  <2> QED
    BY <1>4, <1>6, <1>10, <2>1
<1> QED
  BY <1>8, <1>9, <1>13, <1>14

LEMMA HeadersOne ==
  ASSUME NEW m
  PROVE  HeadersOf(<<m>>) # <<>> /\ Front(HeadersOf(<<m>>)) = <<>>
         /\ Last(HeadersOf(<<m>>)) = m.headers /\ Head(HeadersOf(<<m>>)) = m.headers
         /\ Tail(HeadersOf(<<m>>)) = <<>>
<1>1. PICK h : h = m.headers
  OBVIOUS
<1>2. HeadersOf(<<m>>) = <<h>>
  <2>1. DOMAIN <<m>> = 1..1 /\ <<m>>[1] = m
    OBVIOUS
  <2>2. PICK q : q = [i \in 1..1 |-> <<m>>[i].headers]
    OBVIOUS
  <2>3. q = HeadersOf(<<m>>)
    BY <2>1, <2>2 DEF HeadersOf
  <2>4. q \in [1..1 -> {h}]
    BY <1>1, <2>1, <2>2
  <2>5. q \in Seq({h}) /\ Len(q) = 1
    <3>1. 1 \in Nat
      OBVIOUS
    <3> QED
      BY <2>4, <3>1, FunctionIsSeq
  <2>6. q[1] = h
    BY <2>4
  <2>7. <<h>> \in Seq({h}) /\ Len(<<h>>) = 1 /\ <<h>>[1] = h
    OBVIOUS
  <2>8. q = <<h>>
    BY <2>5, <2>6, <2>7, SeqEqual
  <2> QED
    BY <2>3, <2>8
<1>3. PICK w : w = <<h>>
  OBVIOUS
<1>4. Len(w) = 1 /\ w[1] = h /\ Head(w) = h /\ Tail(w) = <<>> /\ w # <<>>
  BY <1>3
<1>5. Front(w) = <<>>
  BY <1>3, <1>4 DEF Front
<1>6. Last(w) = h
  BY <1>4 DEF Last
<1>7. HeadersOf(<<m>>) = w
  BY <1>2, <1>3
<1> QED
  BY <1>1, <1>4, <1>5, <1>6, <1>7

Still == UNCHANGED <<HeadersOf(up), srv.request, Broken>>

LEMMA RequestsBreak ==
  ASSUME Drop, srv'.request = srv.request
  PROVE  Requests!Break
<1>1. pc' = "dropped" /\ up' = <<>>
  BY DEF Drop
<1>2. HeadersOf(up') = <<>>
  BY <1>1, HeadersEmpty
<1>3. Broken' = "broken"
  BY <1>1 DEF Broken
<1> QED
  BY <1>2, <1>3 DEF Requests!Break

LEMMA RequestsStep ==
  ASSUME IInv, Next
  PROVE  Requests!Next \/ Still
<1>1. ASSUME NEW headers \in RequestLists, NEW has_body \in BOOLEAN,
             send_request(headers, has_body)
      PROVE  Requests!Send
  <2>1. PICK m : m = [block |-> encode(enc, headers).block, headers |-> headers]
    OBVIOUS
  <2>2. pc = "idle" /\ pc' # "dropped" /\ up' = <<m>> /\ srv' = srv
    BY <1>1, <2>1 DEF send_request
  <2>3. up = <<>>
    BY <2>2 DEF IInv, OneAtATime
  <2>4. m.headers \in Seq(Fields)
    BY <2>1, ListsAre
  <2>5. HeadersOf(up) = <<>>
    BY <2>3, HeadersEmpty
  <2>6. /\ HeadersOf(up') # <<>> /\ Front(HeadersOf(up')) = HeadersOf(up)
        /\ Last(HeadersOf(up')) \in Seq(Fields)
    BY <2>2, <2>4, <2>5, HeadersOne
  <2>7. Broken = "intact" /\ Broken' = Broken
    BY <2>2 DEF Broken
  <2> QED
    BY <2>2, <2>6, <2>7 DEF Requests!Send, Requests!Front, Requests!Last, Front, Last
<1>2. ASSUME SrvRequest
      PROVE  Requests!Arrive \/ Requests!Break
  <2>1. up # <<>>
    BY <1>2 DEF SrvRequest
  <2>2. PICK d : d = PeerDecode(srv.dec, Head(up).block)
    OBVIOUS
  <2>3. srv \in Server
    BY DEF IInv, Typed
  <2>4. CASE ~d.ok
    <3>1. Drop /\ srv' = [srv EXCEPT !.dec = d.table, !.refused = TRUE]
      BY <1>2, <2>2, <2>4 DEF SrvRequest
    <3>2. srv'.request = srv.request
      BY <2>3, <3>1 DEF Server
    <3> QED
      BY <3>1, <3>2, RequestsBreak
  <2>5. CASE d.ok
    <3>1. /\ srv' = [srv EXCEPT !.dec = d.table, !.request = d.headers, !.answers = TRUE]
          /\ up' = Tail(up) /\ pc' = pc
      BY <1>2, <2>2, <2>5 DEF SrvRequest
    <3>2. srv'.request = d.headers
      BY <2>3, <3>1 DEF Server
    <3>3. PICK m : m = Head(up)
      OBVIOUS
    <3>4. m.headers \in Seq(Fields) /\ Tail(up) = <<>> /\ d.headers = m.headers
      BY <2>1, <2>2, <2>5, <3>3, RequestedRead DEF PeerGaveUp
    <3>5. up = <<m>>
      <4>1. PICK t \in SoundTables, headers \in Seq(Fields) : Requested(t, headers)
        BY <2>1 DEF IInv, ServerFollows
      <4>2. PICK x : up = <<x>>
        BY <4>1 DEF Requested
      <4> QED
        BY <3>3, <4>2
    <3>6. HeadersOf(up) # <<>> /\ Head(HeadersOf(up)) = m.headers /\ Tail(HeadersOf(up)) = <<>>
      BY <3>5, HeadersOne
    <3>7. HeadersOf(up') = <<>>
      BY <3>1, <3>4, HeadersEmpty
    <3>8. m.headers # Garbage
      BY <3>4, ListsAssumption
    <3>9. Broken = "intact" /\ Broken' = Broken
      <4>1. pc # "dropped"
        BY <2>1 DEF IInv, OneAtATime
      <4> QED
        BY <3>1, <4>1 DEF Broken
    <3>10. Requests!Arrive
      BY <3>2, <3>4, <3>6, <3>7, <3>8, <3>9 DEF Requests!Arrive
    <3> QED
      BY <3>10
  <2> QED
    BY <2>4, <2>5
<1>3. ASSUME ReadHeaders
      PROVE  Requests!Break \/ Still
  <2>1. CASE decode(dec, Head(down).block).ok
    <3>1. up' = up /\ srv' = srv /\ pc = "response" /\ pc' # "dropped"
      BY <1>3, <2>1 DEF ReadHeaders
    <3> QED
      BY <3>1 DEF Still, Broken
  <2>2. CASE ~decode(dec, Head(down).block).ok
    <3>1. Drop /\ srv' = srv
      BY <1>3, <2>2 DEF ReadHeaders
    <3> QED
      BY <3>1, RequestsBreak
  <2> QED
    BY <2>1, <2>2
<1>4. ASSUME Timeout
      PROVE  Requests!Break
  <2>1. Drop /\ srv' = srv
    BY <1>4 DEF Timeout
  <2> QED
    BY <2>1, RequestsBreak
<1>5. CASE handle_frame
  BY <1>5 DEF handle_frame, Still, Broken
<1>6. CASE UploadDone
  BY <1>6 DEF UploadDone, Still, Broken
<1>7. CASE Rest
  BY <1>7 DEF Rest, vars, Still, Broken
<1>8. ASSUME NEW headers \in ResponseLists, NEW end \in BOOLEAN, SrvResponse(headers, end)
      PROVE  Still
  <2>1. PICK t, b : srv' = [srv EXCEPT !.enc = t, !.answers = ~end, !.blocks = b]
    BY <1>8 DEF SrvResponse
  <2>2. srv'.request = srv.request
    BY <2>1 DEF IInv, Typed, Server
  <2> QED
    BY <1>8, <2>2 DEF SrvResponse, Still, Broken
<1>9. ASSUME NEW block \in Malformed, SrvGarbage(block)
      PROVE  Still
  <2>1. srv'.request = srv.request
    BY <1>9 DEF SrvGarbage, IInv, Typed, Server
  <2> QED
    BY <1>9, <2>1 DEF SrvGarbage, Still, Broken
<1> QED
  BY <1>1, <1>2, <1>3, <1>4, <1>5, <1>6, <1>7, <1>8, <1>9 DEF Next, Requests!Next

LEMMA RequestsInit == Init => Requests!Init
<1> SUFFICES ASSUME Init PROVE Requests!Init
  OBVIOUS
<1>1. up = <<>> /\ pc = "idle" /\ srv.request = <<>>
  BY DEF Init
<1> QED
  BY <1>1, HeadersEmpty DEF Requests!Init, Broken

(* Requests reach the server as the caller gave them, or the connection     *)
(* breaks: every step of the system is one of the channel, or none.         *)
THEOREM RequestsRefine == Spec => RequestsArrive
<1>1. IInv /\ [Next]_vars => [Requests!Next]_<<HeadersOf(up), srv.request, Broken>>
  <2> SUFFICES ASSUME IInv, [Next]_vars
               PROVE  Requests!Next \/ Still
    BY DEF Still
  <2>1. CASE Next
    BY <2>1, RequestsStep
  <2>2. CASE UNCHANGED vars
    BY <2>2 DEF vars, Still, Broken
  <2> QED
    BY <2>1, <2>2
<1> QED
  BY <1>1, RequestsInit, Inductive, PTL DEF Spec, RequestsArrive, Requests!Spec, Requests!chan

Skewed == IF Broken = "intact" /\ skipped THEN "skewed" ELSE Broken
Unheard == UNCHANGED <<HeadersOf(down), resp_headers, Skewed>>

LEMMA ResponsesBreak ==
  ASSUME Drop
  PROVE  Responses!Break
<1>1. pc' = "dropped" /\ down' = <<>> /\ resp_headers' = resp_headers
  BY DEF Drop
<1>2. HeadersOf(down') = <<>>
  BY <1>1, HeadersEmpty
<1>3. Broken' = "broken"
  BY <1>1 DEF Broken
<1> QED
  BY <1>1, <1>2, <1>3 DEF Responses!Break

LEMMA ResponsesSend ==
  ASSUME NEW m \in Message, down \in Seq(Message), down' = Append(down, m), pc # "dropped",
         UNCHANGED <<pc, resp_headers, skipped>>
  PROVE  Responses!Send
<1>1. HeadersOf(down') # <<>> /\ Front(HeadersOf(down')) = HeadersOf(down)
      /\ Last(HeadersOf(down')) = m.headers
  BY HeadersAppend
<1>2. m.headers = Garbage \/ m.headers \in Seq(Fields)
  BY DEF Message
<1>3. Skewed # "broken" /\ Skewed' = Skewed
  BY DEF Skewed, Broken
<1> QED
  BY <1>1, <1>2, <1>3
     DEF Responses!Send, Responses!Front, Responses!Last, Front, Last, Skewed

LEMMA ResponsesStep ==
  ASSUME IInv, Next
  PROVE  Responses!Next \/ Unheard
<1>1. down \in Seq(Message)
  BY DEF IInv, Typed
<1>2. ASSUME NEW headers \in RequestLists, NEW has_body \in BOOLEAN,
             send_request(headers, has_body)
      PROVE  Unheard
  <2>1. pc = "idle" /\ pc' # "dropped" /\ down' = down /\ resp_headers' = resp_headers
        /\ skipped' = skipped
    BY <1>2 DEF send_request
  <2> QED
    BY <2>1 DEF Unheard, Skewed, Broken
<1>3. ASSUME SrvRequest
      PROVE  Responses!Break \/ Unheard
  <2>1. PICK d : d = PeerDecode(srv.dec, Head(up).block)
    OBVIOUS
  <2>2. CASE d.ok
    BY <1>3, <2>1, <2>2 DEF SrvRequest, Unheard, Skewed, Broken
  <2>3. CASE ~d.ok
    <3>1. Drop
      BY <1>3, <2>1, <2>3 DEF SrvRequest
    <3> QED
      BY <3>1, ResponsesBreak
  <2> QED
    BY <2>2, <2>3
<1>4. ASSUME ReadHeaders
      PROVE  Responses!Arrive \/ Responses!Break
  <2>1. down # <<>> /\ pc = "response"
    BY <1>4 DEF ReadHeaders
  <2>2. PICK m : m = Head(down)
    OBVIOUS
  <2>3. PICK r : r = decode(dec, m.block)
    OBVIOUS
  <2>4. CASE ~r.ok
    <3>1. Drop
      BY <1>4, <2>2, <2>3, <2>4 DEF ReadHeaders
    <3> QED
      BY <3>1, ResponsesBreak
  <2>5. CASE r.ok
    <3>1. /\ resp_headers' = r.headers /\ down' = Tail(down) /\ skipped' = skipped
          /\ pc' # "dropped"
      BY <1>4, <2>2, <2>3, <2>5 DEF ReadHeaders
    <3>2. PICK tables : Between(tables, down, srv.enc) /\ (~skipped => Covers(dec, tables[1]))
      BY <2>1 DEF IInv, DecoderCovers
    <3>3. PICK p, q : p = tables[1] /\ q = tables[2]
      OBVIOUS
    <3>4. Said(m, p, q) /\ p \in PeerTables /\ p.max <= TableSize
      BY <1>1, <2>1, <2>2, <3>2, <3>3, TailBetween
    <3>5. PICK sure : sure = ~skipped
      OBVIOUS
    <3>6. dec \in SoundTables /\ dec.max_size <= TableSize
      BY DEF IInv, Typed
    <3>7. /\ r.headers \in Seq(Fields) /\ m.headers \in Seq(Fields)
          /\ sure => r.headers = m.headers
      <4>1. sure => Covers(dec, p)
        BY <3>2, <3>3, <3>5
      <4>2. /\ r.table \in SoundTables /\ r.table.max_size <= TableSize
            /\ r.headers \in Seq(Fields) /\ m.headers \in Seq(Fields)
            /\ sure => r.headers = m.headers /\ Covers(r.table, q)
        BY <2>3, <2>5, <3>4, <3>6, <4>1, SaidRead
      <4> QED
        BY <4>2
    <3>8. m.headers # Garbage
      BY <3>7, ListsAssumption
    <3>9. /\ HeadersOf(down) # <<>> /\ Head(HeadersOf(down)) = m.headers
          /\ HeadersOf(down') = Tail(HeadersOf(down))
      BY <1>1, <2>1, <2>2, <3>1, HeadersTail
    <3>10. Skewed # "broken" /\ Skewed' = Skewed /\ (Skewed = "intact" => ~skipped)
      BY <2>1, <3>1 DEF Skewed, Broken
    <3>11. Responses!Arrive
      BY <3>1, <3>5, <3>7, <3>8, <3>9, <3>10 DEF Responses!Arrive, Skewed
    <3> QED
      BY <3>11
  <2> QED
    BY <2>4, <2>5
<1>5. ASSUME Timeout
      PROVE  Responses!Break
  BY <1>5, ResponsesBreak DEF Timeout
<1>6. ASSUME handle_frame
      PROVE  Responses!Skip
  <2>1. /\ pc = "upload" /\ pc' = pc /\ down # <<>> /\ down' = Tail(down) /\ skipped' = TRUE
        /\ resp_headers' = resp_headers
    BY <1>6 DEF handle_frame
  <2>2. HeadersOf(down) # <<>> /\ HeadersOf(down') = Tail(HeadersOf(down))
    BY <1>1, <2>1, HeadersTail
  <2>3. Skewed # "broken" /\ Skewed' = "skewed"
    BY <2>1 DEF Skewed, Broken
  <2> QED
    BY <2>1, <2>2, <2>3 DEF Responses!Skip, Skewed
<1>7. CASE UploadDone
  BY <1>7 DEF UploadDone, Unheard, Skewed, Broken
<1>8. CASE Rest
  BY <1>8 DEF Rest, vars, Unheard, Skewed, Broken
<1>9. ASSUME NEW headers \in ResponseLists, NEW end \in BOOLEAN, SrvResponse(headers, end)
      PROVE  Responses!Send
  <2>1. headers \in Seq(Fields)
    BY ListsAre
  <2>2. PICK start \in Starts(srv.enc) :
           \E e \in PeerEncode({start}, headers) :
              down' = Append(down, [block |-> e.block, headers |-> headers, end |-> end])
    BY <1>9 DEF SrvResponse, Starts
  <2>3. PICK e \in PeerEncode({start}, headers) :
           down' = Append(down, [block |-> e.block, headers |-> headers, end |-> end])
    BY <2>2
  <2>4. e.block \in Seq(Tokens)
    BY <2>1, EncodedPart DEF IsPart
  <2>5. PICK m : m = [block |-> e.block, headers |-> headers, end |-> end]
    OBVIOUS
  <2>6. m \in Message
    BY <2>1, <2>4, <2>5 DEF Message
  <2>7. pc # "dropped" /\ UNCHANGED <<pc, resp_headers, skipped>>
    BY <1>9 DEF SrvResponse, Answering
  <2> QED
    BY <1>1, <2>3, <2>5, <2>6, <2>7, ResponsesSend
<1>10. ASSUME NEW block \in Malformed, SrvGarbage(block)
       PROVE  Responses!Send
  <2>1. PICK m : m = [block |-> block, headers |-> Garbage, end |-> TRUE]
    OBVIOUS
  <2>2. m \in Message
    BY <2>1 DEF Message
  <2>3. down' = Append(down, m)
    BY <1>10, <2>1 DEF SrvGarbage
  <2>4. pc # "dropped" /\ UNCHANGED <<pc, resp_headers, skipped>>
    BY <1>10 DEF SrvGarbage, Answering
  <2> QED
    BY <1>1, <2>2, <2>3, <2>4, ResponsesSend
<1> QED
  BY <1>2, <1>3, <1>4, <1>5, <1>6, <1>7, <1>8, <1>9, <1>10 DEF Next, Responses!Next

LEMMA ResponsesInit == Init => Responses!Init
<1> SUFFICES ASSUME Init PROVE Responses!Init
  OBVIOUS
<1>1. down = <<>> /\ pc = "idle" /\ resp_headers = <<>> /\ skipped = FALSE
  BY DEF Init
<1>2. Skewed = "intact"
  BY <1>1 DEF Skewed, Broken
<1> QED
  BY <1>1, <1>2, HeadersEmpty DEF Responses!Init, Skewed

(* Response headers are decoded to what the server sent, or the connection  *)
(* breaks, until handle_frame drops a block undecoded.                      *)
THEOREM ResponsesRefine == Spec => ResponsesArrive
<1>1. IInv /\ [Next]_vars => [Responses!Next]_<<HeadersOf(down), resp_headers, Skewed>>
  <2> SUFFICES ASSUME IInv, [Next]_vars
               PROVE  Responses!Next \/ Unheard
    BY DEF Unheard
  <2>1. CASE Next
    BY <2>1, ResponsesStep
  <2>2. CASE UNCHANGED vars
    BY <2>2 DEF vars, Unheard, Skewed, Broken
  <2> QED
    BY <2>1, <2>2
<1>2. Init => Responses!Init
  BY ResponsesInit
<1> QED
  BY <1>1, <1>2, Inductive, PTL DEF Spec, ResponsesArrive, Responses!Spec, Responses!chan, Skewed

=============================================================================
