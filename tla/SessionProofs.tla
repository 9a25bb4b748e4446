--------------------------- MODULE SessionProofs ---------------------------
(***************************************************************************)
(* The cookies and headers that concurrent calls send, for any number of   *)
(* calls, any URLs, lines and headers.                                     *)
(***************************************************************************)
EXTENDS Session, SequenceTheorems, WellFoundedInduction, TLAPS

-----------------------------------------------------------------------------
(* Counting up *)

(* A set of naturals that is not empty has a least element. *)
LEMMA LeastIn ==
  ASSUME NEW T, T \subseteq Nat, T # {}
  PROVE  \E x \in T : \A y \in T : x <= y
<1> DEFINE R == OpToRel(<, Nat)
<1>1. \A x, y \in Nat : <<y, x>> \in R <=> y < x
  BY DEF OpToRel
<1>2. IsWellFoundedOn(R, Nat)
  BY NatLessThanWellFounded
<1> HIDE DEF R
<1>3. \E x \in T : \A y \in T : ~(<<y, x>> \in R)
  BY <1>2, WFMin
<1>4. \A x, y \in Nat : ~(y < x) => x <= y
  OBVIOUS
<1> QED
  BY <1>1, <1>3, <1>4

LEMMA GreatestIn ==
  ASSUME NEW n \in Nat, NEW S, S \subseteq 0..n, S # {}
  PROVE  \E x \in S : \A y \in S : x >= y
<1> DEFINE T == {k \in 0..n : \A i \in S : i <= k}
<1>1. T \subseteq Nat /\ n \in T
  OBVIOUS
<1>2. PICK k \in T : \A j \in T : k <= j
  BY <1>1, LeastIn
<1>3. k \in 0..n /\ \A i \in S : i <= k
  OBVIOUS
<1>4. ASSUME k \notin S
      PROVE  FALSE
  <2>1. \A i \in S : i \in Nat /\ i # k /\ i <= k
    BY <1>3, <1>4
  <2>2. \E i \in S : i \in Nat
    BY <2>1
  <2>3. k # 0 /\ k - 1 \in 0..n /\ ~(k <= k - 1)
    BY <1>3, <2>1, <2>2
  <2>4. \A i \in S : i <= k - 1
    BY <1>3, <2>1
  <2>5. k - 1 \in T
    BY <2>3, <2>4
  <2> HIDE DEF T
  <2> QED
    BY <1>2, <2>3, <2>5
<1> QED
  BY <1>3, <1>4

(* What holds of 0, and of n + 1 if of n, holds up to any bound. *)
LEMMA CountUp ==
  ASSUME NEW S, S \subseteq Nat, 0 \in S, NEW top \in Nat,
         \A n \in Nat : n \in S /\ n < top => n + 1 \in S
  PROVE  top \in S
<1> SUFFICES ASSUME top \notin S
             PROVE  FALSE
  OBVIOUS
<1> DEFINE T == {n \in 0..top : n \notin S}
<1>1. T \subseteq Nat /\ T # {}
  OBVIOUS
<1>2. PICK m \in T : \A n \in T : m <= n
  BY <1>1, LeastIn
<1>3. m \in Nat /\ m # 0 /\ m <= top /\ m \notin S
  OBVIOUS
<1>4. m - 1 \in Nat /\ m - 1 < top /\ m - 1 \in 0..top /\ ~(m <= m - 1) /\ (m - 1) + 1 = m
  BY <1>3
<1>5. m - 1 \in S
  BY <1>2, <1>4
<1> QED
  BY <1>3, <1>4, <1>5

-----------------------------------------------------------------------------
(* Entries of a sequence *)

LEMMA Entries ==
  ASSUME NEW S, NEW s \in Seq(S)
  PROVE  /\ Len(s) \in Nat /\ DOMAIN s = 1..Len(s) /\ ToSet(s) \subseteq S
         /\ s \in Seq(ToSet(s))
<1>1. Len(s) \in Nat /\ DOMAIN s = 1..Len(s) /\ \A i \in 1..Len(s) : s[i] \in S
  BY LenProperties, ElementOfSeq
<1>2. s \in [1..Len(s) -> S]
  BY SeqDef, LenProperties
<1>3. s = [i \in 1..Len(s) |-> s[i]]
  BY <1>2
<1>4. \A i \in 1..Len(s) : s[i] \in ToSet(s)
  BY <1>1 DEF ToSet
<1>5. s \in [1..Len(s) -> ToSet(s)]
  BY <1>3, <1>4
<1>6. s \in Seq(ToSet(s))
  BY <1>1, <1>5, SeqDef
<1> QED
  BY <1>1, <1>6 DEF ToSet

LEMMA OneEntry ==
  ASSUME NEW S, NEW x \in S
  PROVE  <<x>> \in Seq(S) /\ ToSet(<<x>>) = {x}
<1> DEFINE s == <<x>>
<1>1. s \in Seq(S) /\ Len(s) = 1 /\ s[1] = x
  OBVIOUS
<1> HIDE DEF s
<1>2. DOMAIN s = 1..1
  BY <1>1, LenProperties
<1>3. ToSet(s) = {x}
  BY <1>1, <1>2 DEF ToSet
<1> QED
  BY <1>1, <1>3 DEF s

LEMMA AppendEntries ==
  ASSUME NEW S, NEW s \in Seq(S), NEW x
  PROVE  /\ Append(s, x) \in Seq(S \cup {x}) /\ Len(Append(s, x)) = Len(s) + 1
         /\ \A i \in 1..Len(s) : Append(s, x)[i] = s[i]
         /\ Append(s, x)[Len(s) + 1] = x
<1>1. s \in Seq(S \cup {x})
  BY Entries, SeqDef
<1> QED
  BY <1>1, AppendProperties

LEMMA AppendedSeq ==
  ASSUME NEW S, NEW s \in Seq(S), NEW x
  PROVE  Append(s, x) \in Seq(S \cup {x})
BY AppendEntries, Zenon

LEMMA AppendedSet ==
  ASSUME NEW S, NEW s \in Seq(S), NEW x
  PROVE  ToSet(Append(s, x)) = ToSet(s) \cup {x}
<1> DEFINE a == Append(s, x)
<1>1. /\ a \in Seq(S \cup {x}) /\ Len(a) = Len(s) + 1
      /\ \A i \in 1..Len(s) : a[i] = s[i]
      /\ a[Len(s) + 1] = x
  BY AppendEntries
<1>2. Len(s) \in Nat /\ DOMAIN s = 1..Len(s) /\ DOMAIN a = 1..Len(s) + 1
  BY <1>1, Entries
<1> HIDE DEF a
<1>3. \A i \in 1..Len(s) + 1 : i \in 1..Len(s) \/ i = Len(s) + 1
  BY <1>2
<1>4. \A i \in 1..Len(s) : i \in 1..Len(s) + 1
  BY <1>2
<1>5. Len(s) + 1 \in 1..Len(s) + 1
  BY <1>2
<1>6. ToSet(a) = ToSet(s) \cup {x}
  BY <1>1, <1>2, <1>3, <1>4, <1>5 DEF ToSet
<1> QED
  BY <1>6 DEF a

(* No two entries have the same key. *)
DistinctKeys(s) == \A i, j \in DOMAIN s : Key(s[i]) = Key(s[j]) => i = j

LEMMA AppendDistinct ==
  ASSUME NEW S, NEW s \in Seq(S), DistinctKeys(s), NEW x,
         \A y \in ToSet(s) : Key(y) # Key(x)
  PROVE  DistinctKeys(Append(s, x))
<1> DEFINE a == Append(s, x)
           n == Len(s)
<1>1. /\ \A i \in 1..n : a[i] = s[i]
      /\ a[n + 1] = x /\ Len(a) = n + 1 /\ a \in Seq(S \cup {x})
  BY AppendEntries
<1>2. n \in Nat /\ DOMAIN s = 1..n /\ DOMAIN a = 1..n + 1
  BY <1>1, Entries
<1> HIDE DEF a, n
<1>3. \A i \in 1..n + 1 : i \in 1..n \/ i = n + 1
  BY <1>2
<1>4. \A i \in 1..n : s[i] \in ToSet(s)
  BY <1>2 DEF ToSet
<1>5. \A i \in 1..n : Key(a[i]) # Key(a[n + 1])
  BY <1>1, <1>4
<1>6. \A i, j \in 1..n : Key(a[i]) = Key(a[j]) => i = j
  BY <1>1, <1>2 DEF DistinctKeys
<1>7. DistinctKeys(a)
  BY <1>2, <1>3, <1>5, <1>6 DEF DistinctKeys
<1> QED
  BY <1>7 DEF a

LEMMA ConcatEntries ==
  ASSUME NEW S, NEW s \in Seq(S), NEW t \in Seq(S)
  PROVE  s \o t \in Seq(S) /\ ToSet(s \o t) = ToSet(s) \cup ToSet(t)
<1> DEFINE a == s \o t
<1>1. /\ a \in Seq(S) /\ Len(a) = Len(s) + Len(t)
      /\ \A i \in 1..Len(s) + Len(t) :
            a[i] = IF i <= Len(s) THEN s[i] ELSE t[i - Len(s)]
  BY ConcatProperties
<1>2. /\ Len(s) \in Nat /\ DOMAIN s = 1..Len(s)
      /\ Len(t) \in Nat /\ DOMAIN t = 1..Len(t)
      /\ DOMAIN a = 1..Len(s) + Len(t)
  BY <1>1, Entries
<1> HIDE DEF a
<1>3. \A i \in 1..Len(s) : i \in 1..Len(s) + Len(t) /\ i <= Len(s)
  BY <1>2
<1>4. \A i \in 1..Len(t) : /\ i + Len(s) \in 1..Len(s) + Len(t)
                           /\ ~(i + Len(s) <= Len(s)) /\ (i + Len(s)) - Len(s) = i
  BY <1>2
<1>5. \A i \in 1..Len(t) : a[i + Len(s)] = t[i]
  BY <1>1, <1>4
<1>6. \A i \in 1..Len(s) + Len(t) :
         /\ i <= Len(s) => i \in 1..Len(s)
         /\ ~(i <= Len(s)) => i - Len(s) \in 1..Len(t)
  BY <1>2
<1>7. ToSet(a) \subseteq ToSet(s) \cup ToSet(t)
  BY <1>1, <1>2, <1>6 DEF ToSet
<1>8. ToSet(s) \subseteq ToSet(a)
  BY <1>1, <1>2, <1>3 DEF ToSet
<1>9. ToSet(t) \subseteq ToSet(a)
  <2> SUFFICES ASSUME NEW i \in 1..Len(t)
               PROVE  t[i] \in ToSet(a)
    BY <1>2 DEF ToSet
  <2>1. i + Len(s) \in DOMAIN a /\ a[i + Len(s)] = t[i]
    BY <1>2, <1>4, <1>5
  <2> QED
    BY <2>1 DEF ToSet
<1> QED
  BY <1>1, <1>7, <1>8, <1>9 DEF a

-----------------------------------------------------------------------------
(* Retained *)

Course(f, s, positions, n) ==
    f = [k \in 0..n |-> IF k = 0 THEN <<>>
                        ELSE IF k \in positions THEN Append(f[k - 1], s[k])
                        ELSE f[k - 1]]

Turned(t, s, positions, k) == IF k \in positions THEN Append(t, s[k]) ELSE t

LEMMA CourseStep ==
  ASSUME NEW s, NEW positions, NEW n \in Nat, NEW f, Course(f, s, positions, n)
  PROVE  \E g : Course(g, s, positions, n + 1)
<1> DEFINE T(t, k) == Turned(t, s, positions, k)
           g == [k \in 0..n + 1 |-> IF k <= n THEN f[k] ELSE T(f[n], k)]
<1>1. \A k \in 0..n : f[k] = IF k = 0 THEN <<>> ELSE T(f[k - 1], k)
  BY DEF Course, Turned
<1> HIDE DEF T
<1>2. \A k \in 0..n + 1 : g[k] = IF k = 0 THEN <<>> ELSE T(g[k - 1], k)
  <2> TAKE k \in 0..n + 1
  <2>1. CASE k = 0
    BY <1>1, <2>1
  <2>2. CASE k # 0 /\ k <= n
    <3>1. k - 1 \in 0..n + 1 /\ k - 1 <= n /\ k \in 0..n
      BY <2>2
    <3>2. g[k - 1] = f[k - 1] /\ g[k] = f[k]
      BY <2>2, <3>1
    <3> QED
      BY <1>1, <2>2, <3>1, <3>2
  <2>3. CASE ~(k <= n)
    <3>1. k = n + 1 /\ k - 1 = n /\ n \in 0..n + 1 /\ k # 0
      BY <2>3
    <3>2. g[n] = f[n] /\ g[k] = T(f[n], k)
      BY <2>3, <3>1
    <3> QED
      BY <3>1, <3>2
  <2> QED
    BY <2>1, <2>2, <2>3
<1>3. g = [k \in 0..n + 1 |-> g[k]]
  OBVIOUS
<1> HIDE DEF g
<1>4. g = [k \in 0..n + 1 |-> IF k = 0 THEN <<>> ELSE T(g[k - 1], k)]
  BY <1>2, <1>3
<1>5. Course(g, s, positions, n + 1)
  BY <1>4 DEF Course, T, Turned
<1> QED
  BY <1>5

LEMMA RetainedIs ==
  ASSUME NEW s, Len(s) \in Nat, NEW positions
  PROVE  \E f : Course(f, s, positions, Len(s)) /\ Retained(s, positions) = f[Len(s)]
<1> DEFINE S == {m \in Nat : \E f : Course(f, s, positions, m)}
<1>1. 0 \in S
  <2>1. Course([k \in 0..0 |-> <<>>], s, positions, 0)
    BY DEF Course
  <2> QED
    BY <2>1
<1>2. \A m \in Nat : m \in S => m + 1 \in S
  BY CourseStep
<1>3. S \subseteq Nat
  OBVIOUS
<1> HIDE DEF S
<1>4. Len(s) \in S
  BY <1>1, <1>2, <1>3, CountUp
<1>5. Course(CHOOSE f : Course(f, s, positions, Len(s)), s, positions, Len(s))
  BY <1>4 DEF S
<1>6. Retained(s, positions) = (CHOOSE f : Course(f, s, positions, Len(s)))[Len(s)]
  BY DEF Retained, Course
<1> QED
  BY <1>5, <1>6

(* What is retained are the entries at the positions, each once.           *)
LEMMA RetainedEntries ==
  ASSUME NEW S, NEW s \in Seq(S), NEW positions
  PROVE  /\ Retained(s, positions) \in Seq(S)
         /\ ToSet(Retained(s, positions)) = {s[i] : i \in positions \cap DOMAIN s}
         /\ DistinctKeys(s) => DistinctKeys(Retained(s, positions))
<1>1. Len(s) \in Nat /\ DOMAIN s = 1..Len(s) /\ \A i \in 1..Len(s) : s[i] \in S
  BY LenProperties, ElementOfSeq
<1>2. PICK f : /\ Course(f, s, positions, Len(s))
               /\ Retained(s, positions) = f[Len(s)]
  BY <1>1, RetainedIs
<1>3. \A k \in 0..Len(s) :
         f[k] = IF k = 0 THEN <<>> ELSE Turned(f[k - 1], s, positions, k)
  BY <1>2 DEF Course, Turned
<1> DEFINE G == {k \in 0..Len(s) : /\ f[k] \in Seq(S)
                                   /\ ToSet(f[k]) = {s[i] : i \in positions \cap (1..k)}
                                   /\ DistinctKeys(s) => DistinctKeys(f[k])}
<1>4. 0 \in G
  <2>1. f[0] = <<>> /\ 0 \in 0..Len(s)
    BY <1>1, <1>3
  <2>2. /\ <<>> \in Seq(S) /\ ToSet(<<>>) = {} /\ positions \cap (1..0) = {}
        /\ DistinctKeys(<<>>)
    BY EmptySeq DEF ToSet, DistinctKeys
  <2> QED
    BY <2>1, <2>2
<1>5. \A k \in Nat : k \in G /\ k < Len(s) => k + 1 \in G
  <2> SUFFICES ASSUME NEW k \in Nat, k \in G, k < Len(s)
               PROVE  k + 1 \in G
    OBVIOUS
  <2>1. /\ k + 1 \in 0..Len(s) /\ k + 1 # 0 /\ (k + 1) - 1 = k /\ k + 1 \in 1..Len(s)
        /\ 1..k + 1 = (1..k) \cup {k + 1}
    BY <1>1
  <2>2. f[k + 1] = Turned(f[k], s, positions, k + 1) /\ s[k + 1] \in S
    BY <1>1, <1>3, <2>1
  <2>3. f[k] \in Seq(S) /\ ToSet(f[k]) = {s[i] : i \in positions \cap (1..k)}
    OBVIOUS
  <2>4. CASE k + 1 \in positions
    <3>1. f[k + 1] = Append(f[k], s[k + 1])
      BY <2>2, <2>4 DEF Turned
    <3>2. f[k + 1] \in Seq(S) /\ ToSet(f[k + 1]) = ToSet(f[k]) \cup {s[k + 1]}
      <4>1. ToSet(Append(f[k], s[k + 1])) = ToSet(f[k]) \cup {s[k + 1]}
        BY <2>3, AppendedSet
      <4>2. Append(f[k], s[k + 1]) \in Seq(S)
        BY <2>2, <2>3, AppendProperties
      <4> QED
        BY <3>1, <4>1, <4>2
    <3>3. ToSet(f[k + 1]) = {s[i] : i \in positions \cap (1..k + 1)}
      BY <2>1, <2>3, <2>4, <3>2
    <3>4. ASSUME DistinctKeys(s)
          PROVE  DistinctKeys(f[k + 1])
      <4>1. \A i \in positions \cap (1..k) : i \in DOMAIN s /\ k + 1 \in DOMAIN s /\ i # k + 1
        BY <1>1, <2>1
      <4>2. \A y \in ToSet(f[k]) : Key(y) # Key(s[k + 1])
        BY <2>3, <3>4, <4>1 DEF DistinctKeys
      <4>3. DistinctKeys(f[k])
        BY <3>4
      <4> QED
        BY <2>3, <3>1, <4>2, <4>3, AppendDistinct
    <3> QED
      BY <2>1, <3>2, <3>3, <3>4
  <2>5. CASE k + 1 \notin positions
    <3>1. f[k + 1] = f[k]
      BY <2>2, <2>5 DEF Turned
    <3>2. positions \cap (1..k + 1) = positions \cap (1..k)
      BY <2>1, <2>5
    <3> QED
      BY <2>1, <2>3, <3>1, <3>2
  <2> QED
    BY <2>4, <2>5
<1>6. G \subseteq Nat
  OBVIOUS
<1> HIDE DEF G
<1>7. Len(s) \in G
  BY <1>1, <1>4, <1>5, <1>6, CountUp
<1> QED
  BY <1>1, <1>2, <1>7 DEF G

-----------------------------------------------------------------------------
(* Headers *)

Names == STRING \cup {"sec-ch-ua", "cookie"}
HeaderSet == [name: Names, from: {"profile", "jar", "default", "user"}]

(* What the edits of default_headers and the caller supply. *)
Sources ==
    /\ user \in Seq(HeaderFrom("user"))
    /\ default_headers \in Seq(HeaderFrom("default"))

EditSet == [edit: {"insert", "append"}, header: HeaderFrom("default")]

Edited(map, e) ==
    IF e.edit = "insert" THEN insert(map, e.header) ELSE append(map, e.header)

Edits(f, edits, n) ==
    f = [k \in 0..n |-> IF k = 0 THEN <<>>
                        ELSE IF edits[k].edit = "insert"
                             THEN insert(f[k - 1], edits[k].header)
                        ELSE append(f[k - 1], edits[k].header)]

LEMMA EditsStep ==
  ASSUME NEW edits, NEW n \in Nat, NEW f, Edits(f, edits, n)
  PROVE  \E g : Edits(g, edits, n + 1)
<1> DEFINE T(t, k) == Edited(t, edits[k])
           g == [k \in 0..n + 1 |-> IF k <= n THEN f[k] ELSE T(f[n], k)]
<1>1. \A k \in 0..n : f[k] = IF k = 0 THEN <<>> ELSE T(f[k - 1], k)
  BY DEF Edits, Edited
<1> HIDE DEF T
<1>2. \A k \in 0..n + 1 : g[k] = IF k = 0 THEN <<>> ELSE T(g[k - 1], k)
  <2> TAKE k \in 0..n + 1
  <2>1. CASE k = 0
    BY <1>1, <2>1
  <2>2. CASE k # 0 /\ k <= n
    <3>1. k - 1 \in 0..n + 1 /\ k - 1 <= n /\ k \in 0..n
      BY <2>2
    <3>2. g[k - 1] = f[k - 1] /\ g[k] = f[k]
      BY <2>2, <3>1
    <3> QED
      BY <1>1, <2>2, <3>1, <3>2
  <2>3. CASE ~(k <= n)
    <3>1. k = n + 1 /\ k - 1 = n /\ n \in 0..n + 1 /\ k # 0
      BY <2>3
    <3>2. g[n] = f[n] /\ g[k] = T(f[n], k)
      BY <2>3, <3>1
    <3> QED
      BY <3>1, <3>2
  <2> QED
    BY <2>1, <2>2, <2>3
<1>3. g = [k \in 0..n + 1 |-> g[k]]
  OBVIOUS
<1> HIDE DEF g
<1>4. g = [k \in 0..n + 1 |-> IF k = 0 THEN <<>> ELSE T(g[k - 1], k)]
  BY <1>2, <1>3
<1>5. Edits(g, edits, n + 1)
  BY <1>4 DEF Edits, T, Edited
<1> QED
  BY <1>5

LEMMA BuiltIs ==
  ASSUME NEW edits, Len(edits) \in Nat
  PROVE  \E f : Edits(f, edits, Len(edits)) /\ Built(edits) = f[Len(edits)]
<1> DEFINE S == {m \in Nat : \E f : Edits(f, edits, m)}
<1>1. 0 \in S
  <2>1. Edits([k \in 0..0 |-> <<>>], edits, 0)
    BY DEF Edits
  <2> QED
    BY <2>1
<1>2. \A m \in Nat : m \in S => m + 1 \in S
  BY EditsStep
<1>3. S \subseteq Nat
  OBVIOUS
<1> HIDE DEF S
<1>4. Len(edits) \in S
  BY <1>1, <1>2, <1>3, CountUp
<1>5. Edits(CHOOSE f : Edits(f, edits, Len(edits)), edits, Len(edits))
  BY <1>4 DEF S
<1>6. Built(edits) = (CHOOSE f : Edits(f, edits, Len(edits)))[Len(edits)]
  BY DEF Built, Edits
<1> QED
  BY <1>5, <1>6

(* A map that is built of default headers holds nothing else.              *)
LEMMA BuiltHeaders ==
  ASSUME NEW edits \in Seq(EditSet)
  PROVE  Built(edits) \in Seq(HeaderFrom("default"))
<1> DEFINE H == HeaderFrom("default")
<1>1. /\ Len(edits) \in Nat
      /\ \A i \in 1..Len(edits) : edits[i] \in EditSet
  BY LenProperties, ElementOfSeq
<1>2. PICK f : Edits(f, edits, Len(edits)) /\ Built(edits) = f[Len(edits)]
  BY <1>1, BuiltIs
<1>3. \A k \in 0..Len(edits) : f[k] = IF k = 0 THEN <<>> ELSE Edited(f[k - 1], edits[k])
  BY <1>2 DEF Edits, Edited
<1>4. ASSUME NEW map \in Seq(H), NEW e \in EditSet
      PROVE  Edited(map, e) \in Seq(H)
  <2>1. e.header \in H
    BY DEF EditSet
  <2> HIDE DEF H
  <2>2. append(map, e.header) \in Seq(H)
    BY <2>1, AppendProperties DEF append
  <2>3. ASSUME NEW i
        PROVE  [map EXCEPT ![i] = e.header] \in Seq(H)
    <3>1. map \in [1..Len(map) -> H] /\ Len(map) \in Nat
      BY LenProperties
    <3>2. [map EXCEPT ![i] = e.header] \in [1..Len(map) -> H]
      BY <2>1, <3>1
    <3> QED
      BY <3>1, <3>2, SeqDef
  <2>4. insert(map, e.header) \in Seq(H)
    BY <2>2, <2>3 DEF insert, append, ReplaceAt
  <2> QED
    BY <2>2, <2>4 DEF Edited
<1> HIDE DEF H
<1> DEFINE G == {k \in 0..Len(edits) : f[k] \in Seq(H)}
<1>5. 0 \in G
  <2>1. 0 \in 0..Len(edits) /\ f[0] = <<>>
    BY <1>1, <1>3
  <2>2. <<>> \in Seq(H)
    BY EmptySeq
  <2> QED
    BY <2>1, <2>2
<1>6. \A k \in Nat : k \in G /\ k < Len(edits) => k + 1 \in G
  <2> SUFFICES ASSUME NEW k \in Nat, k \in G, k < Len(edits)
               PROVE  k + 1 \in G
    OBVIOUS
  <2>1. k + 1 \in 0..Len(edits) /\ k + 1 # 0 /\ (k + 1) - 1 = k /\ k + 1 \in 1..Len(edits)
    BY <1>1
  <2>2. f[k + 1] = Edited(f[k], edits[k + 1]) /\ edits[k + 1] \in EditSet
    BY <1>1, <1>3, <2>1
  <2> QED
    BY <1>4, <2>1, <2>2
<1>7. G \subseteq Nat
  OBVIOUS
<1> HIDE DEF G
<1>8. Len(edits) \in G
  BY <1>1, <1>5, <1>6, <1>7, CountUp
<1> QED
  BY <1>2, <1>8 DEF G, H

LEMMA FromEntries ==
  ASSUME NEW source \in {"profile", "jar"}, NEW names \in Seq(Names)
  PROVE  /\ From(source, names) \in Seq(HeaderSet)
         /\ \A h : h \in ToSet(From(source, names)) <=>
               h = [name |-> h.name, from |-> source] /\ h.name \in ToSet(names)
<1>1. /\ Len(names) \in Nat /\ DOMAIN names = 1..Len(names)
      /\ \A i \in 1..Len(names) : names[i] \in Names
  BY LenProperties, ElementOfSeq
<1>2. From(source, names) = [i \in 1..Len(names) |-> [name |-> names[i], from |-> source]]
  BY <1>1 DEF From
<1>3. From(source, names) \in [1..Len(names) -> HeaderSet]
  BY <1>1, <1>2 DEF HeaderSet
<1>4. From(source, names) \in Seq(HeaderSet)
  BY <1>1, <1>3, SeqDef
<1>5. ASSUME NEW h
      PROVE  h \in ToSet(From(source, names)) <=>
               h = [name |-> h.name, from |-> source] /\ h.name \in ToSet(names)
  <2>1. h \in ToSet(From(source, names)) <=>
           \E i \in 1..Len(names) : h = [name |-> names[i], from |-> source]
    BY <1>1, <1>2 DEF ToSet
  <2>2. \A i \in 1..Len(names) : h = [name |-> names[i], from |-> source] =>
           h.name = names[i]
    OBVIOUS
  <2>3. h.name \in ToSet(names) <=> \E i \in 1..Len(names) : h.name = names[i]
    BY <1>1 DEF ToSet
  <2> QED
    BY <2>1, <2>2, <2>3
<1> QED
  BY <1>4, <1>5

(* The names that the profile adds: its own unless they are supplied, and   *)
(* sec-ch-ua with the hints unless that is.                                *)
Adds(name) ==
    \/ name \in ToSet(ProfileNames) /\ ~Supplied(name)
    \/ name \in {"sec-ch-ua"} \cup ToSet(Hints) /\ ~Supplied("sec-ch-ua")

LEMMA ProfileEntries ==
  /\ Profile \in Seq(HeaderSet)
  /\ \A h \in ToSet(Profile) : h.from = "profile"
  /\ \A name : (\E h \in ToSet(Profile) : h.name = name) <=> Adds(name)
<1> DEFINE kept == Retained(ProfileNames,
                            {i \in DOMAIN ProfileNames : ~Supplied(ProfileNames[i])})
           one == <<"sec-ch-ua">>
           names == one \o Hints
           P == From("profile", kept)
           C == IF Supplied("sec-ch-ua") THEN <<>> ELSE From("profile", names)
           Of(h, S) == h = [name |-> h.name, from |-> "profile"] /\ h.name \in S
<1>1. ProfileNames \in Seq(Names) /\ Hints \in Seq(Names)
  <2>1. Seq(STRING) \subseteq Seq(Names)
    BY SeqDef DEF Names
  <2> QED
    BY <2>1, SessionAssumption
<1>2. /\ kept \in Seq(Names)
      /\ ToSet(kept) = {ProfileNames[i] :
                           i \in {j \in DOMAIN ProfileNames : ~Supplied(ProfileNames[j])}
                                  \cap DOMAIN ProfileNames}
  BY <1>1, RetainedEntries
<1>3. ToSet(kept) = {n \in ToSet(ProfileNames) : ~Supplied(n)}
  BY <1>2 DEF ToSet
<1>4. one \in Seq(Names) /\ ToSet(one) = {"sec-ch-ua"}
  <2>1. "sec-ch-ua" \in Names
    BY DEF Names
  <2> QED
    BY <2>1, OneEntry
<1> HIDE DEF kept, one
<1>5. names \in Seq(Names) /\ ToSet(names) = {"sec-ch-ua"} \cup ToSet(Hints)
  BY <1>1, <1>4, ConcatEntries
<1> HIDE DEF names
<1>f. ASSUME NEW list \in Seq(Names)
      PROVE  /\ From("profile", list) \in Seq(HeaderSet)
             /\ \A h : h \in ToSet(From("profile", list)) <=> Of(h, ToSet(list))
  BY FromEntries
<1>6. P \in Seq(HeaderSet) /\ \A h : h \in ToSet(P) <=> Of(h, ToSet(kept))
  BY <1>2, <1>f
<1>7. /\ C \in Seq(HeaderSet)
      /\ \A h : h \in ToSet(C) <=> ~Supplied("sec-ch-ua") /\ Of(h, ToSet(names))
  <2>1. /\ From("profile", names) \in Seq(HeaderSet)
        /\ \A h : h \in ToSet(From("profile", names)) <=> Of(h, ToSet(names))
    BY <1>5, <1>f
  <2>2. <<>> \in Seq(HeaderSet) /\ ToSet(<<>>) = {}
    BY EmptySeq DEF ToSet
  <2> QED
    BY <2>1, <2>2
<1>8. Profile = P \o C
  BY DEF Profile, kept, names, one
<1> HIDE DEF P, C
<1>9. Profile \in Seq(HeaderSet) /\ ToSet(Profile) = ToSet(P) \cup ToSet(C)
  BY <1>6, <1>7, <1>8, ConcatEntries
<1>10. \A h : h \in ToSet(Profile) <=>
                \/ Of(h, ToSet(kept))
                \/ (~Supplied("sec-ch-ua") /\ Of(h, ToSet(names)))
  BY <1>6, <1>7, <1>9
<1>11. ASSUME NEW name, Adds(name)
       PROVE  \E h \in ToSet(Profile) : h.name = name
  <2> DEFINE e == [name |-> name, from |-> "profile"]
  <2>1. name \in ToSet(kept) \/ (~Supplied("sec-ch-ua") /\ name \in ToSet(names))
    BY <1>3, <1>5, <1>11 DEF Adds
  <2>2. e.name = name /\ e = [name |-> e.name, from |-> "profile"]
    OBVIOUS
  <2> HIDE DEF e
  <2>3. e \in ToSet(Profile)
    BY <1>10, <2>1, <2>2
  <2> QED
    BY <2>2, <2>3
<1>12. ASSUME NEW h \in ToSet(Profile)
       PROVE  Adds(h.name)
  BY <1>3, <1>5, <1>10 DEF Adds
<1>13. \A h \in ToSet(Profile) : h.from = "profile"
  BY <1>10
<1> QED
  BY <1>9, <1>11, <1>12, <1>13

LEMMA HasEntry ==
  ASSUME NEW headers, NEW name
  PROVE  Has(headers, name) <=> \E h \in ToSet(headers) : h.name = name
BY DEF Has, ToSet

(* The list of a request is the profile's headers, the cookies, the        *)
(* defaults that neither these nor the caller have, and the caller's.      *)
Before(sent) == Profile \o CookieHeader(sent)

Added(headers) ==
    Retained(default_headers,
             {i \in DOMAIN default_headers :
                LET name == default_headers[i].name IN
                /\ ~Has(headers, name) /\ ~Has(user, name)
                /\ \A j \in 1..i - 1 : default_headers[j].name # name})

LEMMA AddedEntries ==
  ASSUME Sources, NEW headers
  PROVE  /\ Added(headers) \in Seq(HeaderFrom("default"))
         /\ \A name : (\E h \in ToSet(Added(headers)) : h.name = name) <=>
               Has(default_headers, name) /\ ~Has(headers, name) /\ ~Has(user, name)
<1> DEFINE I == {i \in DOMAIN default_headers :
                   LET name == default_headers[i].name IN
                   /\ ~Has(headers, name) /\ ~Has(user, name)
                   /\ \A j \in 1..i - 1 : default_headers[j].name # name}
<1>1. default_headers \in Seq(HeaderFrom("default"))
  BY DEF Sources
<1>2. Len(default_headers) \in Nat /\ DOMAIN default_headers = 1..Len(default_headers)
  BY <1>1, LenProperties
<1>3. /\ Added(headers) \in Seq(HeaderFrom("default"))
      /\ ToSet(Added(headers)) = {default_headers[i] : i \in I \cap DOMAIN default_headers}
  BY <1>1, RetainedEntries DEF Added
<1>4. \A i \in I : /\ ~Has(headers, default_headers[i].name)
                   /\ ~Has(user, default_headers[i].name)
                   /\ Has(default_headers, default_headers[i].name)
  BY DEF Has
<1>5. ASSUME NEW name, Has(default_headers, name), ~Has(headers, name), ~Has(user, name)
      PROVE  \E i \in I : default_headers[i].name = name
  <2> DEFINE T == {i \in 1..Len(default_headers) : default_headers[i].name = name}
  <2>1. T \subseteq Nat /\ T # {}
    BY <1>2, <1>5 DEF Has
  <2>2. PICK i \in T : \A j \in T : i <= j
    BY <2>1, LeastIn
  <2>3. \A j \in 1..i - 1 : default_headers[j].name # name
    <3> TAKE j \in 1..i - 1
    <3>1. j \in 1..Len(default_headers) /\ ~(i <= j)
      BY <1>2
    <3> QED
      BY <2>2, <3>1
  <2>4. i \in I
    BY <1>2, <1>5, <2>2, <2>3
  <2> QED
    BY <2>2, <2>4
<1>6. I \cap DOMAIN default_headers = I
  OBVIOUS
<1> HIDE DEF I
<1>7. ASSUME NEW name
      PROVE  (\E h \in ToSet(Added(headers)) : h.name = name) <=>
               Has(default_headers, name) /\ ~Has(headers, name) /\ ~Has(user, name)
  <2>1. (\E h \in ToSet(Added(headers)) : h.name = name)
           <=> \E i \in I : default_headers[i].name = name
    BY <1>3, <1>6
  <2> QED
    BY <1>4, <1>5, <2>1
<1> QED
  BY <1>3, <1>7

LEMMA HeaderParts ==
  ASSUME Sources, NEW sent
  PROVE  /\ \A name : Has(Before(sent), name) <=>
                       Adds(name) \/ (name = "cookie" /\ sent # <<>>)
         /\ \A h \in ToSet(Before(sent)) :
               \/ h.from = "profile" /\ Adds(h.name)
               \/ h.from = "jar" /\ h.name = "cookie"
         /\ ToSet(Headers(sent)) =
               (ToSet(Before(sent)) \cup ToSet(Added(Before(sent)))) \cup ToSet(user)
<1> DEFINE C == CookieHeader(sent)
           B == Before(sent)
           A == Added(B)
<1>1. /\ C \in Seq(HeaderSet)
      /\ \A h \in ToSet(C) : h.name = "cookie" /\ h.from = "jar"
      /\ (\E h : h \in ToSet(C)) <=> sent # <<>>
  <2> DEFINE one == <<"cookie">>
  <2>1. "cookie" \in Names
    BY DEF Names
  <2>2. one \in Seq(Names) /\ ToSet(one) = {"cookie"}
    BY <2>1, OneEntry
  <2> HIDE DEF one
  <2>3. /\ From("jar", one) \in Seq(HeaderSet)
        /\ \A h : h \in ToSet(From("jar", one)) <=>
                    h = [name |-> h.name, from |-> "jar"] /\ h.name \in ToSet(one)
    BY <2>2, FromEntries
  <2>4. <<>> \in Seq(HeaderSet) /\ ToSet(<<>>) = {}
    BY EmptySeq DEF ToSet
  <2>5. C = IF sent = <<>> THEN <<>> ELSE From("jar", one)
    BY DEF CookieHeader, one
  <2>6. [name |-> "cookie", from |-> "jar"] \in ToSet(From("jar", one))
    BY <2>2, <2>3
  <2> QED
    BY <2>2, <2>3, <2>4, <2>5, <2>6
<1> HIDE DEF C
<1>2. /\ Profile \in Seq(HeaderSet)
      /\ \A h \in ToSet(Profile) : h.from = "profile"
      /\ \A name : (\E h \in ToSet(Profile) : h.name = name) <=> Adds(name)
  BY ProfileEntries
<1>3. B \in Seq(HeaderSet) /\ ToSet(B) = ToSet(Profile) \cup ToSet(C)
  BY <1>1, <1>2, ConcatEntries DEF Before, C
<1> HIDE DEF B
<1>4. \A name : Has(B, name) <=> Adds(name) \/ (name = "cookie" /\ sent # <<>>)
  <2> TAKE name
  <2>1. Has(B, name) <=> \E h \in ToSet(B) : h.name = name
    BY HasEntry
  <2> QED
    BY <1>1, <1>2, <1>3, <2>1
<1>5. \A h \in ToSet(B) : \/ h.from = "profile" /\ Adds(h.name)
                          \/ h.from = "jar" /\ h.name = "cookie"
  BY <1>1, <1>2, <1>3
<1>7. A \in Seq(HeaderFrom("default")) /\ user \in Seq(HeaderFrom("user"))
  BY AddedEntries DEF Sources
<1>8. A \in Seq(HeaderSet) /\ user \in Seq(HeaderSet)
  <2>1. /\ HeaderFrom("default") \subseteq HeaderSet
        /\ HeaderFrom("user") \subseteq HeaderSet
    BY DEF HeaderFrom, HeaderSet, Names
  <2>2. /\ Seq(HeaderFrom("default")) \subseteq Seq(HeaderSet)
        /\ Seq(HeaderFrom("user")) \subseteq Seq(HeaderSet)
    BY <2>1, SeqDef
  <2> QED
    BY <1>7, <2>2
<1>9. Headers(sent) = (B \o A) \o user
  BY DEF Headers, WithDefaults, Added, B, Before
<1> HIDE DEF A
<1>10. B \o A \in Seq(HeaderSet) /\ ToSet(B \o A) = ToSet(B) \cup ToSet(A)
  BY <1>3, <1>8, ConcatEntries
<1>11. ToSet((B \o A) \o user) = ToSet(B \o A) \cup ToSet(user)
  <2> DEFINE BA == B \o A
  <2>1. BA \in Seq(HeaderSet)
    BY <1>10
  <2> HIDE DEF BA
  <2>2. ToSet(BA \o user) = ToSet(BA) \cup ToSet(user)
    BY <1>8, <2>1, ConcatEntries
  <2> QED
    BY <2>2 DEF BA
<1>12. ToSet(Headers(sent)) = (ToSet(B) \cup ToSet(A)) \cup ToSet(user)
  BY <1>9, <1>10, <1>11
<1> QED
  BY <1>4, <1>5, <1>12 DEF B, A

(* Who the values of a name come from: the parts of the list that have it.  *)
LEMMA PartsOf ==
  ASSUME Sources, NEW sent, NEW name
  PROVE  LET X == {x \in ToSet(Headers(sent)) : x.name = name}
             froms == {h.from : h \in X}
             added == Has(default_headers, name) /\ ~Has(Before(sent), name) /\ ~Has(user, name)
         IN froms = {h.from : h \in {x \in ToSet(Before(sent)) : x.name = name}}
                      \cup (IF added THEN {"default"} ELSE {})
                      \cup (IF Has(user, name) THEN {"user"} ELSE {})
<1> DEFINE B == ToSet(Before(sent))
           A == ToSet(Added(Before(sent)))
           U == ToSet(user)
           X == {x \in ToSet(Headers(sent)) : x.name = name}
           added == Has(default_headers, name) /\ ~Has(Before(sent), name) /\ ~Has(user, name)
           BF == {h.from : h \in {x \in B : x.name = name}}
           AF == {h.from : h \in {x \in A : x.name = name}}
           UF == {h.from : h \in {x \in U : x.name = name}}
<1>1. ToSet(Headers(sent)) = (B \cup A) \cup U
  BY HeaderParts
<1>2. ((\E h \in A : h.name = name) <=> added) /\ \A h \in A : h.from = "default"
  <2>1. Added(Before(sent)) \in Seq(HeaderFrom("default"))
    BY AddedEntries
  <2>2. A \subseteq HeaderFrom("default")
    BY <2>1, Entries
  <2>3. \A h \in A : h.from = "default"
    BY <2>2 DEF HeaderFrom
  <2>4. (\E h \in A : h.name = name) <=> added
    BY AddedEntries
  <2> QED
    BY <2>3, <2>4
<1>3. (Has(user, name) <=> \E h \in U : h.name = name) /\ \A h \in U : h.from = "user"
  <2>1. U \subseteq HeaderFrom("user")
    BY Entries DEF Sources
  <2>2. \A h \in U : h.from = "user"
    BY <2>1 DEF HeaderFrom
  <2>3. Has(user, name) <=> \E h \in U : h.name = name
    BY HasEntry
  <2> QED
    BY <2>2, <2>3
<1>4. {h.from : h \in X} = (BF \cup AF) \cup UF
  <2> HIDE DEF B, A, U
  <2>1. \A x : x \in X <=> (x \in B \/ x \in A \/ x \in U) /\ x.name = name
    BY <1>1
  <2> HIDE DEF X
  <2> QED
    BY <2>1
<1> HIDE DEF B, A, U, added
<1>5. AF = IF added THEN {"default"} ELSE {}
  BY <1>2
<1>6. UF = IF Has(user, name) THEN {"user"} ELSE {}
  BY <1>3
<1> QED
  BY <1>4, <1>5, <1>6 DEF B, X, added

Froms(sent, name) == {h.from : h \in {x \in ToSet(Headers(sent)) : x.name = name}}

(* A name that is neither "cookie" nor a hint the profile adds.             *)
LEMMA HeadersSupplied ==
  ASSUME Sources, NEW sent, NEW name, name # "cookie",
         ~(name \in ToSet(Hints) /\ ~Supplied("sec-ch-ua"))
  PROVE  Froms(sent, name) =
           CASE Has(user, name) -> {"user"}
             [] ~Has(user, name) /\ Has(default_headers, name) -> {"default"}
             [] ~Supplied(name) /\ name \in ToSet(ProfileNames) \cup {"sec-ch-ua"} -> {"profile"}
             [] OTHER -> {}
<1> DEFINE own == ToSet(ProfileNames) \cup {"sec-ch-ua"}
           BF == {h.from : h \in {x \in ToSet(Before(sent)) : x.name = name}}
           added == Has(default_headers, name) /\ ~Has(Before(sent), name) /\ ~Has(user, name)
<1>1. /\ Has(Before(sent), name) <=> Adds(name)
      /\ \A h \in ToSet(Before(sent)) : h.name = name => h.from = "profile"
  BY HeaderParts
<1>2. Adds(name) <=> name \in own /\ ~Supplied(name)
  <2>1. \A n \in ToSet(ProfileNames) : n # "sec-ch-ua" /\ n \notin ToSet(Hints)
    BY SessionAssumption DEF ToSet
  <2> QED
    BY <2>1 DEF Adds
<1>3. Has(Before(sent), name) <=> \E h \in ToSet(Before(sent)) : h.name = name
  BY HasEntry
<1>4. BF = IF name \in own /\ ~Supplied(name) THEN {"profile"} ELSE {}
  BY <1>1, <1>2, <1>3
<1>5. Froms(sent, name) = BF \cup (IF added THEN {"default"} ELSE {})
                             \cup (IF Has(user, name) THEN {"user"} ELSE {})
  BY PartsOf DEF Froms
<1>6. Supplied(name) <=> Has(user, name) \/ Has(default_headers, name)
  BY DEF Supplied
<1>7. added <=> Has(default_headers, name) /\ ~Has(user, name)
  BY <1>1, <1>2, <1>6
<1> HIDE DEF own, BF, added
<1>8. CASE Has(user, name)
  BY <1>4, <1>5, <1>6, <1>7, <1>8
<1>9. CASE ~Has(user, name) /\ Has(default_headers, name)
  BY <1>4, <1>5, <1>6, <1>7, <1>9
<1>10. CASE ~Has(user, name) /\ ~Has(default_headers, name)
  BY <1>4, <1>5, <1>6, <1>7, <1>10 DEF own
<1> QED
  BY <1>8, <1>9, <1>10

(* A hint that the profile adds.                                            *)
LEMMA HintHeaders ==
  ASSUME Sources, NEW sent, NEW name, name \in ToSet(Hints), ~Supplied("sec-ch-ua")
  PROVE  Froms(sent, name) =
           {"profile"} \cup (IF Has(user, name) THEN {"user"} ELSE {})
<1> DEFINE BF == {h.from : h \in {x \in ToSet(Before(sent)) : x.name = name}}
           added == Has(default_headers, name) /\ ~Has(Before(sent), name) /\ ~Has(user, name)
<1>1. name # "cookie" /\ Adds(name)
  BY SessionAssumption DEF Adds, ToSet
<1>2. /\ Has(Before(sent), name)
      /\ \A h \in ToSet(Before(sent)) : h.name = name => h.from = "profile"
  BY <1>1, HeaderParts
<1>3. \E h \in ToSet(Before(sent)) : h.name = name
  BY <1>2, HasEntry
<1>4. BF = {"profile"}
  BY <1>2, <1>3
<1>5. Froms(sent, name) = BF \cup (IF added THEN {"default"} ELSE {})
                             \cup (IF Has(user, name) THEN {"user"} ELSE {})
  BY PartsOf DEF Froms
<1>6. ~added
  BY <1>2
<1> HIDE DEF BF, added
<1> QED
  BY <1>4, <1>5, <1>6

(* The cookies of the jar, the caller's beside them, or else the default's. *)
LEMMA CookieHeaders ==
  ASSUME Sources, NEW sent
  PROVE  Froms(sent, "cookie") =
           (IF sent # <<>> THEN {"jar"} ELSE {})
              \cup (IF Has(user, "cookie") THEN {"user"}
                    ELSE IF Has(default_headers, "cookie") /\ sent = <<>>
                    THEN {"default"} ELSE {})
<1> DEFINE BF == {h.from : h \in {x \in ToSet(Before(sent)) : x.name = "cookie"}}
           added == /\ Has(default_headers, "cookie") /\ ~Has(Before(sent), "cookie")
                    /\ ~Has(user, "cookie")
<1>1. ~Adds("cookie")
  <2>1. "cookie" \notin ToSet(ProfileNames) /\ "cookie" \notin ToSet(Hints)
    BY SessionAssumption DEF ToSet
  <2> QED
    BY <2>1 DEF Adds
<1>2. /\ Has(Before(sent), "cookie") <=> sent # <<>>
      /\ \A h \in ToSet(Before(sent)) : h.name = "cookie" => h.from = "jar"
  BY <1>1, HeaderParts
<1>3. Has(Before(sent), "cookie") <=> \E h \in ToSet(Before(sent)) : h.name = "cookie"
  BY HasEntry
<1>4. BF = IF sent # <<>> THEN {"jar"} ELSE {}
  BY <1>2, <1>3
<1>5. Froms(sent, "cookie") = BF \cup (IF added THEN {"default"} ELSE {})
                                 \cup (IF Has(user, "cookie") THEN {"user"} ELSE {})
  BY PartsOf DEF Froms
<1>6. added <=> Has(default_headers, "cookie") /\ sent = <<>> /\ ~Has(user, "cookie")
  BY <1>2
<1> HIDE DEF BF, added
<1> QED
  BY <1>4, <1>5, <1>6

-----------------------------------------------------------------------------
(* The jar *)

(* The value of an attribute that a line has is one of the line's.         *)
LEMMA ValueOf ==
  ASSUME NEW line \in Lines, NEW kind, Given(line, kind)
  PROVE  Value(line, kind) \in Seq(STRING)
<1> DEFINE A == [kind: STRING, val: Seq(STRING)]
           a == Attrs(line, kind)
<1>1. line.attrs \in Seq(A)
  BY DEF Lines
<1> HIDE DEF A
<1>2. a \in Seq(A)
  BY <1>1, RetainedEntries DEF Attrs
<1>3. a # <<>>
  BY DEF Given
<1> HIDE DEF a
<1>4. Len(a) \in 1..Len(a)
  BY <1>2, <1>3, LenProperties, EmptySeq
<1>5. a[Len(a)] \in A
  BY <1>2, <1>4, ElementOfSeq
<1> QED
  BY <1>5 DEF Value, Last, A, a

(* The path of a URL up to its last slash ends with it.                     *)
LEMMA DirectoryEnds ==
  ASSUME NEW path \in Seq(STRING), path # <<>>, path[1] = "/"
  PROVE  LET up == Directory(path) IN
         /\ up \in Seq(STRING) /\ Len(up) \in Nat \ {0} /\ up # <<>>
         /\ up[Len(up)] = "/"
         /\ Len(up) <= 1 => up = <<"/">>
         /\ ~(Len(up) <= 1) => up = Append(Front(up), "/")
<1> DEFINE S == {0} \cup {i \in DOMAIN path : path[i] = "/"}
           n == Len(path)
           m == Max(S)
           up == Directory(path)
<1>1. n \in Nat /\ n # 0 /\ DOMAIN path = 1..n /\ \A i \in 1..n : path[i] \in STRING
  BY LenProperties, ElementOfSeq, EmptySeq
<1>2. S \subseteq 0..n /\ 1 \in S /\ 0 \in S
  BY <1>1
<1>3. \E x \in S : \A y \in S : x >= y
  <2> HIDE DEF S
  <2> QED
    BY <1>1, <1>2, GreatestIn
<1>4. m \in S /\ \A y \in S : m >= y
  BY <1>3 DEF Max
<1>5. m \in 1..n /\ path[m] = "/"
  BY <1>2, <1>4
<1>6. up = SubSeq(path, 1, m)
  BY DEF Directory
<1> HIDE DEF S, m, n, up
<1>7. /\ up \in Seq(STRING) /\ Len(up) = m /\ m \in Nat \ {0}
      /\ \A i \in 1..m : up[i] = path[i]
  BY <1>1, <1>5, <1>6, SubSeqProperties DEF n
<1>8. up[m] = "/" /\ up # <<>>
  BY <1>5, <1>7, EmptySeq
<1>9. ASSUME m <= 1
      PROVE  up = <<"/">>
  <2> DEFINE one == <<"/">>
  <2>1. one \in Seq(STRING) /\ Len(one) = 1 /\ one[1] = "/"
    OBVIOUS
  <2> HIDE DEF one
  <2>2. m = 1 /\ \A i \in 1..Len(up) : up[i] = one[i]
    BY <1>7, <1>8, <1>9, <2>1
  <2>3. up = one
    BY <1>7, <2>1, <2>2, SeqEqual
  <2> QED
    BY <2>3 DEF one
<1>10. ASSUME ~(m <= 1)
       PROVE  up = Append(Front(up), "/")
  <2> DEFINE f == Front(up)
             g == Append(f, "/")
  <2>1. f \in Seq(STRING) /\ Len(f) = m - 1 /\ \A i \in 1..m - 1 : f[i] = up[i]
    <3>1. f = SubSeq(up, 1, m - 1)
      BY <1>7 DEF Front
    <3> QED
      BY <1>7, <1>10, <3>1, SubSeqProperties
  <2> HIDE DEF f
  <2>2. "/" \in STRING
    OBVIOUS
  <2>3. /\ g \in Seq(STRING) /\ Len(g) = (m - 1) + 1
        /\ \A i \in 1..m - 1 : g[i] = f[i]
        /\ g[(m - 1) + 1] = "/"
    BY <2>1, <2>2, AppendProperties
  <2> HIDE DEF g
  <2>4. \A i \in 1..Len(up) : up[i] = g[i]
    <3> TAKE i \in 1..Len(up)
    <3>1. i \in 1..m - 1 \/ i = m
      BY <1>7
    <3>2. (m - 1) + 1 = m
      BY <1>7
    <3> QED
      BY <1>8, <2>1, <2>3, <3>1, <3>2
  <2>5. Len(g) = Len(up)
    BY <1>7, <2>3
  <2>6. up = g
    BY <1>7, <2>3, <2>4, <2>5, SeqEqual
  <2> QED
    BY <2>6 DEF g, f
<1> QED
  BY <1>7, <1>8, <1>9, <1>10 DEF up

(* What the jar makes of a line.                                           *)
LEMMA ParsedCookie ==
  ASSUME NEW line, NEW url, Accepted(line)
  PROVE  LET cookie == parse_set_cookie(line, url)
             path == IF Given(line, "path") THEN Lowered(Value(line, "path"))
                     ELSE Directory(url.path)
         IN /\ cookie.name = line.name /\ cookie.value = line.value
            /\ cookie.domain = IF Given(line, "domain") THEN Lowered(Value(line, "domain"))
                               ELSE url.host
            /\ cookie.host_only <=> ~Given(line, "domain")
            /\ cookie.path = IF path = <<>> THEN <<"/">> ELSE path
            /\ cookie.path # <<>>
            /\ cookie.secure <=> url.secure \/ Given(line, "secure")
            /\ cookie # NoCookie
<1> DEFINE path == IF Given(line, "path") THEN Lowered(Value(line, "path"))
                   ELSE Directory(url.path)
           domain == IF Given(line, "domain") THEN Lowered(Value(line, "domain"))
                     ELSE url.host
           only == ~Given(line, "domain")
           root == IF path = <<>> THEN <<"/">> ELSE path
           secure == url.secure \/ Given(line, "secure")
           cookie == parse_set_cookie(line, url)
<1>1. cookie = [name |-> line.name, value |-> line.value, domain |-> domain,
                host_only |-> only, path |-> root, secure |-> secure]
  <2>1. line.fault \in {"none", "long_line"}
    BY DEF Accepted
  <2> QED
    BY <2>1 DEF parse_set_cookie, Given, Value
<1>2. root # <<>>
  OBVIOUS
<1> HIDE DEF root, domain, only, secure, cookie
<1>3. /\ cookie.name = line.name /\ cookie.value = line.value
      /\ cookie.domain = domain /\ cookie.path = root
  BY <1>1
<1>4. cookie.host_only = only /\ cookie.secure = secure
  BY <1>1, Zenon
<1>5. cookie # NoCookie
  <2>1. "value" \in DOMAIN cookie /\ "value" \notin DOMAIN NoCookie
    BY <1>1 DEF NoCookie
  <2> QED
    BY <2>1
<1> QED
  BY <1>2, <1>3, <1>4, <1>5, Zenon DEF cookie, root, path, domain, only, secure

LEMMA NotAccepted ==
  ASSUME NEW line, NEW url, ~Accepted(line)
  PROVE  parse_set_cookie(line, url) = NoCookie
BY DEF Accepted, parse_set_cookie

(* The jar is a list of cookies with different keys. *)
JarList ==
    /\ jar \in Seq(ToSet(jar)) /\ DistinctKeys(jar)
    /\ jar # <<>> => provider
    /\ \A x \in ToSet(jar) : x.value \in 1..stamp /\ x.path # <<>>

(* Storing a cookie replaces the one with its key.                         *)
LEMMA JarAdds ==
  ASSUME JarList, NEW line, NEW url, NEW cookie,
         cookie = parse_set_cookie(line, url), cookie # NoCookie,
         jar' = add_cookie_str(jar, line, url)
  PROVE  /\ ToSet(jar') = {x \in ToSet(jar) : Key(x) # Key(cookie)} \cup {cookie}
         /\ jar' \in Seq(ToSet(jar')) /\ DistinctKeys(jar')
<1> DEFINE I == {i \in DOMAIN jar : Key(jar[i]) # Key(cookie)}
           kept == Retained(jar, I)
           J == ToSet(jar)
<1>1. jar \in Seq(J) /\ DistinctKeys(jar)
  BY DEF JarList
<1> HIDE DEF J
<1>2. /\ kept \in Seq(J) /\ ToSet(kept) = {jar[i] : i \in I \cap DOMAIN jar}
      /\ DistinctKeys(kept)
  BY <1>1, RetainedEntries
<1>3. jar' = Append(kept, cookie)
  BY DEF add_cookie_str
<1> HIDE DEF kept
<1>4. ToSet(kept) = {x \in ToSet(jar) : Key(x) # Key(cookie)}
  <2> DEFINE K == ToSet(kept)
  <2>1. \A x : x \in K <=> \E i \in DOMAIN jar : x = jar[i] /\ Key(jar[i]) # Key(cookie)
    <3>1. \A i : i \in I \cap DOMAIN jar <=> i \in DOMAIN jar /\ Key(jar[i]) # Key(cookie)
      OBVIOUS
    <3> HIDE DEF I
    <3>2. \A x : x \in K <=> \E i \in I \cap DOMAIN jar : x = jar[i]
      BY <1>2
    <3> HIDE DEF K
    <3> QED
      BY <3>1, <3>2
  <2> HIDE DEF K
  <2>2. \A x : x \in ToSet(jar) <=> \E i \in DOMAIN jar : x = jar[i]
    BY DEF ToSet
  <2>3. \A x : x \in K <=> x \in ToSet(jar) /\ Key(x) # Key(cookie)
    BY <2>1, <2>2, Zenon
  <2> QED
    BY <2>3 DEF K
<1>5. /\ ToSet(jar') = ToSet(kept) \cup {cookie}
      /\ jar' \in Seq(J \cup {cookie})
  <2>1. kept \in Seq(J)
    BY <1>2
  <2>2. ToSet(Append(kept, cookie)) = ToSet(kept) \cup {cookie}
    BY <2>1, AppendedSet, Zenon
  <2>3. Append(kept, cookie) \in Seq(J \cup {cookie})
    BY <2>1, AppendedSeq, Zenon
  <2> QED
    BY <1>3, <2>2, <2>3
<1>6. \A y \in ToSet(kept) : Key(y) # Key(cookie)
  BY <1>4
<1>7. DistinctKeys(jar')
  BY <1>2, <1>3, <1>6, AppendDistinct
<1>8. jar' \in Seq(ToSet(jar'))
  BY <1>5, Entries
<1> QED
  BY <1>4, <1>5, <1>7, <1>8

(* A path begins with a slash. *)
LEMMA RootPrefix ==
  ASSUME NEW path \in Seq(STRING), path # <<>>, path[1] = "/"
  PROVE  IsPrefix(<<"/">>, path)
<1> DEFINE one == <<"/">>
           up == SubSeq(path, 1, 1)
<1>1. one \in Seq(STRING) /\ Len(one) = 1 /\ one[1] = "/"
  OBVIOUS
<1> HIDE DEF one
<1>2. Len(path) \in Nat /\ 1 \in 1..Len(path) /\ 1 <= Len(path)
  BY LenProperties, EmptySeq
<1>3. up \in Seq(STRING) /\ Len(up) = 1 /\ up[1] = "/"
  BY <1>2, SubSeqProperties
<1> HIDE DEF up
<1>4. SubSeq(one, 1, 1) \in Seq(STRING) /\ Len(SubSeq(one, 1, 1)) = 1 /\ SubSeq(one, 1, 1)[1] = one[1]
  BY <1>1, SubSeqProperties
<1> DEFINE w == SubSeq(one, 1, 1)
<1> HIDE DEF w
<1>5. w \in Seq(STRING) /\ Len(w) = 1 /\ w[1] = "/"
  BY <1>1, <1>4 DEF w
<1>6. \A i \in 1..Len(w) : w[i] = up[i]
  BY <1>3, <1>5
<1>7. w = up
  BY <1>3, <1>5, <1>6, SeqEqual
<1>8. IsPrefix(one, path)
  BY <1>1, <1>2, <1>7 DEF IsPrefix, up, w
<1> QED
  BY <1>8 DEF one

(* What is not empty has labels or pieces, also in small letters.          *)
LEMMA LoweredPieces ==
  /\ \A s \in Seq(STRING) : DOMAIN s = {} <=> s = <<>>
  /\ \A s : DOMAIN Lowered(s) = DOMAIN s
<1>1. \A s \in Seq(STRING) : DOMAIN s = {} <=> s = <<>>
  BY EmptySeq, LenProperties
<1>2. \A s : DOMAIN Lowered(s) = DOMAIN s
  BY DEF Lowered
<1> QED
  BY <1>1, <1>2

(* A line that RFC 6265 means for a URL gives a cookie that matches it, but *)
(* for the exceptions.                                                     *)
LEMMA MeantMatches ==
  ASSUME provider, NEW url \in Urls, NEW x, x.line \in Lines, x.url \in Urls, Accepted(x.line),
         MeantFor(x, url), ~Excepted(x, url)
  PROVE  Matches(parse_set_cookie(x.line, x.url), url)
<1> DEFINE cookie == parse_set_cookie(x.line, x.url)
           line == x.line
           path == IF Given(line, "path") THEN Lowered(Value(line, "path"))
                   ELSE Directory(x.url.path)
<1>1. /\ cookie.domain = IF Given(line, "domain") THEN Lowered(Value(line, "domain"))
                         ELSE x.url.host
      /\ cookie.host_only <=> ~Given(line, "domain")
      /\ cookie.path = IF path = <<>> THEN <<"/">> ELSE path
      /\ cookie.secure <=> x.url.secure \/ Given(line, "secure")
  BY ParsedCookie
<1>2. /\ url.path \in Seq(STRING) /\ url.path # <<>> /\ url.path[1] = "/"
      /\ url.host # <<>>
  BY SessionAssumption
<1>3. Len(url.path) \in Nat /\ Len(url.path) # 0
  BY <1>2, LenProperties, EmptySeq
<1>4. IF cookie.host_only THEN url.host = cookie.domain
      ELSE domain_matches(url.host, cookie.domain)
  <2>1. Given(line, "domain") => Value(line, "domain") # <<>>
    BY DEF Excepted
  <2>2. HostOnly(x) <=> ~Given(line, "domain")
    BY <2>1 DEF HostOnly
  <2>3. CASE Given(line, "domain")
    <3>1. DomainMatch(url.host, cookie.domain)
      BY <1>1, <2>2, <2>3 DEF MeantFor, Domain
    <3>2. cookie.domain # <<>>
      <4>1. Value(line, "domain") \in Seq(STRING) /\ <<>> \in Seq(STRING)
        BY <2>3, ValueOf, EmptySeq
      <4>2. DOMAIN Value(line, "domain") # {} /\ DOMAIN <<>> = {}
        BY <2>1, <2>3, <4>1, LoweredPieces
      <4> QED
        BY <1>1, <2>3, <4>2, LoweredPieces
    <3> QED
      BY <1>1, <2>3, <3>1, <3>2 DEF DomainMatch, domain_matches
  <2>4. CASE ~Given(line, "domain")
    BY <1>1, <2>2, <2>4 DEF MeantFor
  <2> QED
    BY <2>3, <2>4
<1>5. IsPrefix(cookie.path, url.path)
  <2>1. IsPrefix(<<"/">>, url.path)
    BY <1>2, RootPrefix
  <2>2. CASE ~Given(line, "path")
    BY <1>1, <2>1, <2>2 DEF Excepted
  <2>3. CASE Given(line, "path") /\ Value(line, "path") = <<>>
    <3>1. Lowered(<<>>) = <<>>
      BY DEF Lowered
    <3> QED
      BY <1>1, <2>1, <2>3, <3>1
  <2>4. CASE Given(line, "path") /\ Value(line, "path") # <<>>
    <3>1. ~OddPath(line)
      BY <2>4 DEF Excepted
    <3>2. Value(line, "path")[1] = "/" /\ Lowered(Value(line, "path")) = Value(line, "path")
      BY <2>4, <3>1 DEF OddPath
    <3>3. Path(x) = Value(line, "path") /\ cookie.path = Value(line, "path")
      BY <1>1, <2>4, <3>2 DEF Path
    <3>4. Path(x) = url.path => IsPrefix(Path(x), url.path)
      BY <1>3 DEF IsPrefix
    <3>5. IsPrefix(Path(x), url.path)
      BY <3>4 DEF MeantFor, PathMatch
    <3> QED
      BY <3>3, <3>5
  <2> QED
    BY <2>2, <2>3, <2>4
<1>6. cookie.secure => url.secure
  BY <1>1 DEF MeantFor, Excepted
<1> HIDE DEF cookie
<1>7. Matches(cookie, url)
  BY <1>4, <1>5, <1>6 DEF Matches
<1> QED
  BY <1>7 DEF cookie

(* A cookie that matches no host the RFC means. *)
Lost(line) == Given(line, "domain") /\ Value(line, "domain") = <<>>

(* Cookies of one key replace one another by RFC 6265 as well, or a slash or *)
(* an odd Path makes the difference.                                       *)
LEMMA SameKey ==
  ASSUME NEW x, NEW y, x.line \in Lines, y.line \in Lines, x.url \in Urls, y.url \in Urls,
         Accepted(x.line), Accepted(y.line), ~Lost(x.line),
         Key(parse_set_cookie(x.line, x.url)) = Key(parse_set_cookie(y.line, y.url))
  PROVE  Replaces(y, x)
<1> DEFINE cx == parse_set_cookie(x.line, x.url)
           cy == parse_set_cookie(y.line, y.url)
           px == IF Given(x.line, "path") THEN Lowered(Value(x.line, "path"))
                 ELSE Directory(x.url.path)
           py == IF Given(y.line, "path") THEN Lowered(Value(y.line, "path"))
                 ELSE Directory(y.url.path)
<1>1. /\ cx.name = x.line.name
      /\ cx.domain = IF Given(x.line, "domain") THEN Lowered(Value(x.line, "domain"))
                     ELSE x.url.host
      /\ cx.path = IF px = <<>> THEN <<"/">> ELSE px
  BY ParsedCookie
<1>2. /\ cy.name = y.line.name
      /\ cy.domain = IF Given(y.line, "domain") THEN Lowered(Value(y.line, "domain"))
                     ELSE y.url.host
      /\ cy.path = IF py = <<>> THEN <<"/">> ELSE py
  BY ParsedCookie
<1>3. cx.name = cy.name /\ cx.domain = cy.domain /\ cx.path = cy.path
  BY DEF Key
<1> HIDE DEF cx, cy
<1>4. Domain(y) = Domain(x)
  <2>1. \A s \in Seq(STRING) : DOMAIN s = {} <=> s = <<>>
    BY LoweredPieces
  <2>2. DOMAIN x.url.host # {} /\ DOMAIN y.url.host # {}
    BY <2>1, SessionAssumption
  <2>3. \A s : DOMAIN Lowered(s) = DOMAIN s
    BY LoweredPieces
  <2>4. Given(x.line, "domain") => DOMAIN Value(x.line, "domain") # {}
    BY <2>1, ValueOf DEF Lost
  <2>5. DOMAIN cx.domain # {}
    BY <1>1, <2>2, <2>3, <2>4
  <2>6. Given(y.line, "domain") => Value(y.line, "domain") # <<>>
    <3> SUFFICES ASSUME Given(y.line, "domain"), Value(y.line, "domain") = <<>>
                 PROVE  FALSE
      OBVIOUS
    <3>1. DOMAIN cy.domain = DOMAIN <<>>
      BY <1>2, <2>3
    <3>2. DOMAIN <<>> = {}
      BY <2>1, EmptySeq
    <3> QED
      BY <1>3, <2>5, <3>1, <3>2
  <2>7. Domain(x) = cx.domain
    BY <1>1 DEF Domain, HostOnly, Lost
  <2>8. Domain(y) = cy.domain
    BY <1>2, <2>6 DEF Domain, HostOnly
  <2> QED
    BY <1>3, <2>7, <2>8
<1>5. ASSUME ~OddPath(x.line), ~OddPath(y.line)
      PROVE  OneSlashApart(Path(x), Path(y))
  <2> DEFINE ux == Directory(x.url.path)
             uy == Directory(y.url.path)
  <2>1. /\ x.url.path \in Seq(STRING) /\ x.url.path # <<>> /\ x.url.path[1] = "/"
        /\ y.url.path \in Seq(STRING) /\ y.url.path # <<>> /\ y.url.path[1] = "/"
    BY SessionAssumption
  <2>2. /\ ux # <<>> /\ (Len(ux) <= 1 => ux = <<"/">>)
        /\ ~(Len(ux) <= 1) => ux = Append(Front(ux), "/")
    BY <2>1, DirectoryEnds
  <2>3. /\ uy # <<>> /\ (Len(uy) <= 1 => uy = <<"/">>)
        /\ ~(Len(uy) <= 1) => uy = Append(Front(uy), "/")
    BY <2>1, DirectoryEnds
  <2>4. /\ Given(x.line, "path") => Path(x) = px /\ px # <<>>
        /\ ~Given(x.line, "path") => Path(x) = DefaultPath(x.url.path) /\ px = ux
    BY <1>5 DEF OddPath, Path
  <2>5. /\ Given(y.line, "path") => Path(y) = py /\ py # <<>>
        /\ ~Given(y.line, "path") => Path(y) = DefaultPath(y.url.path) /\ py = uy
    BY <1>5 DEF OddPath, Path
  <2>6. /\ DefaultPath(x.url.path) = IF Len(ux) <= 1 THEN <<"/">> ELSE Front(ux)
        /\ DefaultPath(y.url.path) = IF Len(uy) <= 1 THEN <<"/">> ELSE Front(uy)
    BY DEF DefaultPath
  <2> HIDE DEF ux, uy, px, py
  <2>7. px = py
    BY <1>1, <1>2, <1>3, <2>2, <2>3, <2>4, <2>5
  <2>8. CASE Given(x.line, "path") /\ Given(y.line, "path")
    BY <2>4, <2>5, <2>7, <2>8 DEF OneSlashApart
  <2>9. CASE ~Given(x.line, "path") /\ ~Given(y.line, "path")
    <3>1. ux = uy
      BY <2>4, <2>5, <2>7, <2>9
    <3>2. Path(x) = Path(y)
      BY <2>4, <2>5, <2>6, <2>9, <3>1
    <3> QED
      BY <3>2 DEF OneSlashApart
  <2>10. CASE ~Given(x.line, "path") /\ Given(y.line, "path")
    <3>1. Path(y) = ux /\ Path(x) = IF Len(ux) <= 1 THEN <<"/">> ELSE Front(ux)
      BY <2>4, <2>5, <2>6, <2>7, <2>10
    <3>2. Path(x) = Path(y) \/ Path(y) = Append(Path(x), "/")
      BY <2>2, <3>1, Zenon
    <3> QED
      BY <3>2 DEF OneSlashApart
  <2>11. CASE Given(x.line, "path") /\ ~Given(y.line, "path")
    <3>1. Path(x) = uy /\ Path(y) = IF Len(uy) <= 1 THEN <<"/">> ELSE Front(uy)
      BY <2>4, <2>5, <2>6, <2>7, <2>11
    <3>2. Path(x) = Path(y) \/ Path(x) = Append(Path(y), "/")
      BY <2>3, <3>1, Zenon
    <3> QED
      BY <3>2 DEF OneSlashApart
  <2> QED
    BY <2>8, <2>9, <2>10, <2>11
<1> QED
  BY <1>1, <1>2, <1>3, <1>4, <1>5 DEF Replaces

-----------------------------------------------------------------------------
(* The invariant *)

(* A line that is owed is there: as a cookie in the jar, or a pair of the   *)
(* host that set it.                                                       *)
Stored(j, l, x) ==
    /\ x.line \in Lines /\ x.url \in Urls /\ Accepted(x.line)
    /\ IF provider
       THEN Lost(x.line) \/ parse_set_cookie(x.line, x.url) \in ToSet(j)
       ELSE \/ x.line.fault = "long_line"
            \/ \E s \in ToSet(l[x.url.host]) :
                  s.name = x.line.name /\ s.value = x.line.value

LegacyLists ==
    /\ DOMAIN legacy = Hosts
    /\ \A h \in Hosts : /\ legacy[h] \in Seq(ToSet(legacy[h]))
                        /\ legacy[h] # <<>> => ~provider

Fields(r) ==
    [pc |-> r.pc, url |-> r.url, hops |-> r.hops, headers |-> r.headers,
     sent |-> r.sent, lines |-> r.lines, next |-> r.next, owed |-> r.owed,
     due |-> r.due]

IsCall(r) == r = Fields(r)

(* A call with other debts and lines. *)
With(r, owed, lines) ==
    [pc |-> r.pc, url |-> r.url, hops |-> r.hops, headers |-> r.headers,
     sent |-> r.sent, lines |-> lines, next |-> r.next, owed |-> owed,
     due |-> r.due]

CallType(r, n) ==
    /\ IsCall(r)
    /\ r.pc \in {"idle", "take", "exchange", "cookies"}
    /\ r.hops \in 0..MaxRedirects
    /\ r.pc # "idle" => r.url \in Urls
    /\ r.next \in Urls \cup {NoUrl}
    /\ r.lines \in Seq(Lines) /\ \A i \in DOMAIN r.lines : r.lines[i].value \in 1..n

(* What a request carries is what was built for it. *)
CallCarries(r) ==
    r.pc = "exchange" =>
       /\ r.headers = Headers(r.sent)
       /\ \A x \in r.due : \E s \in ToSet(r.sent) :
             s.name = x.line.name /\ s.value = x.line.value

CallOK(r) ==
    /\ CallType(r, stamp) /\ CallCarries(r)
    /\ \A x \in r.owed : Stored(jar, legacy, x)

Shared ==
    /\ provider \in BOOLEAN /\ stamp \in 0..MaxStamp
    /\ Sources /\ JarList /\ LegacyLists

IInv == Shared /\ DOMAIN calls = Calls /\ \A c \in Calls : CallOK(calls[c])

(* A step of a call that leaves the cookies alone. *)
LEMMA OneCall ==
  ASSUME IInv, NEW c \in Calls, NEW call, CallType(call, stamp'), CallCarries(call),
         \A x \in call.owed : Stored(jar, legacy, x), Set(c, call),
         stamp' \in 0..MaxStamp, stamp' >= stamp,
         UNCHANGED <<provider, default_headers, user, jar, legacy>>
  PROVE  IInv'
<1>1. stamp \in Nat /\ stamp' \in Nat
  BY SessionAssumption DEF IInv, Shared
<1>2. 1..stamp \subseteq 1..stamp'
  BY <1>1
<1>3. Shared'
  BY <1>2 DEF IInv, Shared, Sources, JarList, LegacyLists, DistinctKeys
<1>4. DOMAIN calls' = Calls /\ \A d \in Calls : calls'[d] = IF d = c THEN call ELSE calls[d]
  BY DEF Set, IInv
<1>5. ASSUME NEW d \in Calls
      PROVE  /\ CallType(calls'[d], stamp') /\ CallCarries(calls'[d])
             /\ \A x \in calls'[d].owed : Stored(jar, legacy, x)
  <2>1. CASE d = c
    BY <1>4, <2>1
  <2>2. CASE d # c
    <3>1. CallOK(calls[d]) /\ calls'[d] = calls[d]
      BY <1>4, <2>2 DEF IInv
    <3>2. CallType(calls[d], stamp')
      BY <1>2, <3>1 DEF CallOK, CallType
    <3> QED
      BY <3>1, <3>2 DEF CallOK
  <2> QED
    BY <2>1, <2>2
<1>6. \A x : Stored(jar, legacy, x)' <=> Stored(jar, legacy, x)
  BY DEF Stored
<1>7. ASSUME NEW d \in Calls
      PROVE  CallOK(calls[d])'
  <2>1. CallCarries(calls[d])' <=> CallCarries(calls'[d])
    BY DEF CallCarries, Headers, WithDefaults, Profile, Supplied
  <2> QED
    BY <1>5, <1>6, <2>1 DEF CallOK
<1> QED
  BY <1>3, <1>4, <1>7 DEF IInv

LEMMA WithFields ==
  ASSUME NEW r, IsCall(r), NEW owed, NEW lines
  PROVE  /\ [r EXCEPT !.owed = owed] = With(r, owed, r.lines)
         /\ [r EXCEPT !.lines = lines] = With(r, r.owed, lines)
         /\ With(r, r.owed, r.lines) = r
<1>1. ASSUME NEW v, v = [r EXCEPT !.owed = owed]
      PROVE  v = With(r, owed, r.lines)
  BY <1>1 DEF IsCall, Fields, With
<1>2. ASSUME NEW v, v = [r EXCEPT !.lines = lines]
      PROVE  v = With(r, r.owed, lines)
  BY <1>2 DEF IsCall, Fields, With
<1>3. With(r, r.owed, r.lines) = r
  BY DEF IsCall, Fields, With
<1> QED
  BY <1>1, <1>2, <1>3, Zenon

LEMMA WithCall ==
  ASSUME NEW r, NEW owed, NEW lines, NEW w, w = With(r, owed, lines)
  PROVE  /\ IsCall(w) /\ w.pc = r.pc /\ w.url = r.url /\ w.hops = r.hops
         /\ w.headers = r.headers /\ w.sent = r.sent /\ w.lines = lines
         /\ w.next = r.next /\ w.owed = owed /\ w.due = r.due
BY DEF IsCall, Fields, With

(* A step that changes the cookies, and of the calls what is owed to them  *)
(* and the lines they have yet to store.                                   *)
LEMMA CookiesChange ==
  ASSUME IInv, UNCHANGED <<provider, default_headers, user>>,
         stamp' \in 0..MaxStamp, stamp' >= stamp, JarList', LegacyLists',
         DOMAIN calls' = Calls, NEW owed, NEW lines,
         \A d \in Calls : calls'[d] = With(calls[d], owed[d], lines[d]),
         \A d \in Calls : /\ lines[d] \in Seq(Lines)
                          /\ \A i \in DOMAIN lines[d] : lines[d][i].value \in 1..stamp',
         \A d \in Calls : \A x \in owed[d] : Stored(jar', legacy', x)
  PROVE  IInv'
<1>1. Shared'
  BY DEF IInv, Shared, Sources
<1>2. ASSUME NEW d \in Calls
      PROVE  CallOK(calls[d])'
  <2>1. CallOK(calls[d])
    BY DEF IInv
  <2> DEFINE r == calls[d]
             w == calls'[d]
  <2>2. /\ IsCall(w) /\ w.pc = r.pc /\ w.url = r.url /\ w.hops = r.hops
        /\ w.headers = r.headers /\ w.sent = r.sent /\ w.lines = lines[d]
        /\ w.next = r.next /\ w.owed = owed[d] /\ w.due = r.due
    BY WithCall
  <2>3. CallType(w, stamp')
    BY <2>1, <2>2 DEF CallOK, CallType
  <2>4. CallCarries(w)
    BY <2>1, <2>2 DEF CallOK, CallCarries
  <2>5. CallCarries(calls[d])' <=> CallCarries(w)
    BY DEF CallCarries, Headers, WithDefaults, Profile, Supplied
  <2>6. \A x \in w.owed : Stored(jar', legacy', x)
    BY <2>2
  <2>7. \A x : Stored(jar, legacy, x)' <=> Stored(jar', legacy', x)
    BY DEF Stored
  <2> QED
    BY <2>3, <2>4, <2>5, <2>6, <2>7 DEF CallOK
<1> QED
  BY <1>1, <1>2 DEF IInv

LEMMA HeadTail ==
  ASSUME NEW s \in Seq(Lines), s # <<>>
  PROVE  /\ Head(s) \in Lines /\ Tail(s) \in Seq(Lines) /\ Head(s) = s[1] /\ 1 \in DOMAIN s
         /\ \A i \in DOMAIN Tail(s) : i + 1 \in DOMAIN s /\ Tail(s)[i] = s[i + 1]
<1>1. /\ Head(s) \in Lines /\ Tail(s) \in Seq(Lines) /\ Len(Tail(s)) = Len(s) - 1
      /\ \A i \in 1..Len(Tail(s)) : Tail(s)[i] = s[i + 1]
  BY HeadTailProperties
<1>2. Len(s) \in Nat /\ DOMAIN s = 1..Len(s) /\ Len(s) # 0
  BY LenProperties, EmptySeq
<1>3. DOMAIN Tail(s) = 1..Len(Tail(s))
  BY <1>1, LenProperties
<1>4. Head(s) = s[1]
  OBVIOUS
<1>5. \A i \in 1..Len(s) - 1 : i + 1 \in 1..Len(s)
  BY <1>2
<1> QED
  BY <1>1, <1>2, <1>3, <1>4, <1>5

LEMMA PairAdds ==
  ASSUME LegacyLists, NEW url \in Urls, ~provider, NEW p, UNCHANGED provider,
         legacy' = [legacy EXCEPT ![url.host] = Append(@, p)]
  PROVE  /\ LegacyLists' /\ url.host \in Hosts
         /\ p \in ToSet(legacy'[url.host])
         /\ \A h \in Hosts : ToSet(legacy[h]) \subseteq ToSet(legacy'[h])
<1> DEFINE u == url.host
           T == ToSet(legacy[u])
<1>1. u \in Hosts /\ DOMAIN legacy' = Hosts
  BY DEF Hosts, LegacyLists
<1>2. legacy[u] \in Seq(T)
  BY <1>1 DEF LegacyLists
<1> HIDE DEF T
<1>3. /\ ToSet(Append(legacy[u], p)) = ToSet(legacy[u]) \cup {p}
      /\ Append(legacy[u], p) \in Seq(T \cup {p})
  <2>1. ToSet(Append(legacy[u], p)) = ToSet(legacy[u]) \cup {p}
    BY <1>2, AppendedSet, Zenon
  <2>2. Append(legacy[u], p) \in Seq(T \cup {p})
    BY <1>2, AppendedSeq, Zenon
  <2> QED
    BY <2>1, <2>2
<1>4. Append(legacy[u], p) \in Seq(ToSet(Append(legacy[u], p)))
  BY <1>3, Entries
<1>5. /\ legacy'[u] = Append(legacy[u], p)
      /\ \A h \in Hosts : h # u => legacy'[h] = legacy[h]
  BY <1>1 DEF LegacyLists
<1> HIDE DEF u
<1>6. LegacyLists'
  BY <1>1, <1>4, <1>5 DEF LegacyLists
<1>7. p \in ToSet(legacy'[u]) /\ \A h \in Hosts : ToSet(legacy[h]) \subseteq ToSet(legacy'[h])
  BY <1>3, <1>5
<1> QED
  BY <1>1, <1>6, <1>7 DEF u

(* A line that goes into the jar: what is owed stays there, but for what    *)
(* the line replaces, and its cookie is there.                              *)
LEMMA JarStores ==
  ASSUME IInv, provider, UNCHANGED provider, NEW x, x.line \in Lines, x.url \in Urls,
         jar' = add_cookie_str(jar, x.line, x.url),
         stamp' \in Nat, stamp' >= stamp, x.line.value \in 1..stamp'
  PROVE  /\ JarList'
         /\ \A y : Stored(jar, legacy, y) /\ (~Accepted(x.line) \/ ~Replaces(x, y))
                     => Stored(jar', legacy', y)
         /\ Accepted(x.line) => Stored(jar', legacy', x)
<1> DEFINE cookie == parse_set_cookie(x.line, x.url)
<1>1. JarList /\ 1..stamp \subseteq 1..stamp'
  BY SessionAssumption DEF IInv, Shared
<1>2. CASE ~Accepted(x.line)
  <2>1. jar' = jar
    BY <1>2, NotAccepted DEF add_cookie_str
  <2> QED
    BY <1>1, <1>2, <2>1 DEF JarList, DistinctKeys, Stored
<1>3. CASE Accepted(x.line)
  <2>1. cookie.value = x.line.value /\ cookie.path # <<>> /\ cookie # NoCookie
    BY <1>3, ParsedCookie
  <2>2. cookie = parse_set_cookie(x.line, x.url)
    OBVIOUS
  <2> HIDE DEF cookie
  <2>3. /\ ToSet(jar') = {k \in ToSet(jar) : Key(k) # Key(cookie)} \cup {cookie}
        /\ jar' \in Seq(ToSet(jar')) /\ DistinctKeys(jar')
    BY <1>1, <2>1, <2>2, JarAdds
  <2>4. JarList'
    BY <1>1, <2>1, <2>3 DEF JarList, DistinctKeys
  <2>5. ASSUME NEW y, Stored(jar, legacy, y), ~Replaces(x, y)
        PROVE  Stored(jar', legacy', y)
    <3>1. CASE Lost(y.line)
      BY <2>5, <3>1 DEF Stored
    <3>2. CASE ~Lost(y.line)
      <4> DEFINE k == parse_set_cookie(y.line, y.url)
      <4>1. /\ y.line \in Lines /\ y.url \in Urls /\ Accepted(y.line)
            /\ k \in ToSet(jar)
        BY <2>5, <3>2 DEF Stored
      <4>2. Key(k) # Key(cookie)
        BY <1>3, <2>2, <2>5, <3>2, <4>1, SameKey
      <4> HIDE DEF k
      <4>3. k \in ToSet(jar')
        BY <2>3, <4>1, <4>2
      <4> QED
        BY <2>5, <4>1, <4>3 DEF Stored, k
    <3> QED
      BY <3>1, <3>2
  <2>6. Stored(jar', legacy', x)
    BY <1>3, <2>2, <2>3 DEF Stored
  <2> QED
    BY <1>3, <2>4, <2>5, <2>6
<1> QED
  BY <1>2, <1>3

(* A line that goes into the legacy map.                                    *)
LEMMA PairStores ==
  ASSUME IInv, ~provider, UNCHANGED provider, NEW x, x.line \in Lines, x.url \in Urls,
         x.line.fault \in {"none", "no_name"},
         legacy' = [legacy EXCEPT ![x.url.host] = Append(@, LegacyPair(x.line))]
  PROVE  /\ LegacyLists'
         /\ \A y : Stored(jar, legacy, y) => Stored(jar', legacy', y)
         /\ Accepted(x.line) => Stored(jar', legacy', x)
<1> DEFINE p == LegacyPair(x.line)
<1>1. /\ LegacyLists' /\ x.url.host \in Hosts
      /\ p \in ToSet(legacy'[x.url.host])
      /\ \A h \in Hosts : ToSet(legacy[h]) \subseteq ToSet(legacy'[h])
  BY PairAdds DEF IInv, Shared
<1>2. \A y : Stored(jar, legacy, y) => Stored(jar', legacy', y)
  <2>1. \A u \in Urls : u.host \in Hosts
    BY DEF Hosts
  <2> QED
    BY <1>1, <2>1 DEF Stored
<1>3. ASSUME Accepted(x.line)
      PROVE  Stored(jar', legacy', x)
  <2>1. x.line.fault = "none"
    BY <1>3 DEF Accepted
  <2>2. p.name = x.line.name /\ p.value = x.line.value
    BY <2>1 DEF LegacyPair
  <2> HIDE DEF p
  <2> QED
    BY <1>1, <1>3, <2>2 DEF Stored
<1> QED
  BY <1>1, <1>2, <1>3

-----------------------------------------------------------------------------
(* The steps *)

LEMMA IdleCall == 
  ASSUME NEW n
  PROVE  CallType(Idle, n) /\ CallCarries(Idle) /\ Idle.owed = {}
<1>1. <<>> \in Seq(Lines) /\ DOMAIN <<>> = {}
  BY EmptySeq
<1>2. 0 \in 0..MaxRedirects
  BY SessionAssumption
<1> QED
  BY <1>1, <1>2 DEF Idle, CallType, IsCall, Fields, CallCarries

LEMMA InitInv ==
  ASSUME Init
  PROVE  IInv
<1>1. Sources
  <2>1. PICK setup \in Setups : default_headers = Built(setup.edits) /\ user = setup.user
    BY DEF Init
  <2>2. setup.user \in Seq(HeaderFrom("user")) /\ setup.edits \in Seq(EditSet)
    BY SessionAssumption DEF EditSet
  <2> QED
    BY <2>1, <2>2, BuiltHeaders DEF Sources
<1>2. <<>> \in Seq({}) /\ ToSet(<<>>) = {} /\ DOMAIN <<>> = {}
  BY EmptySeq DEF ToSet
<1>3. JarList
  BY <1>2 DEF Init, JarList, DistinctKeys
<1>4. LegacyLists
  BY <1>2 DEF Init, LegacyLists
<1>5. Shared
  BY <1>1, <1>3, <1>4, SessionAssumption DEF Init, Shared
<1>6. ASSUME NEW c \in Calls
      PROVE  CallOK(calls[c])
  BY IdleCall DEF Init, CallOK
<1> QED
  BY <1>5, <1>6 DEF Init, IInv

LEMMA sendInv ==
  ASSUME IInv, NEW c \in Calls, send(c)
  PROVE  IInv'
<1>1. PICK url, call :
         url \in Urls /\ call = [Idle EXCEPT !.pc = "take", !.url = url] /\ Set(c, call)
  BY Zenon DEF send
<1>2. /\ stamp' = stamp /\ stamp' \in 0..MaxStamp /\ stamp' >= stamp
      /\ UNCHANGED <<provider, default_headers, user, jar, legacy>>
  BY SessionAssumption DEF send, IInv, Shared
<1>3. CallType(Idle, stamp')
  BY IdleCall
<1>4. call = [pc |-> "take", url |-> url, hops |-> 0, headers |-> <<>>,
              sent |-> <<>>, lines |-> <<>>, next |-> NoUrl, owed |-> {},
              due |-> {}]
  BY <1>1 DEF Idle
<1>5. /\ IsCall(call) /\ call.pc = "take" /\ call.url = url /\ call.owed = {}
      /\ call.hops = Idle.hops /\ call.next = Idle.next /\ call.lines = Idle.lines
  BY <1>4 DEF IsCall, Fields, Idle
<1>6. CallType(call, stamp')
  BY <1>1, <1>3, <1>5 DEF CallType
<1>7. CallCarries(call)
  BY <1>5 DEF CallCarries
<1> QED
  BY <1>1, <1>2, <1>5, <1>6, <1>7, OneCall, Zenon

(* What is owed and due to the URL is among the cookies for it.             *)
LEMMA CookiesForOwed ==
  ASSUME Shared, NEW url \in Urls, NEW x, Stored(jar, legacy, x),
         MeantFor(x, url), ~Excepted(x, url)
  PROVE  \E s \in ToSet(CookiesFor(url)) : s.name = x.line.name /\ s.value = x.line.value
<1>1. CASE provider
  <2> DEFINE I == {i \in DOMAIN jar : Matches(jar[i], url)}
             J == ToSet(jar)
             cookie == parse_set_cookie(x.line, x.url)
  <2>1. jar \in Seq(J)
    BY <1>1 DEF Shared, JarList
  <2>2. cookie \in J
    BY <1>1 DEF Stored, Lost, Excepted
  <2>3. Matches(cookie, url)
    BY <1>1, MeantMatches DEF Stored
  <2>4. cookie.name = x.line.name /\ cookie.value = x.line.value
    BY ParsedCookie DEF Stored
  <2> HIDE DEF cookie
  <2>5. PICK i \in DOMAIN jar : cookie = jar[i]
    BY <2>2 DEF ToSet
  <2>6. i \in I \cap DOMAIN jar
    BY <2>3, <2>5
  <2> HIDE DEF I, J
  <2>7. ToSet(Retained(jar, I)) = {jar[k] : k \in I \cap DOMAIN jar}
    BY <2>1, RetainedEntries
  <2>8. cookie \in ToSet(Retained(jar, I))
    BY <2>5, <2>6, <2>7
  <2>9. CookiesFor(url) = Retained(jar, I)
    BY <1>1 DEF CookiesFor, cookies, I
  <2> QED
    BY <2>4, <2>8, <2>9
<1>2. CASE ~provider
  BY <1>2 DEF Stored, Excepted, CookiesFor
<1> QED
  BY <1>1, <1>2

LEMMA BuildInv ==
  ASSUME IInv, NEW c \in Calls, Build(c)
  PROVE  IInv'
<1> DEFINE r == calls[c]
           sent == CookiesFor(r.url)
           due == {x \in r.owed : MeantFor(x, r.url) /\ ~Excepted(x, r.url)}
<1>1. PICK call : /\ call = [r EXCEPT !.pc = "exchange", !.sent = sent,
                                       !.headers = Headers(sent), !.due = due]
                  /\ Set(c, call)
  BY Zenon DEF Build
<1>2. CallOK(r) /\ r.pc = "take" /\ IsCall(r) /\ Shared
  BY DEF Build, IInv, CallOK, CallType
<1>3. r.url \in Urls
  BY <1>2 DEF CallOK, CallType
<1>4. \A x \in due : \E s \in ToSet(sent) : s.name = x.line.name /\ s.value = x.line.value
  BY <1>2, <1>3, CookiesForOwed DEF CallOK
<1>5. /\ stamp' = stamp /\ stamp' \in 0..MaxStamp /\ stamp' >= stamp
      /\ UNCHANGED <<provider, default_headers, user, jar, legacy>>
  BY <1>2, SessionAssumption DEF Build, Shared
<1> HIDE DEF sent, due, r
<1>6. call = [pc |-> "exchange", url |-> r.url, hops |-> r.hops,
              headers |-> Headers(sent), sent |-> sent, lines |-> r.lines,
              next |-> r.next, owed |-> r.owed, due |-> due]
  BY <1>1, <1>2 DEF IsCall, Fields
<1>7. /\ IsCall(call) /\ call.pc = "exchange" /\ call.url = r.url /\ call.hops = r.hops
      /\ call.headers = Headers(sent) /\ call.sent = sent /\ call.lines = r.lines
      /\ call.next = r.next /\ call.owed = r.owed /\ call.due = due
  BY <1>6 DEF IsCall, Fields
<1>8. CallType(call, stamp')
  BY <1>2, <1>3, <1>5, <1>7 DEF CallOK, CallType
<1>9. CallCarries(call)
  BY <1>4, <1>7 DEF CallCarries
<1>10. \A x \in call.owed : Stored(jar, legacy, x)
  BY <1>2, <1>7 DEF CallOK
<1> QED
  BY <1>1, <1>5, <1>8, <1>9, <1>10, OneCall, Zenon

LEMMA AnsweredInv ==
  ASSUME IInv, NEW c \in Calls, Answered(c)
  PROVE  IInv'
<1> DEFINE r == calls[c]
           stamped(lines) == [i \in DOMAIN lines |-> [lines[i] EXCEPT !.value = stamp + i]]
<1>1. PICK lines, next, call :
         /\ lines \in Responses /\ next \in Urls \cup {NoUrl}
         /\ stamp + Len(lines) <= MaxStamp
         /\ call = [r EXCEPT
               !.pc = "cookies", !.next = next, !.headers = <<>>, !.sent = <<>>, !.due = {},
               !.lines = stamped(lines)]
         /\ Set(c, call)
         /\ stamp' = stamp + Len(lines)
  BY Zenon DEF Answered
<1> DEFINE new == stamped(lines)
<1>2. /\ CallOK(r) /\ r.pc = "exchange" /\ IsCall(r) /\ Shared
      /\ UNCHANGED <<provider, default_headers, user, jar, legacy>>
  BY DEF Answered, IInv, CallOK, CallType
<1>3. lines \in Seq(Lines) /\ Len(lines) \in Nat /\ DOMAIN lines = 1..Len(lines)
  BY <1>1, SessionAssumption, LenProperties
<1>4. stamp \in Nat /\ stamp' \in 0..MaxStamp /\ stamp' >= stamp
  BY <1>1, <1>2, <1>3, SessionAssumption DEF Shared
<1>5. /\ new \in Seq(Lines) /\ DOMAIN new = DOMAIN lines
      /\ \A i \in DOMAIN new : new[i].value = stamp + i
  <2>1. ASSUME NEW i \in 1..Len(lines)
        PROVE  /\ [lines[i] EXCEPT !.value = stamp + i] \in Lines
               /\ [lines[i] EXCEPT !.value = stamp + i].value = stamp + i
    <3>1. lines[i] \in Lines /\ stamp + i \in Nat
      BY <1>3, <1>4, ElementOfSeq
    <3> QED
      BY <3>1 DEF Lines
  <2>2. new \in [1..Len(lines) -> Lines]
    BY <1>3, <2>1
  <2>3. new \in Seq(Lines)
    BY <1>3, <2>2, SeqDef
  <2> QED
    BY <1>3, <2>1, <2>3
<1>6. \A i \in DOMAIN new : new[i].value \in 1..stamp'
  <2>1. \A i \in 1..Len(lines) : stamp + i \in 1..stamp + Len(lines)
    BY <1>3, <1>4
  <2> QED
    BY <1>1, <1>3, <1>5, <2>1
<1> HIDE DEF new, r
<1>7. call = [pc |-> "cookies", url |-> r.url, hops |-> r.hops,
              headers |-> <<>>, sent |-> <<>>, lines |-> new,
              next |-> next, owed |-> r.owed, due |-> {}]
  <2>1. call = [r EXCEPT !.pc = "cookies", !.next = next, !.headers = <<>>, !.sent = <<>>,
                         !.due = {}, !.lines = new]
    BY <1>1, Zenon DEF new
  <2> QED
    BY <1>2, <2>1 DEF IsCall, Fields
<1>8. /\ IsCall(call) /\ call.pc = "cookies" /\ call.url = r.url /\ call.hops = r.hops
      /\ call.lines = new /\ call.next = next /\ call.owed = r.owed
  BY <1>7 DEF IsCall, Fields
<1>9. CallType(call, stamp')
  BY <1>1, <1>2, <1>5, <1>6, <1>8 DEF CallOK, CallType
<1>10. CallCarries(call) /\ \A x \in call.owed : Stored(jar, legacy, x)
  BY <1>2, <1>8 DEF CallCarries, CallOK
<1> QED
  BY <1>1, <1>2, <1>4, <1>9, <1>10, OneCall, Zenon

LEMMA ExchangeFailsInv ==
  ASSUME IInv, NEW c \in Calls, ExchangeFails(c)
  PROVE  IInv'
<1>1. /\ stamp' = stamp /\ stamp' \in 0..MaxStamp /\ stamp' >= stamp
      /\ UNCHANGED <<provider, default_headers, user, jar, legacy>> /\ Set(c, Idle)
  BY SessionAssumption DEF ExchangeFails, IInv, Shared
<1>2. CallType(Idle, stamp') /\ CallCarries(Idle) /\ Idle.owed = {}
  BY IdleCall
<1> QED
  BY <1>1, <1>2, OneCall, Zenon

LEMMA DecideInv ==
  ASSUME IInv, NEW c \in Calls, Decide(c)
  PROVE  IInv'
<1>1. /\ stamp' = stamp /\ stamp' \in 0..MaxStamp /\ stamp' >= stamp
      /\ UNCHANGED <<provider, default_headers, user, jar, legacy>>
  BY SessionAssumption DEF Decide, IInv, Shared
<1> DEFINE r == calls[c]
<1>2. CallOK(r) /\ CallType(r, stamp) /\ IsCall(r)
  BY DEF IInv, CallOK, CallType
<1>3. CASE r.next # NoUrl /\ r.hops < MaxRedirects
  <2>1. PICK call : /\ call = [r EXCEPT !.pc = "take", !.url = r.next,
                                         !.hops = r.hops + 1, !.next = NoUrl]
                    /\ Set(c, call)
    BY <1>3, Zenon DEF Decide
  <2> HIDE DEF r
  <2>2. call = [pc |-> "take", url |-> r.next, hops |-> r.hops + 1,
                headers |-> r.headers, sent |-> r.sent, lines |-> r.lines,
                next |-> NoUrl, owed |-> r.owed, due |-> r.due]
    BY <1>2, <2>1 DEF IsCall, Fields
  <2>3. IsCall(call) /\ call.pc = "take" /\ call.url = r.next /\ call.hops = r.hops + 1
        /\ call.lines = r.lines /\ call.next = NoUrl /\ call.owed = r.owed
    BY <2>2 DEF IsCall, Fields
  <2>4. r.hops + 1 \in 0..MaxRedirects /\ r.next \in Urls
    BY <1>2, <1>3, SessionAssumption DEF CallType
  <2>5. CallType(call, stamp')
    BY <1>1, <1>2, <2>3, <2>4 DEF CallType
  <2>6. CallCarries(call) /\ \A x \in call.owed : Stored(jar, legacy, x)
    BY <1>2, <2>3 DEF CallCarries, CallOK
  <2> QED
    BY <1>1, <2>1, <2>5, <2>6, OneCall, Zenon
<1>4. CASE ~(r.next # NoUrl /\ r.hops < MaxRedirects)
  <2>1. Set(c, Idle)
    BY <1>4 DEF Decide
  <2>2. CallType(Idle, stamp') /\ CallCarries(Idle) /\ Idle.owed = {}
    BY IdleCall
  <2> QED
    BY <1>1, <2>1, <2>2, OneCall, Zenon
<1> QED
  BY <1>3, <1>4

(* The lines that a call has yet to store, before and after a step that may *)
(* have added to the stamps.                                                *)
LEMMA LinesLeft ==
  ASSUME IInv, NEW d \in Calls, stamp' \in Nat, stamp' >= stamp
  PROVE  /\ IsCall(calls[d]) /\ calls[d].lines \in Seq(Lines)
         /\ \A i \in DOMAIN calls[d].lines : calls[d].lines[i].value \in 1..stamp'
         /\ \A x \in calls[d].owed : Stored(jar, legacy, x)
<1>1. 1..stamp \subseteq 1..stamp'
  BY SessionAssumption DEF IInv, Shared
<1> QED
  BY <1>1 DEF IInv, CallOK, CallType

LEMMA StoreCookieInv ==
  ASSUME IInv, NEW c \in Calls, StoreCookie(c)
  PROVE  IInv'
<1> DEFINE r == calls[c]
           line == Head(r.lines)
           x == [line |-> line, url |-> r.url]
           dropped == ~Accepted(line)
           owing == IF Accepted(line) THEN Owing(c, x) ELSE calls
           owed == [d \in Calls |->
                      IF dropped THEN calls[d].owed
                      ELSE {y \in calls[d].owed : ~Replaces(x, y)}
                             \cup IF d = c THEN {x} ELSE {}]
           lines == [d \in Calls |-> IF d = c THEN Tail(r.lines) ELSE calls[d].lines]
<1>1. /\ r.pc = "cookies" /\ r.lines # <<>> /\ KeepLine(line, r.url)
      /\ calls' = [owing EXCEPT ![c].lines = Tail(@)]
      /\ UNCHANGED <<provider, default_headers, user, stamp>>
  BY Zenon DEF StoreCookie
<1>2. stamp \in Nat /\ stamp' = stamp /\ stamp' \in 0..MaxStamp /\ stamp' >= stamp
  BY <1>1, SessionAssumption DEF IInv, Shared
<1>3. ASSUME NEW d \in Calls
      PROVE  /\ IsCall(calls[d]) /\ calls[d].lines \in Seq(Lines)
             /\ \A i \in DOMAIN calls[d].lines : calls[d].lines[i].value \in 1..stamp'
             /\ \A y \in calls[d].owed : Stored(jar, legacy, y)
  BY <1>2, LinesLeft
<1>4. r.url \in Urls
  BY <1>1 DEF IInv, CallOK, CallType
<1>5. /\ line \in Lines /\ line.value \in 1..stamp' /\ Tail(r.lines) \in Seq(Lines)
      /\ \A i \in DOMAIN Tail(r.lines) : Tail(r.lines)[i].value \in 1..stamp'
  <2>1. r.lines \in Seq(Lines) /\ r.lines # <<>>
    BY <1>1, <1>3
  <2>2. \A i \in DOMAIN r.lines : r.lines[i].value \in 1..stamp'
    BY <1>3
  <2> HIDE DEF r
  <2>3. /\ line \in Lines /\ Tail(r.lines) \in Seq(Lines) /\ line = r.lines[1]
        /\ 1 \in DOMAIN r.lines
        /\ \A i \in DOMAIN Tail(r.lines) :
              i + 1 \in DOMAIN r.lines /\ Tail(r.lines)[i] = r.lines[i + 1]
    BY <2>1, HeadTail
  <2> QED
    BY <2>2, <2>3
<1>6. \A d \in Calls : /\ lines[d] \in Seq(Lines)
                       /\ \A i \in DOMAIN lines[d] : lines[d][i].value \in 1..stamp'
  BY <1>3, <1>5
<1>x. x.line = line /\ x.url = r.url
  OBVIOUS
<1> HIDE DEF x
<1>7. /\ JarList' /\ LegacyLists'
      /\ \A y : Stored(jar, legacy, y) /\ (dropped \/ ~Replaces(x, y))
                  => Stored(jar', legacy', y)
      /\ ~dropped => Stored(jar', legacy', x)
  <2> HIDE DEF line
  <2>1. CASE provider
    <3>1. jar' = add_cookie_str(jar, x.line, x.url) /\ UNCHANGED legacy
      BY <1>1, <1>x, <2>1 DEF KeepLine
    <3>2. /\ JarList'
          /\ \A y : Stored(jar, legacy, y) /\ (~Accepted(x.line) \/ ~Replaces(x, y))
                     => Stored(jar', legacy', y)
          /\ Accepted(x.line) => Stored(jar', legacy', x)
      <4>1. x.line \in Lines /\ x.url \in Urls /\ x.line.value \in 1..stamp'
        BY <1>4, <1>5, <1>x
      <4>2. stamp' \in Nat /\ stamp' >= stamp /\ UNCHANGED provider
        BY <1>1, <1>2
      <4> HIDE DEF r
      <4> QED
        BY <2>1, <3>1, <4>1, <4>2, JarStores, Zenon
    <3>3. LegacyLists'
      BY <1>1, <3>1 DEF IInv, Shared, LegacyLists
    <3> QED
      BY <1>x, <3>2, <3>3
  <2>2. CASE ~provider /\ line.fault \in {"none", "no_name"}
    <3>1. /\ legacy' = [legacy EXCEPT ![x.url.host] = Append(@, LegacyPair(x.line))]
          /\ UNCHANGED jar
      BY <1>1, <1>x, <2>2 DEF KeepLine
    <3>2. /\ LegacyLists'
          /\ \A y : Stored(jar, legacy, y) => Stored(jar', legacy', y)
          /\ Accepted(x.line) => Stored(jar', legacy', x)
      <4>1. x.line \in Lines /\ x.url \in Urls /\ x.line.fault \in {"none", "no_name"}
        BY <1>4, <1>5, <1>x, <2>2
      <4>2. ~provider /\ UNCHANGED provider
        BY <1>1, <2>2
      <4> HIDE DEF r
      <4> QED
        BY <3>1, <4>1, <4>2, PairStores, Zenon
    <3>3. JarList'
      BY <1>1, <1>2, <3>1 DEF IInv, Shared, JarList, DistinctKeys
    <3> QED
      BY <1>x, <3>2, <3>3
  <2>3. CASE ~provider /\ line.fault \notin {"none", "no_name"}
    <3>1. UNCHANGED <<jar, legacy, provider>>
      BY <1>1, <2>3 DEF KeepLine
    <3>2. JarList' /\ LegacyLists'
      BY <1>1, <1>2, <3>1 DEF IInv, Shared, JarList, DistinctKeys, LegacyLists
    <3>3. \A y : Stored(jar, legacy, y) => Stored(jar', legacy', y)
      BY <3>1
    <3>4. ~dropped => Stored(jar', legacy', x)
      BY <1>4, <1>5, <1>x, <2>3 DEF Accepted, Stored
    <3> QED
      BY <3>2, <3>3, <3>4
  <2> QED
    BY <2>1, <2>2, <2>3
<1>8. \A d \in Calls : \A y \in owed[d] : Stored(jar', legacy', y)
  <2> HIDE DEF dropped, r
  <2> SUFFICES ASSUME NEW d \in Calls, NEW y \in owed[d]
               PROVE  Stored(jar', legacy', y)
    OBVIOUS
  <2>1. \/ y \in calls[d].owed /\ (dropped \/ ~Replaces(x, y))
        \/ ~dropped /\ y = x
    OBVIOUS
  <2> HIDE DEF owed
  <2>2. CASE y \in calls[d].owed /\ (dropped \/ ~Replaces(x, y))
    <3>1. Stored(jar, legacy, y)
      BY <1>3, <2>2
    <3> QED
      BY <1>7, <2>2, <3>1, Zenon
  <2>3. CASE ~dropped /\ y = x
    BY <1>7, <2>3, Zenon
  <2> QED
    BY <2>1, <2>2, <2>3
<1>9. DOMAIN calls' = Calls /\ \A d \in Calls : calls'[d] = With(calls[d], owed[d], lines[d])
  <2>1. DOMAIN owing = Calls
    BY DEF IInv, Owing
  <2>2. ASSUME NEW d \in Calls
        PROVE  owing[d] = With(calls[d], owed[d], calls[d].lines)
    <3>1. CASE dropped
      BY <1>3, <3>1, WithFields
    <3>2. CASE ~dropped
      <4>1. owing[d] = [calls[d] EXCEPT !.owed =
                          {y \in @ : ~Replaces(x, y)}
                            \cup IF d = c THEN {x} ELSE {}]
        BY <3>2 DEF Owing
      <4>2. owing[d] = [calls[d] EXCEPT !.owed = owed[d]]
        BY <3>2, <4>1, Zenon
      <4> HIDE DEF owed, owing
      <4> QED
        BY <1>3, <4>2, WithFields
    <3> QED
      BY <3>1, <3>2
  <2> HIDE DEF owed, owing
  <2>3. DOMAIN calls' = Calls
    BY <1>1, <2>1
  <2>4. ASSUME NEW d \in Calls, d # c
        PROVE  calls'[d] = With(calls[d], owed[d], lines[d])
    BY <1>1, <2>1, <2>2, <2>4
  <2>5. calls'[c] = With(calls[c], owed[c], lines[c])
    <3>1. calls'[c] = [owing[c] EXCEPT !.lines = Tail(@)]
      BY <1>1, <2>1
    <3> DEFINE o == owing[c]
    <3>2. o = With(r, owed[c], r.lines)
      BY <2>2
    <3>3. IsCall(o) /\ o.owed = owed[c] /\ o.lines = r.lines
      BY <3>2, WithCall
    <3>4. calls'[c] = [o EXCEPT !.lines = Tail(r.lines)]
      BY <3>1, <3>3
    <3>5. lines[c] = Tail(r.lines)
      OBVIOUS
    <3> HIDE DEF o, lines
    <3>6. [o EXCEPT !.lines = Tail(r.lines)] = With(o, o.owed, Tail(r.lines))
      BY <3>3, WithFields, Zenon
    <3>7. With(o, owed[c], lines[c]) = With(calls[c], owed[c], lines[c])
      BY <3>2 DEF With
    <3> QED
      BY <3>3, <3>4, <3>5, <3>6, <3>7
  <2> QED
    BY <2>3, <2>4, <2>5
<1>10. UNCHANGED <<provider, default_headers, user>>
  BY <1>1
<1> HIDE DEF owed, lines, dropped, r
<1> QED
  BY <1>2, <1>6, <1>7, <1>8, <1>9, <1>10, CookiesChange, Zenon

LEMMA AddCookieInv ==
  ASSUME IInv, NEW a \in AppCookies, AddCookie(a.line, a.url)
  PROVE  IInv'
<1> DEFINE stamped == [a.line EXCEPT !.value = stamp + 1]
           x == [line |-> stamped, url |-> a.url]
           owed == [d \in Calls |->
                      IF Accepted(a.line) THEN {y \in calls[d].owed : ~Replaces(x, y)}
                      ELSE calls[d].owed]
           lines == [d \in Calls |-> calls[d].lines]
<1>1. /\ provider /\ stamp < MaxStamp /\ stamp' = stamp + 1
      /\ UNCHANGED <<provider, default_headers, user>>
      /\ KeepLine(stamped, a.url)
      /\ calls' = IF Accepted(a.line)
                  THEN [d \in Calls |-> [calls[d] EXCEPT
                          !.owed = {y \in @ : ~Replaces(x, y)}]]
                  ELSE calls
  BY Zenon DEF AddCookie
<1>2. stamp \in Nat /\ stamp' \in Nat /\ stamp' \in 0..MaxStamp /\ stamp' >= stamp
  BY <1>1, SessionAssumption DEF IInv, Shared
<1>3. ASSUME NEW d \in Calls
      PROVE  /\ IsCall(calls[d]) /\ calls[d].lines \in Seq(Lines)
             /\ \A i \in DOMAIN calls[d].lines : calls[d].lines[i].value \in 1..stamp'
             /\ \A y \in calls[d].owed : Stored(jar, legacy, y)
  BY <1>2, LinesLeft
<1>4. /\ stamped.value \in 1..stamp' /\ stamped \in Lines
      /\ Accepted(stamped) <=> Accepted(a.line)
  <2>1. a.line \in Lines /\ stamp + 1 \in Nat
    BY <1>2, SessionAssumption
  <2>2. stamped.value = stamp + 1 /\ stamped.fault = a.line.fault /\ stamped \in Lines
    BY <2>1 DEF Lines
  <2> HIDE DEF stamped
  <2> QED
    BY <1>1, <1>2, <2>2 DEF Accepted
<1>x. x.line = stamped /\ x.url = a.url /\ a.url \in Urls
  BY SessionAssumption
<1> HIDE DEF stamped, x
<1>5. jar' = add_cookie_str(jar, x.line, x.url) /\ UNCHANGED legacy
  BY <1>1, <1>x DEF KeepLine
<1>6. /\ JarList'
      /\ \A y : Stored(jar, legacy, y) /\ (~Accepted(x.line) \/ ~Replaces(x, y))
                  => Stored(jar', legacy', y)
  <2>1. x.line \in Lines /\ x.url \in Urls /\ x.line.value \in 1..stamp'
    BY <1>4, <1>x
  <2>2. provider /\ UNCHANGED provider
    BY <1>1
  <2> QED
    BY <1>2, <1>5, <2>1, <2>2, JarStores, Zenon
<1>7. LegacyLists'
  BY <1>1, <1>5 DEF IInv, Shared, LegacyLists
<1>8. \A d \in Calls : \A y \in owed[d] : Stored(jar', legacy', y)
  <2> SUFFICES ASSUME NEW d \in Calls, NEW y \in owed[d]
               PROVE  Stored(jar', legacy', y)
    OBVIOUS
  <2>1. y \in calls[d].owed /\ (~Accepted(x.line) \/ ~Replaces(x, y))
    BY <1>4, <1>x
  <2> QED
    BY <1>3, <1>6, <2>1
<1>9. \A d \in Calls : /\ lines[d] \in Seq(Lines)
                       /\ \A i \in DOMAIN lines[d] : lines[d][i].value \in 1..stamp'
  BY <1>3
<1>10. ASSUME NEW d \in Calls
       PROVE  calls'[d] = With(calls[d], owed[d], lines[d])
  <2>1. CASE ~Accepted(a.line)
    <3>1. calls'[d] = calls[d] /\ owed[d] = calls[d].owed /\ lines[d] = calls[d].lines
      BY <1>1, <2>1
    <3> QED
      BY <1>3, <3>1, WithFields
  <2>2. CASE Accepted(a.line)
    <3>1. lines[d] = calls[d].lines
      OBVIOUS
    <3>2. calls'[d] = [calls[d] EXCEPT !.owed = {y \in calls[d].owed : ~Replaces(x, y)}]
      BY <1>1, <2>2
    <3>3. calls'[d] = [calls[d] EXCEPT !.owed = owed[d]]
      BY <2>2, <3>2
    <3> HIDE DEF owed, lines
    <3>4. [calls[d] EXCEPT !.owed = owed[d]] = With(calls[d], owed[d], calls[d].lines)
      BY <1>3, WithFields, Zenon
    <3> QED
      BY <3>1, <3>3, <3>4, Zenon
  <2> QED
    BY <2>1, <2>2
<1>11. DOMAIN calls' = Calls /\ UNCHANGED <<provider, default_headers, user>>
  BY <1>1 DEF IInv
<1> HIDE DEF owed, lines
<1> QED
  BY <1>2, <1>6, <1>7, <1>8, <1>9, <1>10, <1>11, CookiesChange, Zenon

LEMMA clearInv ==
  ASSUME IInv, clear
  PROVE  IInv'
<1> DEFINE owed == [d \in Calls |-> {}]
           lines == [d \in Calls |-> calls[d].lines]
<1>1. stamp' \in Nat /\ stamp' \in 0..MaxStamp /\ stamp' >= stamp
  BY SessionAssumption DEF clear, IInv, Shared
<1>2. ASSUME NEW d \in Calls
      PROVE  /\ IsCall(calls[d]) /\ calls[d].lines \in Seq(Lines)
             /\ \A i \in DOMAIN calls[d].lines : calls[d].lines[i].value \in 1..stamp'
  BY <1>1, LinesLeft
<1>3. JarList'
  <2>1. <<>> \in Seq({}) /\ ToSet(<<>>) = {} /\ DOMAIN <<>> = {}
    BY EmptySeq DEF ToSet
  <2> QED
    BY <2>1 DEF clear, JarList, DistinctKeys
<1>4. LegacyLists'
  BY DEF clear, IInv, Shared, LegacyLists
<1>5. \A d \in Calls : /\ lines[d] \in Seq(Lines)
                       /\ \A i \in DOMAIN lines[d] : lines[d][i].value \in 1..stamp'
  BY <1>2
<1>6. \A d \in Calls : \A x \in owed[d] : Stored(jar', legacy', x)
  OBVIOUS
<1>7. ASSUME NEW d \in Calls
      PROVE  calls'[d] = With(calls[d], owed[d], lines[d])
  <2>1. calls'[d] = [calls[d] EXCEPT !.owed = {}]
    BY DEF clear
  <2>2. owed[d] = {} /\ lines[d] = calls[d].lines
    OBVIOUS
  <2> HIDE DEF owed, lines
  <2>3. [calls[d] EXCEPT !.owed = {}] = With(calls[d], {}, calls[d].lines)
    BY <1>2, WithFields, Zenon
  <2> QED
    BY <2>1, <2>2, <2>3, Zenon
<1>8. DOMAIN calls' = Calls /\ UNCHANGED <<provider, default_headers, user>>
  BY DEF clear, IInv
<1> HIDE DEF owed, lines
<1> QED
  BY <1>1, <1>3, <1>4, <1>5, <1>6, <1>7, <1>8, CookiesChange, Zenon

LEMMA NextInv ==
  ASSUME IInv, [Next]_vars
  PROVE  IInv'
<1>1. CASE \E c \in Calls : send(c) \/ Build(c) \/ Answered(c)
                            \/ ExchangeFails(c) \/ StoreCookie(c) \/ Decide(c)
  BY <1>1, sendInv, BuildInv, AnsweredInv, ExchangeFailsInv, StoreCookieInv, DecideInv
<1>2. CASE \E a \in AppCookies : AddCookie(a.line, a.url)
  BY <1>2, AddCookieInv
<1>3. CASE clear
  BY <1>3, clearInv
<1>4. CASE UNCHANGED vars
  <2>1. Shared'
    BY <1>4 DEF vars, IInv, Shared, Sources, JarList, DistinctKeys, LegacyLists
  <2>2. ASSUME NEW d \in Calls
        PROVE  CallOK(calls[d])'
    <3>1. CallOK(calls[d]) /\ calls'[d] = calls[d] /\ stamp' = stamp
      BY <1>4 DEF vars, IInv
    <3>2. CallCarries(calls[d])' <=> CallCarries(calls'[d])
      BY <1>4 DEF vars, CallCarries, Headers, WithDefaults, Profile, Supplied
    <3>3. \A x : Stored(jar, legacy, x)' <=> Stored(jar, legacy, x)
      BY <1>4 DEF vars, Stored
    <3> QED
      BY <3>1, <3>2, <3>3 DEF CallOK
  <2> QED
    BY <1>4, <2>1, <2>2 DEF vars, IInv
<1> QED
  BY <1>1, <1>2, <1>3, <1>4 DEF Next

-----------------------------------------------------------------------------
(* The theorems *)

LEMMA Inductive == Spec => []IInv
<1>1. Init => IInv
  BY InitInv
<1>2. IInv /\ [Next]_vars => IInv'
  BY NextInv
<1> QED
  BY <1>1, <1>2, PTL DEF Spec

(* The jar has one cookie for a name, domain and path, and a jar and a      *)
(* legacy map are never both in use, whatever calls and application do.     *)
THEOREM SessionTyped == Spec => []TypeOK
<1>1. IInv => TypeOK
  <2> SUFFICES ASSUME IInv
               PROVE  TypeOK
    OBVIOUS
  <2>1. \A i \in DOMAIN jar : jar[i] \in ToSet(jar)
    BY DEF ToSet
  <2>2. \A i \in DOMAIN jar : jar[i].value \in 1..stamp /\ jar[i].path # <<>>
    BY <2>1 DEF IInv, Shared, JarList
  <2>3. \A i, j \in DOMAIN jar : Key(jar[i]) = Key(jar[j]) => i = j
    BY DEF IInv, Shared, JarList, DistinctKeys
  <2>4. (\E h \in Hosts : legacy[h] # <<>>) => ~provider
    BY DEF IInv, Shared, LegacyLists
  <2>5. provider \in BOOLEAN /\ stamp \in 0..MaxStamp /\ (jar # <<>> => provider)
    BY DEF IInv, Shared, JarList
  <2>6. \A c \in Calls : /\ calls[c].pc \in {"idle", "take", "exchange", "cookies"}
                         /\ calls[c].hops \in 0..MaxRedirects
    BY DEF IInv, CallOK, CallType
  <2> QED
    BY <2>2, <2>3, <2>4, <2>5, <2>6 DEF TypeOK
<1> QED
  BY <1>1, Inductive, PTL

(* A cookie that a response of the call has set, that RFC 6265 means for the *)
(* URL of the hop, but for the exceptions, and that nobody has replaced or  *)
(* cleared, is sent: whatever other calls and the application store while   *)
(* the call goes on.                                                        *)
THEOREM CookiesAreCarried == Spec => []HopCarriesCookies
<1>1. IInv => HopCarriesCookies
  BY DEF IInv, CallOK, CallCarries, HopCarriesCookies
<1> QED
  BY <1>1, Inductive, PTL

(* For any headers of the caller, the client and the profile: the caller's  *)
(* win over the defaults, and these over the profile's.  The profile's      *)
(* hints, when sec-ch-ua is not supplied, and the cookies of the jar go     *)
(* before a default one and beside the caller's (lib.rs:595-665).           *)
THEOREM SuppliedHeadersWin == Spec => []SuppliedWins
<1>1. IInv => SuppliedWins
  <2> SUFFICES ASSUME IInv, NEW c \in Calls, calls[c].pc = "exchange"
               PROVE  /\ \A name \in HeaderNames \ {"cookie"} :
                            IF name \in ToSet(Hints) /\ ~Supplied("sec-ch-ua")
                            THEN SourcesOf(c, name) =
                                   {"profile"} \cup
                                      (IF Has(user, name) THEN {"user"} ELSE {})
                            ELSE FromItsSource(c, name)
                      /\ SourcesOf(c, "cookie") =
                           (IF calls[c].sent # <<>> THEN {"jar"} ELSE {})
                              \cup (IF Has(user, "cookie") THEN {"user"}
                                    ELSE IF Has(default_headers, "cookie")
                                            /\ calls[c].sent = <<>>
                                    THEN {"default"} ELSE {})
    BY DEF SuppliedWins
  <2> DEFINE sent == calls[c].sent
  <2>1. Sources /\ calls[c].headers = Headers(sent)
    BY DEF IInv, Shared, CallOK, CallCarries
  <2>2. ASSUME NEW name
        PROVE  SourcesOf(c, name) = Froms(sent, name)
    <3> DEFINE headers == Headers(sent)
    <3>1. SourcesOf(c, name) =
            {headers[i].from : i \in {j \in DOMAIN headers : headers[j].name = name}}
      BY <2>1 DEF SourcesOf
    <3> HIDE DEF headers
    <3>2. \A h : h \in ToSet(headers) <=> \E i \in DOMAIN headers : h = headers[i]
      BY DEF ToSet
    <3>3. SourcesOf(c, name) = {h.from : h \in {x \in ToSet(headers) : x.name = name}}
      BY <3>1, <3>2
    <3> QED
      BY <3>3 DEF Froms, headers
  <2> HIDE DEF sent
  <2>3. ASSUME NEW name, name # "cookie",
               ~(name \in ToSet(Hints) /\ ~Supplied("sec-ch-ua"))
        PROVE  FromItsSource(c, name)
    BY <2>1, <2>2, <2>3, HeadersSupplied DEF FromItsSource
  <2>4. ASSUME NEW name \in ToSet(Hints), ~Supplied("sec-ch-ua")
        PROVE  SourcesOf(c, name) =
                 {"profile"} \cup (IF Has(user, name) THEN {"user"} ELSE {})
    BY <2>1, <2>2, <2>4, HintHeaders
  <2>5. SourcesOf(c, "cookie") = Froms(sent, "cookie")
    BY <2>2
  <2> QED
    BY <2>1, <2>3, <2>4, <2>5, CookieHeaders DEF sent
<1> QED
  BY <1>1, Inductive, PTL

LEMMA JarSteps ==
  ASSUME IInv, [Next]_vars
  PROVE  \/ jar' = jar \/ jar' = <<>>
         \/ \E line, url : /\ parse_set_cookie(line, url) # NoCookie
                           /\ jar' = add_cookie_str(jar, line, url)
<1> DEFINE Kept == \/ jar' = jar
                   \/ \E line, url : jar' = add_cookie_str(jar, line, url)
<1>1. ASSUME NEW line, NEW url, KeepLine(line, url)
      PROVE  Kept
  BY <1>1 DEF KeepLine
<1>2. ASSUME NEW c \in Calls,
             send(c) \/ Build(c) \/ Answered(c) \/ ExchangeFails(c) \/ Decide(c)
      PROVE  jar' = jar
  BY <1>2, Zenon DEF send, Build, Answered, ExchangeFails, Decide
<1>3. ASSUME NEW c \in Calls, StoreCookie(c)
      PROVE  Kept
  <2>1. KeepLine(Head(calls[c].lines), calls[c].url)
    BY <1>3, Zenon DEF StoreCookie
  <2> HIDE DEF Kept
  <2> QED
    BY <1>1, <2>1
<1>4. ASSUME NEW a \in AppCookies, AddCookie(a.line, a.url)
      PROVE  Kept
  <2>1. KeepLine([a.line EXCEPT !.value = stamp + 1], a.url)
    BY <1>4, Zenon DEF AddCookie
  <2> HIDE DEF Kept
  <2> QED
    BY <1>1, <2>1
<1>5. clear => jar' = <<>>
  BY DEF clear
<1>6. UNCHANGED vars => jar' = jar
  BY DEF vars
<1>7. Kept \/ jar' = <<>>
  <2> HIDE DEF Kept
  <2>1. jar' = jar => Kept
    BY DEF Kept
  <2> QED
    BY <1>2, <1>3, <1>4, <1>5, <1>6, <2>1 DEF Next
<1>8. ASSUME NEW line, NEW url, jar' = add_cookie_str(jar, line, url),
             parse_set_cookie(line, url) = NoCookie
      PROVE  jar' = jar
  BY <1>8, Zenon DEF add_cookie_str
<1> QED
  BY <1>7, <1>8

(* The refinement: with calls and the application that use it at once, and  *)
(* with the list it is kept in, the jar is a store by name, domain and path. *)
THEOREM JarImplementsStore == Spec => JarIsAStore
<1>1. Init => Store!Init
  BY DEF Init, Store!Init, ToSet
<1>2. IInv /\ [Next]_vars => [Store!Next]_(ToSet(jar))
  <2> SUFFICES ASSUME IInv, [Next]_vars
               PROVE  Store!Next \/ ToSet(jar)' = ToSet(jar)
    OBVIOUS
  <2>1. CASE jar' = jar
    BY <2>1
  <2>2. CASE jar' = <<>>
    BY <2>2 DEF Store!Next, Store!Clear, ToSet
  <2>3. ASSUME NEW line, NEW url, parse_set_cookie(line, url) # NoCookie,
               jar' = add_cookie_str(jar, line, url)
        PROVE  Store!Put
    <3> DEFINE cookie == parse_set_cookie(line, url)
    <3>1. JarList /\ cookie = parse_set_cookie(line, url) /\ cookie # NoCookie
      BY <2>3 DEF IInv, Shared
    <3> HIDE DEF cookie
    <3>2. ToSet(jar') = {x \in ToSet(jar) : Key(x) # Key(cookie)} \cup {cookie}
      BY <2>3, <3>1, JarAdds, Zenon
    <3>3. ToSet(jar)' = ToSet(jar')
      OBVIOUS
    <3>4. \A x : Store!Key(x) = Key(x)
      BY DEF Store!Key, Key
    <3> QED
      BY <3>2, <3>3, <3>4 DEF Store!Put
  <2> QED
    BY <2>1, <2>2, <2>3, JarSteps DEF Store!Next
<1> QED
  BY <1>1, <1>2, Inductive, PTL DEF Spec, JarIsAStore, Store!Spec
=============================================================================
