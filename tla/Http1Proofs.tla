---------------------------- MODULE Http1Proofs ----------------------------
(***************************************************************************)
(* The HTTP/1.1 exchange, for all lengths, limits and sizes of a read: the *)
(* state keeps its types, Ok stands for a whole response, and a connection *)
(* goes back to the pool aligned.                                          *)
(*                                                                         *)
(* What is read and what is on its way are one stream, which a read leaves *)
(* as it is.  Each token of the stream says what follows it, so the rules  *)
(* hold for whatever is left when some of it is used.  How much of a body  *)
(* is still to come is the number of DATA tokens in the stream.            *)
(***************************************************************************)
EXTENDS Http1, FiniteSets, SequenceTheorems, FiniteSetTheorems, FunctionTheorems,
        WellFoundedInduction, TLAPS

(* What is left of a response, and what comes before a header section.     *)
Idle(t) == t.t \in {"crlf", "trailer"}
Early(t) == t.t \in {"line", "crlf", "trailer"}

NoBody(h, m) == h.status = "bodyless" \/ m = "HEAD"

(* A header section is that of request r by method m, whose response the   *)
(* server s is sending.                                                    *)
Tells(h, r, m, s) ==
    /\ h.req = r /\ h.status # "interim" /\ h.framing = s.framing
    /\ NoBody(h, m) => s.total = 0 /\ s.phase = "done"
    /\ ~NoBody(h, m) => h.len = s.total

(* Each token of the stream q says what follows it.                        *)
HeadRule(q, r, m, s) ==
    \A i \in 1..Len(q) : q[i].t = "head" =>
        /\ Tells(q[i], r, m, s)
        /\ \A j \in 1..Len(q) : j < i => Early(q[j])
        /\ q[i].framing # "chunked" => \A j \in 1..Len(q) : i < j => q[j] = Data(r)
        /\ q[i].framing = "chunked" /\ i < Len(q) => q[i + 1].t = "size"

(* From k on, q has n bytes, their CRLF, and then the next size.           *)
ChunkAt(q, k, n, r) ==
    /\ k + n <= Len(q)
    /\ \A j \in 1..Len(q) : k <= j /\ j < k + n => q[j] = Data(r)
    /\ q[k + n].t = "crlf"
    /\ k + n < Len(q) => q[k + n + 1].t = "size"

ChunkRule(q, r) ==
    \A i \in 1..Len(q) : q[i].t = "size" /\ q[i].n > 0 => ChunkAt(q, i + 1, q[i].n, r)

LastRule(q, s) ==
    \A i \in 1..Len(q) : q[i].t = "size" =>
        /\ s.framing = "chunked"
        /\ q[i].n = 0 => s.phase = "done" /\ \A j \in 1..Len(q) : i < j => Idle(q[j])

Rules(q, r, m, s) == HeadRule(q, r, m, s) /\ ChunkRule(q, r) /\ LastRule(q, s)

DataIn(q) == Cardinality({i \in 1..Len(q) : q[i].t = "data"})

Stream == buf \o wire

Counted == Len(body) + DataIn(Stream) + srv.left = srv.total

InHead ==
    /\ body = <<>>
    /\ srv.phase = "requested" => \A i \in 1..Len(Stream) : Early(Stream[i])
    /\ srv.phase # "requested" => \E i \in 1..Len(Stream) : Stream[i].t = "head"

InBody ==
    /\ Tells(head, req, method, srv) /\ srv.phase # "requested"
    /\ \A i \in 1..Len(Stream) : Stream[i].t # "head"
    /\ \A i \in 1..Len(body) : body[i] = Data(req)

InSize == head.framing = "chunked" /\ (Stream # <<>> => Stream[1].t = "size")

InChunk == head.framing = "chunked" /\ need > 0 /\ ChunkAt(Stream, 1, need, req)

InPlain ==
    /\ head.framing = IF pc = "length" THEN "length" ELSE "none"
    /\ body = <<>> /\ \A i \in 1..Len(Stream) : Stream[i] = Data(req)

ServerOK ==
    /\ srv.phase \in {"requested", "closing", "done"} => srv.left = 0
    /\ srv.phase = "requested" => srv.total = 0
    /\ srv.phase = "closing" => srv.framing = "none"
    /\ srv.phase = "body" /\ srv.framing # "chunked" => srv.left > 0

Kept ==
    /\ buf = <<>> /\ \A i \in 1..Len(wire) : Idle(wire[i])
    /\ srv.phase = "done" \/ ~srv.up

Alone == asked = <<[req |-> req, method |-> method]>>

Framed ==
    /\ result = "ok" => pc \in {"idle", "dropped"} /\ srv.phase # "requested"
    /\ pc \notin {"idle", "dropped"} => Rules(Stream, req, method, srv) /\ Counted
    /\ pc = "idle" => Kept
    /\ pc = "head" => InHead
    /\ pc \in {"size", "chunk", "length", "close"} => InBody
    /\ pc = "size" => InSize
    /\ pc = "chunk" => InChunk
    /\ pc \in {"length", "close"} => InPlain

-----------------------------------------------------------------------------
(* Sequences *)

LEMMA AfterProps ==
  ASSUME NEW S, NEW q \in Seq(S), NEW k \in 0..Len(q)
  PROVE  /\ After(q, k) \in Seq(S) /\ Len(After(q, k)) = Len(q) - k
         /\ Len(q) \in Nat /\ k \in Nat
         /\ \A i \in 1..Len(q) - k : After(q, k)[i] = q[i + k]
<1>1. Len(q) \in Nat
  BY LenProperties
<1>2. k + 1 \in Int /\ Len(q) \in Int /\ k \in Nat
  BY <1>1
<1>3. \A i \in k + 1..Len(q) : q[i] \in S
  BY <1>1, ElementOfSeq
<1>4. /\ SubSeq(q, k + 1, Len(q)) \in Seq(S)
      /\ Len(SubSeq(q, k + 1, Len(q)))
            = IF k + 1 <= Len(q) THEN Len(q) - (k + 1) + 1 ELSE 0
      /\ \A i \in 1..Len(q) - (k + 1) + 1 :
            SubSeq(q, k + 1, Len(q))[i] = q[k + 1 + i - 1]
  BY <1>2, <1>3, SubSeqProperties
<1>5. \A i \in 1..Len(q) - k : k + 1 + i - 1 = i + k
  BY <1>2
<1>6. Len(q) - (k + 1) + 1 = Len(q) - k /\ (k + 1 <= Len(q) \/ Len(q) - k = 0)
  BY <1>1, <1>2
<1> QED
  BY <1>1, <1>2, <1>4, <1>5, <1>6 DEF After

LEMMA FirstProps ==
  ASSUME NEW S, NEW q \in Seq(S), NEW k \in 0..Len(q)
  PROVE  /\ SubSeq(q, 1, k) \in Seq(S) /\ Len(SubSeq(q, 1, k)) = k
         /\ Len(q) \in Nat /\ k \in Nat
         /\ \A i \in 1..k : SubSeq(q, 1, k)[i] = q[i]
<1>1. Len(q) \in Nat
  BY LenProperties
<1>2. 1 \in Int /\ k \in Int /\ k \in Nat
  BY <1>1
<1>3. \A i \in 1..k : q[i] \in S
  BY <1>1, ElementOfSeq
<1>4. /\ SubSeq(q, 1, k) \in Seq(S)
      /\ Len(SubSeq(q, 1, k)) = IF 1 <= k THEN k - 1 + 1 ELSE 0
      /\ \A i \in 1..k - 1 + 1 : SubSeq(q, 1, k)[i] = q[1 + i - 1]
  BY <1>2, <1>3, SubSeqProperties
<1>5. k - 1 + 1 = k /\ (1 <= k \/ k = 0) /\ \A i \in 1..k : 1 + i - 1 = i
  BY <1>2
<1> QED
  BY <1>1, <1>2, <1>4, <1>5

LEMMA CutJoin ==
  ASSUME NEW S, NEW q \in Seq(S), NEW k \in 0..Len(q)
  PROVE  SubSeq(q, 1, k) \o After(q, k) = q
<1>1. 1 \in 1..Len(q) + 1 /\ k \in 1 - 1..Len(q) /\ Len(q) \in k..Len(q)
  BY LenProperties
<1>2. SubSeq(q, 1, k) \o SubSeq(q, k + 1, Len(q)) = SubSeq(q, 1, Len(q))
  BY <1>1, ConcatAdjacentSubSeq
<1> QED
  BY <1>2, SubSeqFull DEF After

(* Using k tokens of what is read uses k tokens of the stream.             *)
LEMMA AfterJoin ==
  ASSUME NEW S, NEW p \in Seq(S), NEW w \in Seq(S), NEW k \in 0..Len(p)
  PROVE  /\ After(p, k) \o w = After(p \o w, k)
         /\ k \in 0..Len(p \o w)
         /\ \A i \in 1..Len(p) : (p \o w)[i] = p[i]
         /\ Len(p \o w) = Len(p) + Len(w)
<1>1. /\ Len(p) \in Nat /\ Len(w) \in Nat /\ k \in Nat
      /\ After(p, k) \in Seq(S) /\ Len(After(p, k)) = Len(p) - k
      /\ \A i \in 1..Len(p) - k : After(p, k)[i] = p[i + k]
  BY AfterProps, LenProperties
<1>2. /\ p \o w \in Seq(S) /\ Len(p \o w) = Len(p) + Len(w)
      /\ \A i \in 1..Len(p) + Len(w) :
            (p \o w)[i] = IF i <= Len(p) THEN p[i] ELSE w[i - Len(p)]
  BY ConcatProperties
<1>3. k \in 0..Len(p \o w)
  BY <1>1, <1>2
<1>4. /\ After(p \o w, k) \in Seq(S) /\ Len(After(p \o w, k)) = Len(p) + Len(w) - k
      /\ \A i \in 1..Len(p) + Len(w) - k : After(p \o w, k)[i] = (p \o w)[i + k]
  <2> DEFINE q == p \o w
  <2>1. q \in Seq(S) /\ k \in 0..Len(q) /\ Len(q) = Len(p) + Len(w)
    BY <1>2, <1>3
  <2> HIDE DEF q
  <2>2. /\ After(q, k) \in Seq(S) /\ Len(After(q, k)) = Len(q) - k
        /\ \A i \in 1..Len(q) - k : After(q, k)[i] = q[i + k]
    BY <2>1, AfterProps
  <2> QED
    BY <2>1, <2>2 DEF q
<1> DEFINE a == After(p, k) \o w
           b == After(p \o w, k)
<1>5. /\ a \in Seq(S) /\ Len(a) = Len(After(p, k)) + Len(w)
      /\ \A i \in 1..Len(After(p, k)) + Len(w) :
            a[i] = IF i <= Len(After(p, k)) THEN After(p, k)[i]
                   ELSE w[i - Len(After(p, k))]
  BY <1>1, ConcatProperties
<1> HIDE DEF a
<1>6. Len(a) = Len(p) + Len(w) - k
  BY <1>1, <1>5
<1>7. ASSUME NEW i \in 1..Len(a)
      PROVE  a[i] = b[i]
  <2>1. i \in 1..Len(p) + Len(w) - k /\ i + k \in 1..Len(p) + Len(w)
    BY <1>1, <1>6
  <2>2. b[i] = IF i + k <= Len(p) THEN p[i + k] ELSE w[i + k - Len(p)]
    BY <1>2, <1>4, <2>1
  <2>3. a[i] = IF i <= Len(p) - k THEN After(p, k)[i] ELSE w[i - (Len(p) - k)]
    BY <1>1, <1>5, <2>1
  <2>4. i - (Len(p) - k) = i + k - Len(p) /\ (i <= Len(p) - k <=> i + k <= Len(p))
        /\ (i <= Len(p) - k => i \in 1..Len(p) - k)
    BY <1>1, <2>1
  <2> HIDE DEF b
  <2> QED
    BY <1>1, <2>2, <2>3, <2>4
<1>8. a = b
  <2> HIDE DEF b
  <2>1. b \in Seq(S) /\ Len(b) = Len(a)
    BY <1>4, <1>6 DEF b
  <2> QED
    BY <1>5, <1>7, <2>1, SeqEqual
<1>9. \A i \in 1..Len(p) : (p \o w)[i] = p[i]
  BY <1>1, <1>2
<1> QED
  BY <1>2, <1>3, <1>8, <1>9 DEF a

(* What is on its way follows what is read.                                *)
LEMMA WireLast ==
  ASSUME NEW S, NEW p \in Seq(S), NEW w \in Seq(S)
  PROVE  /\ Len(p) \in Nat /\ Len(w) \in Nat
         /\ p \o w \in Seq(S) /\ Len(p \o w) = Len(p) + Len(w)
         /\ \A i \in 1..Len(p) : (p \o w)[i] = p[i]
         /\ \A i \in 1..Len(w) : (p \o w)[i + Len(p)] = w[i]
         /\ w = <<>> <=> Len(w) = 0
         /\ p = <<>> <=> Len(p) = 0
<1>1. Len(p) \in Nat /\ Len(w) \in Nat
  BY LenProperties
<1>2. /\ p \o w \in Seq(S) /\ Len(p \o w) = Len(p) + Len(w)
      /\ \A i \in 1..Len(p) + Len(w) :
            (p \o w)[i] = IF i <= Len(p) THEN p[i] ELSE w[i - Len(p)]
  BY ConcatProperties
<1>3. \A i \in 1..Len(p) : (p \o w)[i] = p[i]
  BY <1>1, <1>2
<1>4. ASSUME NEW i \in 1..Len(w)
      PROVE  (p \o w)[i + Len(p)] = w[i]
  <2>1. i + Len(p) \in 1..Len(p) + Len(w) /\ ~(i + Len(p) <= Len(p))
        /\ i + Len(p) - Len(p) = i
    BY <1>1
  <2> QED
    BY <1>2, <2>1
<1>5. (w = <<>> <=> Len(w) = 0) /\ (p = <<>> <=> Len(p) = 0)
  BY EmptySeq
<1> QED
  BY <1>1, <1>2, <1>3, <1>4, <1>5

LEMMA JoinLast ==
  ASSUME NEW S, NEW p \in Seq(S), NEW w \in Seq(S), NEW c \in Seq(S)
  PROVE  p \o (w \o c) = (p \o w) \o c
BY ConcatAssociative

LEMMA ReadJoin ==
  ASSUME NEW S, NEW p \in Seq(S), NEW w \in Seq(S), NEW k \in 0..Len(w)
  PROVE  /\ p \o SubSeq(w, 1, k) \in Seq(S) /\ After(w, k) \in Seq(S)
         /\ (p \o SubSeq(w, 1, k)) \o After(w, k) = p \o w
         /\ Len(p \o SubSeq(w, 1, k)) = Len(p) + k
<1> DEFINE a == SubSeq(w, 1, k)
           b == After(w, k)
<1>1. a \in Seq(S) /\ b \in Seq(S) /\ Len(a) = k
  BY FirstProps, AfterProps
<1>2. a \o b = w
  BY CutJoin
<1> HIDE DEF a, b
<1>3. (p \o a) \o b = p \o (a \o b)
  BY <1>1, ConcatAssociative, SMTT(20)
<1>4. p \o a \in Seq(S) /\ Len(p \o a) = Len(p) + Len(a)
  BY <1>1, ConcatProperties
<1> QED
  BY <1>1, <1>2, <1>3, <1>4 DEF a, b

LEMMA ReadTokens ==
  ASSUME NEW p \in Seq(Tokens), NEW w \in Seq(Tokens), NEW k \in 0..Len(w)
  PROVE  /\ p \o SubSeq(w, 1, k) \in Seq(Tokens) /\ After(w, k) \in Seq(Tokens)
         /\ (p \o SubSeq(w, 1, k)) \o After(w, k) = p \o w
         /\ Len(p \o SubSeq(w, 1, k)) = Len(p) + k
BY ReadJoin

-----------------------------------------------------------------------------
(* Counting DATA *)

Places(q) == {i \in 1..Len(q) : q[i].t = "data"}

LEMMA PlacesFinite ==
  ASSUME NEW S, NEW q \in Seq(S)
  PROVE  /\ IsFiniteSet(Places(q)) /\ DataIn(q) \in Nat
         /\ DataIn(q) = Cardinality(Places(q))
         /\ DataIn(q) = 0 => \A i \in 1..Len(q) : q[i].t # "data"
<1>1. Len(q) \in Int /\ 1 \in Int
  BY LenProperties
<1>2. IsFiniteSet(1..Len(q))
  BY <1>1, FS_Interval
<1>3. Places(q) \in SUBSET (1..Len(q))
  BY DEF Places
<1>4. IsFiniteSet(Places(q))
  BY <1>2, <1>3, FS_Subset
<1>5. DataIn(q) = Cardinality(Places(q))
  BY DEF DataIn, Places
<1>6. Cardinality(Places(q)) \in Nat
  BY <1>4, FS_CardinalityType
<1>7. Cardinality(Places(q)) = 0 => Places(q) = {}
  BY <1>4, FS_EmptySet
<1> QED
  BY <1>4, <1>5, <1>6, <1>7 DEF Places

LEMMA DataNone ==
  ASSUME NEW q, \A i \in 1..Len(q) : q[i].t # "data"
  PROVE  DataIn(q) = 0
<1>1. {i \in 1..Len(q) : q[i].t = "data"} = {}
  OBVIOUS
<1> QED
  BY <1>1, FS_EmptySet DEF DataIn

LEMMA DataFirst ==
  ASSUME NEW q, NEW n \in Nat, Len(q) \in Nat, n <= Len(q),
         \A i \in 1..Len(q) : q[i].t = "data" <=> i <= n
  PROVE  DataIn(q) = n
<1>1. {i \in 1..Len(q) : q[i].t = "data"} = 1..n
  OBVIOUS
<1>2. Cardinality(1..n) = IF 1 > n THEN 0 ELSE n - 1 + 1
  BY FS_Interval
<1>3. Cardinality(1..n) = n
  BY <1>2
<1> QED
  BY <1>1, <1>3 DEF DataIn

LEMMA DataJoin ==
  ASSUME NEW S, NEW p \in Seq(S), NEW w \in Seq(S)
  PROVE  DataIn(p \o w) = DataIn(p) + DataIn(w)
<1> DEFINE q == p \o w
           n == Len(p)
           m == Len(w)
           moved == {i \in 1..n + m : n < i /\ q[i].t = "data"}
           shift == [i \in Places(w) |-> i + n]
<1>1. /\ n \in Nat /\ m \in Nat /\ q \in Seq(S) /\ Len(q) = n + m
      /\ \A i \in 1..n : q[i] = p[i]
      /\ \A i \in 1..m : q[i + n] = w[i]
  BY WireLast
<1>2. IsFiniteSet(Places(p)) /\ IsFiniteSet(Places(w))
  BY PlacesFinite
<1> HIDE DEF q
<1>3. Places(q) = Places(p) \cup moved
  BY <1>1 DEF Places
<1>4. Places(p) \cap moved = {}
  BY <1>1 DEF Places
<1>5. shift \in Bijection(Places(w), moved)
  <2>1. ASSUME NEW i \in Places(w)
        PROVE  i + n \in moved
    BY <1>1 DEF Places
  <2>2. ASSUME NEW k \in moved
        PROVE  k - n \in Places(w) /\ shift[k - n] = k
    <3>1. k - n \in 1..m /\ (k - n) + n = k /\ k \in 1..n + m /\ q[k].t = "data"
      BY <1>1
    <3>2. w[k - n] = q[k]
      BY <1>1, <3>1
    <3> QED
      BY <3>1, <3>2 DEF Places
  <2>3. shift \in [Places(w) -> moved]
    BY <2>1
  <2>4. \A a, b \in Places(w) : shift[a] = shift[b] => a = b
    BY <1>1 DEF Places
  <2> HIDE DEF shift, moved
  <2> QED
    BY <2>2, <2>3, <2>4, Fun_IsBij
<1> HIDE DEF shift, moved, n, m
<1>6. IsFiniteSet(moved) /\ Cardinality(moved) = Cardinality(Places(w))
  <2>1. ExistsBijection(Places(w), moved)
    BY <1>5, Fun_ExistsBij
  <2> QED
    BY <1>2, <2>1, FS_Bijection
<1>7. Cardinality(Places(p) \cup moved)
         = Cardinality(Places(p)) + Cardinality(moved) - Cardinality(Places(p) \cap moved)
  BY <1>2, <1>6, FS_Union
<1>8. Cardinality(Places(p) \cap moved) = 0
  BY <1>4, FS_EmptySet
<1>9. /\ DataIn(q) = Cardinality(Places(q)) /\ DataIn(p) = Cardinality(Places(p))
      /\ DataIn(w) = Cardinality(Places(w)) /\ DataIn(p) \in Nat /\ DataIn(w) \in Nat
  BY <1>1, PlacesFinite
<1> QED
  BY <1>3, <1>6, <1>7, <1>8, <1>9 DEF q

(* What is used of a stream, and what is left of it.                       *)
LEMMA DataSplit ==
  ASSUME NEW S, NEW q \in Seq(S), NEW k \in 0..Len(q)
  PROVE  DataIn(q) = DataIn(SubSeq(q, 1, k)) + DataIn(After(q, k))
<1> DEFINE a == SubSeq(q, 1, k)
           b == After(q, k)
<1>1. a \in Seq(S) /\ b \in Seq(S)
  BY FirstProps, AfterProps
<1>2. a \o b = q
  BY CutJoin
<1> HIDE DEF a, b
<1>3. DataIn(a \o b) = DataIn(a) + DataIn(b)
  BY <1>1, DataJoin
<1> QED
  BY <1>2, <1>3 DEF a, b

-----------------------------------------------------------------------------
(* The rules hold for what is left when some of the stream is used. *)

LEMMA RulesAfter ==
  ASSUME NEW q \in Seq(Tokens), NEW k \in 0..Len(q), NEW r, NEW m, NEW s,
         Rules(q, r, m, s)
  PROVE  Rules(After(q, k), r, m, s)
<1> DEFINE a == After(q, k)
<1>1. /\ Len(q) \in Nat /\ k \in Nat /\ Len(a) = Len(q) - k
      /\ \A i \in 1..Len(a) : a[i] = q[i + k]
  BY AfterProps
<1> HIDE DEF a
<1>2. \A i \in 1..Len(a) : i + k \in 1..Len(q)
  BY <1>1
<1>3. \A i \in 1..Len(q) : q[i] \in Tokens
  BY ElementOfSeq
<1>4. HeadRule(a, r, m, s)
  <2>1. ASSUME NEW i \in 1..Len(a), a[i].t = "head"
        PROVE  /\ Tells(a[i], r, m, s)
               /\ \A j \in 1..Len(a) : j < i => Early(a[j])
               /\ a[i].framing # "chunked" => \A j \in 1..Len(a) : i < j => a[j] = Data(r)
               /\ a[i].framing = "chunked" /\ i < Len(a) => a[i + 1].t = "size"
    <3>1. /\ Tells(a[i], r, m, s)
          /\ \A j \in 1..Len(q) : j < i + k => Early(q[j])
          /\ a[i].framing # "chunked" => \A j \in 1..Len(q) : i + k < j => q[j] = Data(r)
          /\ a[i].framing = "chunked" /\ i + k < Len(q) => q[i + k + 1].t = "size"
      BY <1>1, <1>2, <2>1 DEF Rules, HeadRule
    <3>2. \A j \in 1..Len(a) : /\ j < i => j + k < i + k
                               /\ i < j => i + k < j + k
      BY <1>1
    <3>3. i < Len(a) => i + k < Len(q) /\ a[i + 1] = q[i + k + 1]
      <4>1. i < Len(a) => i + 1 \in 1..Len(a) /\ (i + 1) + k = i + k + 1 /\ i + k < Len(q)
        BY <1>1
      <4> QED
        BY <1>1, <4>1
    <3> QED
      BY <1>1, <1>2, <3>1, <3>2, <3>3
  <2> QED
    BY <2>1 DEF HeadRule
<1>5. ChunkRule(a, r)
  <2>1. ASSUME NEW i \in 1..Len(a), a[i].t = "size", a[i].n > 0
        PROVE  ChunkAt(a, i + 1, a[i].n, r)
    <3> DEFINE n == a[i].n
               j == i + k
    <3>1. j \in 1..Len(q) /\ a[i] = q[j] /\ i \in Nat
      BY <1>1, <1>2
    <3>2. n \in Nat
      BY <1>3, <2>1, <3>1 DEF Tokens, Line, Crlf, Trailer, Heads
    <3>3. ChunkAt(q, j + 1, n, r)
      BY <2>1, <3>1 DEF Rules, ChunkRule
    <3> HIDE DEF n
    <3>4. /\ j + 1 + n <= Len(q)
          /\ \A x \in 1..Len(q) : j + 1 <= x /\ x < j + 1 + n => q[x] = Data(r)
          /\ q[j + 1 + n].t = "crlf"
          /\ j + 1 + n < Len(q) => q[j + 1 + n + 1].t = "size"
      BY <3>3 DEF ChunkAt
    <3>5. i + 1 + n <= Len(a)
      BY <1>1, <3>2, <3>4
    <3>6. ASSUME NEW x \in 1..Len(a), i + 1 <= x, x < i + 1 + n
          PROVE  a[x] = Data(r)
      <4>1. x + k \in 1..Len(q) /\ j + 1 <= x + k /\ x + k < j + 1 + n
        BY <1>1, <1>2, <3>2, <3>6
      <4> QED
        BY <1>1, <3>4, <4>1
    <3>7. a[i + 1 + n] = q[j + 1 + n]
      <4>1. i + 1 + n \in 1..Len(a) /\ (i + 1 + n) + k = j + 1 + n
        BY <1>1, <3>2, <3>5
      <4> QED
        BY <1>1, <4>1
    <3>8. ASSUME i + 1 + n < Len(a)
          PROVE  j + 1 + n < Len(q) /\ a[i + 1 + n + 1] = q[j + 1 + n + 1]
      <4>1. /\ i + 1 + n + 1 \in 1..Len(a) /\ (i + 1 + n + 1) + k = j + 1 + n + 1
            /\ j + 1 + n < Len(q)
        BY <1>1, <3>2, <3>8
      <4> QED
        BY <1>1, <4>1
    <3> QED
      BY <3>4, <3>5, <3>6, <3>7, <3>8 DEF ChunkAt, n
  <2> QED
    BY <2>1 DEF ChunkRule
<1>6. LastRule(a, s)
  <2>1. ASSUME NEW i \in 1..Len(a), a[i].t = "size"
        PROVE  /\ s.framing = "chunked"
               /\ a[i].n = 0 => s.phase = "done" /\ \A j \in 1..Len(a) : i < j => Idle(a[j])
    <3>1. \A j \in 1..Len(a) : i < j => i + k < j + k
      BY <1>1
    <3> QED
      BY <1>1, <1>2, <2>1, <3>1 DEF Rules, LastRule
  <2> QED
    BY <2>1 DEF LastRule
<1> QED
  BY <1>4, <1>5, <1>6 DEF Rules, a

(* They hold on as long as the server's answer is the same.                *)
LEMMA RulesServer ==
  ASSUME NEW q, NEW r, NEW m, NEW s, NEW u, Rules(q, r, m, s),
         u.framing = s.framing, u.total = s.total, s.phase = "done" => u.phase = "done"
  PROVE  Rules(q, r, m, u)
BY DEF Rules, HeadRule, ChunkRule, LastRule, Tells

(* Before the header section they ask for nothing.                         *)
LEMMA RulesEarly ==
  ASSUME NEW q, NEW r, NEW m, NEW s, \A i \in 1..Len(q) : Early(q[i])
  PROVE  Rules(q, r, m, s) /\ DataIn(q) = 0
<1>1. \A i \in 1..Len(q) : q[i].t \notin {"head", "size", "data"}
  BY DEF Early
<1> QED
  BY <1>1, DataNone DEF Rules, HeadRule, ChunkRule, LastRule

-----------------------------------------------------------------------------
(* The server keeps to the rules. *)

LEMMA RulesHead ==
  ASSUME NEW q \in Seq(Tokens), NEW h, NEW r, NEW m, NEW s, NEW c \in Seq(Tokens),
         \A i \in 1..Len(q) : Early(q[i]),
         Len(c) = 1, c[1] = h, h.t = "head", Tells(h, r, m, s)
  PROVE  /\ Rules(q \o c, r, m, s) /\ DataIn(q \o c) = 0
         /\ \E i \in 1..Len(q \o c) : (q \o c)[i].t = "head"
<1> DEFINE a == q \o c
<1>1. /\ Len(q) \in Nat /\ Len(a) = Len(q) + 1
      /\ \A i \in 1..Len(q) : a[i] = q[i]
      /\ \A i \in 1..Len(c) : a[i + Len(q)] = c[i]
  BY WireLast
<1> HIDE DEF a
<1>2. a[1 + Len(q)] = h /\ 1 + Len(q) \in 1..Len(a)
  BY <1>1
<1>3. \A i \in 1..Len(a) : i = 1 + Len(q) \/ (i \in 1..Len(q) /\ a[i] = q[i])
  BY <1>1
<1>4. \A i \in 1..Len(q) : q[i].t \notin {"head", "size", "data"}
  BY DEF Early
<1>5. \A i \in 1..Len(a) : /\ a[i].t = "head" => i = Len(a) /\ a[i] = h
                           /\ a[i].t \notin {"size", "data"}
                           /\ i < Len(a) => Early(a[i])
  BY <1>1, <1>2, <1>3, <1>4
<1>6. HeadRule(a, r, m, s)
  BY <1>1, <1>5 DEF HeadRule
<1>7. ChunkRule(a, r) /\ LastRule(a, s) /\ DataIn(a) = 0
  BY <1>5, DataNone DEF ChunkRule, LastRule
<1> QED
  BY <1>2, <1>6, <1>7 DEF Rules, a

LEMMA JoinOne ==
  ASSUME NEW q \in Seq(Tokens), NEW c \in Seq(Tokens), Len(c) = 1
  PROVE  /\ Len(q) \in Nat /\ Len(q \o c) = Len(q) + 1
         /\ \A i \in 1..Len(q) : (q \o c)[i] = q[i]
         /\ (q \o c)[1 + Len(q)] = c[1]
<1> DEFINE a == q \o c
<1>1. /\ Len(q) \in Nat /\ Len(a) = Len(q) + Len(c)
      /\ \A i \in 1..Len(q) : a[i] = q[i]
      /\ \A i \in 1..Len(c) : a[i + Len(q)] = c[i]
  BY WireLast
<1>2. 1 \in 1..Len(c)
  OBVIOUS
<1> QED
  BY <1>1, <1>2

LEMMA RulesData ==
  ASSUME NEW q \in Seq(Tokens), NEW r, NEW m, NEW s, NEW u, NEW c \in Seq(Tokens),
         Rules(q, r, m, s), s.framing # "chunked", s.phase # "done",
         u.framing = s.framing, u.total = s.total,
         Len(c) = 1, c[1] = Data(r)
  PROVE  Rules(q \o c, r, m, u) /\ DataIn(c) = 1
<1> DEFINE a == q \o c
<1>1. /\ Len(q) \in Nat /\ Len(a) = Len(q) + 1
      /\ \A i \in 1..Len(q) : a[i] = q[i]
      /\ a[1 + Len(q)] = c[1]
  BY JoinOne
<1> HIDE DEF a
<1>2. a[1 + Len(q)] = Data(r)
  BY <1>1
<1>3. \A i \in 1..Len(a) : i = 1 + Len(q) \/ (i \in 1..Len(q) /\ a[i] = q[i])
  BY <1>1
<1>4. Data(r).t = "data"
  BY DEF Data
<1>5. \A i \in 1..Len(q) : q[i].t # "size"
  BY DEF Rules, LastRule
<1>6. \A i \in 1..Len(a) : a[i].t # "size"
  BY <1>2, <1>3, <1>4, <1>5
<1>7. ASSUME NEW i \in 1..Len(a), a[i].t = "head"
      PROVE  /\ Tells(a[i], r, m, u) /\ a[i].framing # "chunked"
             /\ \A j \in 1..Len(a) : j < i => Early(a[j])
             /\ \A j \in 1..Len(a) : i < j => a[j] = Data(r)
  <2>1. i \in 1..Len(q) /\ a[i] = q[i]
    BY <1>2, <1>3, <1>4, <1>7
  <2>2. /\ Tells(q[i], r, m, s)
        /\ \A j \in 1..Len(q) : j < i => Early(q[j])
        /\ q[i].framing # "chunked" => \A j \in 1..Len(q) : i < j => q[j] = Data(r)
    BY <1>7, <2>1 DEF Rules, HeadRule
  <2>3. q[i].framing # "chunked"
    BY <2>2 DEF Tells
  <2>4. \A j \in 1..Len(a) : j < i => j \in 1..Len(q) /\ a[j] = q[j]
    BY <1>1, <2>1
  <2>5. \A j \in 1..Len(a) : i < j => a[j] = Data(r)
    BY <1>2, <1>3, <2>2, <2>3
  <2>6. Tells(q[i], r, m, u)
    BY <2>2 DEF Tells
  <2> QED
    BY <2>1, <2>2, <2>3, <2>4, <2>5, <2>6
<1>8. HeadRule(a, r, m, u)
  BY <1>7 DEF HeadRule
<1>9. ChunkRule(a, r) /\ LastRule(a, u)
  BY <1>6 DEF ChunkRule, LastRule
<1>10. DataIn(c) = 1
  <2>1. \A i \in 1..Len(c) : i = 1
    OBVIOUS
  <2>2. /\ 1 \in Nat /\ Len(c) \in Nat /\ 1 <= Len(c)
        /\ \A i \in 1..Len(c) : c[i].t = "data" <=> i <= 1
    BY <1>4, <2>1
  <2> QED
    BY <2>2, DataFirst
<1> QED
  BY <1>8, <1>9, <1>10 DEF Rules, a

(* A chunk, or the last one.                                               *)
LEMMA RulesSize ==
  ASSUME NEW q \in Seq(Tokens), NEW r, NEW m, NEW s, NEW u, NEW c \in Seq(Tokens),
         NEW n \in Nat,
         Rules(q, r, m, s), s.framing = "chunked", s.phase # "done",
         u.framing = s.framing, u.total = s.total,
         Len(c) >= 1, c[1] = Size(n),
         \A i \in 1..Len(c) : 1 < i => c[i].t \notin {"head", "size"},
         n > 0 => ChunkAt(c, 2, n, r) /\ Len(c) = n + 2,
         n = 0 => u.phase = "done" /\ \A i \in 1..Len(c) : 1 < i => Idle(c[i])
  PROVE  Rules(q \o c, r, m, u)
<1> DEFINE a == q \o c
           l == Len(q)
<1>1. /\ l \in Nat /\ Len(c) \in Nat /\ Len(a) = l + Len(c)
      /\ \A i \in 1..l : a[i] = q[i]
      /\ \A i \in 1..Len(c) : a[i + l] = c[i]
  BY WireLast
<1> HIDE DEF a, l
<1>2. \A i \in 1..Len(a) : \/ i \in 1..l /\ a[i] = q[i]
                           \/ i - l \in 1..Len(c) /\ a[i] = c[i - l]
  <2>1. ASSUME NEW i \in 1..Len(a), ~(i \in 1..l)
        PROVE  i - l \in 1..Len(c) /\ a[i] = c[i - l]
    <3>1. i - l \in 1..Len(c) /\ (i - l) + l = i
      BY <1>1, <2>1
    <3> QED
      BY <1>1, <3>1
  <2> QED
    BY <1>1, <2>1
<1>3. c[1].t = "size" /\ c[1].n = n /\ a[l + 1] = c[1] /\ l + 1 \in 1..Len(a)
  <2>1. 1 \in 1..Len(c) /\ 1 + l = l + 1
    BY <1>1
  <2> QED
    BY <1>1, <2>1 DEF Size
<1>4. HeadRule(a, r, m, u)
  <2>1. ASSUME NEW i \in 1..Len(a), a[i].t = "head"
        PROVE  /\ Tells(a[i], r, m, u)
               /\ \A j \in 1..Len(a) : j < i => Early(a[j])
               /\ a[i].framing = "chunked" /\ (i < Len(a) => a[i + 1].t = "size")
    <3>1. i \in 1..l /\ a[i] = q[i]
      <4>1. ASSUME i - l \in 1..Len(c), a[i] = c[i - l]
            PROVE  FALSE
        <5>1. i - l = 1 \/ 1 < i - l
          BY <1>1, <4>1
        <5> QED
          BY <1>3, <2>1, <4>1, <5>1
      <4> QED
        BY <1>2, <4>1
    <3>2. /\ Tells(q[i], r, m, s)
          /\ \A j \in 1..l : j < i => Early(q[j])
          /\ q[i].framing = "chunked" /\ i < l => q[i + 1].t = "size"
      BY <2>1, <3>1 DEF Rules, HeadRule, l
    <3>3. Tells(q[i], r, m, u) /\ q[i].framing = "chunked"
      BY <3>2 DEF Tells
    <3>4. \A j \in 1..Len(a) : j < i => j \in 1..l /\ a[j] = q[j]
      BY <1>1, <3>1
    <3>5. CASE i < l
      <4>1. i + 1 \in 1..l
        BY <1>1, <3>1, <3>5
      <4> QED
        BY <1>1, <3>1, <3>2, <3>3, <3>4, <3>5, <4>1
    <3>6. CASE i = l
      BY <1>3, <3>1, <3>2, <3>3, <3>4, <3>6
    <3> QED
      BY <1>1, <3>1, <3>5, <3>6
  <2> QED
    BY <2>1 DEF HeadRule
<1>5. ASSUME NEW i \in 1..Len(a), a[i].t = "size"
      PROVE  i \in 1..l \/ i = l + 1
  BY <1>1, <1>2, <1>5
<1>6. ChunkRule(a, r)
  <2>1. ASSUME NEW i \in 1..l, a[i].t = "size", a[i].n > 0
        PROVE  ChunkAt(a, i + 1, a[i].n, r)
    <3> DEFINE k == a[i].n
    <3>1. a[i] = q[i] /\ q[i] \in Tokens /\ i \in Nat
      BY <1>1, ElementOfSeq DEF l
    <3>2. k \in Nat
      BY <2>1, <3>1 DEF Tokens, Line, Crlf, Trailer, Heads
    <3>3. ChunkAt(q, i + 1, k, r)
      BY <2>1, <3>1 DEF Rules, ChunkRule, l
    <3> HIDE DEF k
    <3>4. /\ i + 1 + k <= l
          /\ \A j \in 1..l : i + 1 <= j /\ j < i + 1 + k => q[j] = Data(r)
          /\ q[i + 1 + k].t = "crlf"
          /\ i + 1 + k < l => q[i + 1 + k + 1].t = "size"
      BY <3>3 DEF ChunkAt, l
    <3>5. i + 1 + k \in 1..l /\ i + 1 + k <= Len(a)
      BY <1>1, <3>1, <3>2, <3>4
    <3>6. \A j \in 1..Len(a) : i + 1 <= j /\ j < i + 1 + k => j \in 1..l
      BY <1>1, <3>1, <3>2, <3>5
    <3>7. i + 1 + k < Len(a) => a[i + 1 + k + 1].t = "size"
      <4>1. CASE i + 1 + k < l
        <5>1. i + 1 + k + 1 \in 1..l
          BY <1>1, <3>5, <4>1
        <5> QED
          BY <1>1, <3>4, <4>1, <5>1
      <4>2. CASE i + 1 + k = l
        BY <1>3, <4>2
      <4> QED
        BY <1>1, <3>5, <4>1, <4>2
    <3>8. \A j \in 1..Len(a) : i + 1 <= j /\ j < i + 1 + k => a[j] = Data(r)
      BY <1>1, <3>4, <3>6
    <3>9. a[i + 1 + k].t = "crlf"
      BY <1>1, <3>4, <3>5
    <3> QED
      BY <3>5, <3>7, <3>8, <3>9 DEF ChunkAt, k
  <2>2. ASSUME n > 0
        PROVE  ChunkAt(a, l + 2, n, r)
    <3>1. /\ Len(c) = n + 2 /\ c[2 + n].t = "crlf"
          /\ \A j \in 1..Len(c) : 2 <= j /\ j < 2 + n => c[j] = Data(r)
      BY <2>2 DEF ChunkAt
    <3>2. l + 2 + n = Len(a) /\ 2 + n \in 1..Len(c) /\ (2 + n) + l = l + 2 + n
      BY <1>1, <3>1
    <3>3. a[l + 2 + n].t = "crlf"
      BY <1>1, <3>1, <3>2
    <3>4. ASSUME NEW j \in 1..Len(a), l + 2 <= j, j < l + 2 + n
          PROVE  a[j] = Data(r)
      <4>1. j - l \in 1..Len(c) /\ (j - l) + l = j /\ 2 <= j - l /\ j - l < 2 + n
        BY <1>1, <3>1, <3>4
      <4>2. c[j - l] = Data(r)
        BY <3>1, <4>1
      <4>3. a[(j - l) + l] = c[j - l]
        BY <1>1, <4>1
      <4> QED
        BY <4>1, <4>2, <4>3
    <3>5. l + 2 + n <= Len(a) /\ ~(l + 2 + n < Len(a))
      BY <1>1, <3>2
    <3> QED
      BY <3>3, <3>4, <3>5 DEF ChunkAt
  <2>3. ASSUME NEW i \in 1..Len(a), a[i].t = "size", a[i].n > 0
        PROVE  ChunkAt(a, i + 1, a[i].n, r)
    <3>1. CASE i \in 1..l
      BY <2>1, <2>3, <3>1
    <3>2. CASE i = l + 1
      <4>1. a[i].n = n /\ i + 1 = l + 2
        BY <1>1, <1>3, <3>2
      <4> QED
        BY <2>2, <2>3, <4>1
    <3> QED
      BY <1>5, <2>3, <3>1, <3>2
  <2> QED
    BY <2>3 DEF ChunkRule
<1>7. LastRule(a, u)
  <2>1. ASSUME NEW i \in 1..Len(a), a[i].t = "size"
        PROVE  a[i].n = 0 => u.phase = "done" /\ \A j \in 1..Len(a) : i < j => Idle(a[j])
    <3>1. CASE i \in 1..l
      BY <1>1, <2>1, <3>1 DEF Rules, LastRule, l
    <3>2. CASE i = l + 1
      <4>1. \A j \in 1..Len(a) : i < j => /\ j - l \in 1..Len(c) /\ 1 < j - l
                                          /\ a[j] = c[j - l]
        BY <1>1, <1>2, <3>2
      <4> QED
        BY <1>3, <3>2, <4>1
    <3> QED
      BY <1>5, <2>1, <3>1, <3>2
  <2> QED
    BY <2>1 DEF LastRule
<1> QED
  BY <1>4, <1>6, <1>7 DEF Rules, a

-----------------------------------------------------------------------------
(* Types *)

LEMMA MinIn ==
  ASSUME NEW T, T \subseteq Nat, T # {}
  PROVE  Min(T) \in T
<1> DEFINE R == OpToRel(<, Nat)
<1>1. \A x, y \in Nat : <<y, x>> \in R <=> y < x
  BY DEF OpToRel
<1>2. IsWellFoundedOn(R, Nat)
  BY NatLessThanWellFounded
<1> HIDE DEF R
<1>3. \E x \in T : \A y \in T : ~(<<y, x>> \in R)
  BY <1>2, WFMin
<1>4. \E x \in T : \A y \in T : x <= y
  <2>1. \A x, y \in Nat : ~(y < x) => x <= y
    OBVIOUS
  <2> QED
    BY <1>1, <1>3, <2>1
<1> QED
  BY <1>4 DEF Min

LEMMA MinOfTwo ==
  ASSUME NEW a \in Nat, NEW b \in Nat
  PROVE  /\ Min({a, b}) \in Nat /\ Min({a, b}) <= a /\ Min({a, b}) <= b
         /\ Min({a, b}) = a \/ Min({a, b}) = b
<1>1. \E x \in {a, b} : \A y \in {a, b} : x <= y
  OBVIOUS
<1>2. Min({a, b}) \in {a, b} /\ \A y \in {a, b} : Min({a, b}) <= y
  BY <1>1 DEF Min
<1> QED
  BY <1>2

LEMMA EndIn ==
  ASSUME NEW q \in Seq(Tokens), HeaderEnds(q) # {}
  PROVE  find_header_end(q) \in 1..Len(q)
<1>1. DOMAIN q = 1..Len(q) /\ Len(q) \in Nat
  BY LenProperties
<1>2. HeaderEnds(q) \subseteq Nat /\ HeaderEnds(q) \subseteq 1..Len(q)
  BY <1>1 DEF HeaderEnds
<1> QED
  BY <1>2, MinIn DEF find_header_end

(* The tokens the server sends.                                            *)
LEMMA SentTokens ==
  ASSUME NEW r \in Nat
  PROVE  /\ Line \in Tokens /\ Crlf \in Tokens /\ Trailer \in Tokens
         /\ Data(r) \in Tokens /\ \A n \in Nat : Size(n) \in Tokens
         /\ Line.t = "line" /\ Crlf.t = "crlf" /\ Trailer.t = "trailer"
         /\ Data(r).t = "data" /\ \A n \in Nat : Size(n).t = "size" /\ Size(n).n = n
BY DEF Tokens, Line, Crlf, Trailer, Data, Size

(* A chunk: its size, n bytes and their CRLF.                              *)
LEMMA ChunkTokens ==
  ASSUME NEW r \in Nat, NEW n \in Nat,
         NEW c, c = <<Size(n)>> \o [i \in 1..n |-> Data(r)] \o <<Crlf>>
  PROVE  /\ c \in Seq(Tokens) /\ Len(c) = n + 2 /\ c[1] = Size(n) /\ c[n + 2] = Crlf
         /\ \A i \in 1..Len(c) : i = 1 \/ i = n + 2 \/ c[i] = Data(r)
<1> DEFINE d == [i \in 1..n |-> Data(r)]
           e == <<Size(n)>> \o d
           f == <<Size(n)>>
           g == <<Crlf>>
<1>1. Data(r) \in Tokens /\ Size(n) \in Tokens /\ Crlf \in Tokens
  BY SentTokens
<1>2. d \in Seq(Tokens) /\ Len(d) = n /\ \A i \in 1..n : d[i] = Data(r)
  <2>1. d \in [1..n -> Tokens]
    BY <1>1
  <2>2. d \in Seq(Tokens)
    BY <2>1, SeqDef
  <2>3. DOMAIN d = 1..Len(d) /\ DOMAIN d = 1..n /\ Len(d) \in Nat
    BY <2>2, LenProperties
  <2>4. Len(d) = n
    BY <2>3
  <2> QED
    BY <2>2, <2>4
<1>3. f \in Seq(Tokens) /\ Len(f) = 1 /\ f[1] = Size(n)
  BY <1>1
<1>4. g \in Seq(Tokens) /\ Len(g) = 1 /\ g[1] = Crlf
  BY <1>1
<1> HIDE DEF d, f, g
<1>5. /\ e \in Seq(Tokens) /\ Len(e) = n + 1
      /\ \A i \in 1..n + 1 : e[i] = IF i <= 1 THEN f[i] ELSE d[i - 1]
  <2>1. /\ f \o d \in Seq(Tokens) /\ Len(f \o d) = Len(f) + Len(d)
        /\ \A i \in 1..Len(f) + Len(d) :
              (f \o d)[i] = IF i <= Len(f) THEN f[i] ELSE d[i - Len(f)]
    BY <1>2, <1>3, ConcatProperties
  <2>2. Len(f) + Len(d) = n + 1
    BY <1>2, <1>3
  <2>3. e = f \o d
    BY DEF f
  <2> HIDE DEF e
  <2> QED
    BY <1>3, <2>1, <2>2, <2>3
<1> HIDE DEF e
<1>6. /\ c \in Seq(Tokens) /\ Len(c) = n + 2
      /\ \A i \in 1..n + 2 : c[i] = IF i <= n + 1 THEN e[i] ELSE g[i - (n + 1)]
  <2>1. /\ e \o g \in Seq(Tokens) /\ Len(e \o g) = Len(e) + Len(g)
        /\ \A i \in 1..Len(e) + Len(g) :
              (e \o g)[i] = IF i <= Len(e) THEN e[i] ELSE g[i - Len(e)]
    BY <1>4, <1>5, ConcatProperties
  <2>2. Len(e) + Len(g) = n + 2
    BY <1>4, <1>5
  <2>3. c = e \o g
    BY DEF e, g, d
  <2> QED
    BY <1>5, <2>1, <2>2, <2>3
<1>7. c[1] = Size(n)
  <2>1. 1 \in 1..n + 2 /\ 1 <= n + 1 /\ 1 \in 1..n + 1 /\ 1 <= 1
    OBVIOUS
  <2> QED
    BY <1>3, <1>5, <1>6, <2>1
<1>8. c[n + 2] = Crlf
  <2>1. n + 2 \in 1..n + 2 /\ ~(n + 2 <= n + 1) /\ n + 2 - (n + 1) = 1
    OBVIOUS
  <2> QED
    BY <1>4, <1>6, <2>1
<1>9. ASSUME NEW i \in 1..n + 2, i # 1, i # n + 2
      PROVE  c[i] = Data(r)
  <2>1. i \in 1..n + 1 /\ i <= n + 1 /\ ~(i <= 1) /\ i - 1 \in 1..n
    BY <1>9
  <2> QED
    BY <1>2, <1>5, <1>6, <2>1
<1> QED
  BY <1>6, <1>7, <1>8, <1>9

(* The end of the last chunk, with or without a trailer section.           *)
LEMMA LastTokens ==
  ASSUME NEW c, c = <<Size(0), Crlf>> \/ c = <<Size(0), Trailer, Crlf, Crlf>>
  PROVE  /\ c \in Seq(Tokens) /\ Len(c) >= 1 /\ c[1] = Size(0)
         /\ \A i \in 1..Len(c) : 1 < i => Idle(c[i])
<1>1. Size(0) \in Tokens /\ Crlf \in Tokens /\ Trailer \in Tokens
      /\ Crlf.t = "crlf" /\ Trailer.t = "trailer"
  BY SentTokens, 0 \in Nat
<1>2. CASE c = <<Size(0), Crlf>>
  <2>1. c \in Seq(Tokens) /\ Len(c) = 2 /\ c[1] = Size(0) /\ c[2] = Crlf
    BY <1>1, <1>2
  <2>2. \A i \in 1..Len(c) : 1 < i => i = 2
    BY <2>1
  <2> QED
    BY <1>1, <2>1, <2>2 DEF Idle
<1>3. CASE c = <<Size(0), Trailer, Crlf, Crlf>>
  <2>1. /\ c \in Seq(Tokens) /\ Len(c) = 4 /\ c[1] = Size(0)
        /\ c[2] = Trailer /\ c[3] = Crlf /\ c[4] = Crlf
    BY <1>1, <1>3
  <2>2. \A i \in 1..Len(c) : 1 < i => i \in {2, 3, 4}
    BY <2>1
  <2> QED
    BY <1>1, <2>1, <2>2 DEF Idle
<1> QED
  BY <1>2, <1>3

HeadKnown == pc \in {"size", "chunk", "length"} => head \in Heads

States == TypeOK /\ ServerOK /\ HeadKnown

LEMMA HeadToken ==
  ASSUME NEW r \in Nat, NEW status \in {"interim", "final", "bodyless"},
         NEW framing \in Framings, NEW n \in Lengths, NEW close \in BOOLEAN,
         NEW h, h = [t |-> "head", req |-> r, status |-> status,
                     framing |-> framing, len |-> n, close |-> close]
  PROVE  /\ h \in Heads /\ h \in Tokens /\ h.t = "head" /\ h.req = r
         /\ h.status = status /\ h.framing = framing /\ h.len = n /\ n \in Nat
         /\ <<h>> \in Seq(Tokens) /\ Len(<<h>>) = 1 /\ <<h>>[1] = h
<1>1. n \in Nat
  BY Http1Assumption
<1>2. h \in Heads
  BY <1>1 DEF Heads
<1>3. h \in Tokens
  BY <1>2 DEF Tokens
<1> QED
  BY <1>1, <1>2, <1>3

(* Sending only adds to what is on its way.                                *)
LEMMA SendTypes ==
  ASSUME States, NEW c \in Seq(Tokens), Send(c)
  PROVE  /\ wire' \in Seq(Tokens) /\ wire' = wire \o c /\ srv.up
         /\ UNCHANGED <<pc, method, req, buf, head, need, body, result, asked, blank>>
<1>1. wire \in Seq(Tokens)
  BY DEF States, TypeOK
<1>2. wire \o c \in Seq(Tokens)
  BY <1>1, ConcatProperties
<1> QED
  BY <1>2 DEF Send

SrvTypes ==
    [up: BOOLEAN, phase: {"requested", "body", "closing", "done"},
     lines: 0..MaxLines, total: Nat, left: Nat, framing: Framings]

Asks == [req: Nat, method: Methods \cup {"GET"}]

(* The requests the server has.                                            *)
LEMMA AskedTypes ==
  ASSUME States
  PROVE  /\ asked \in Seq(Asks) /\ Asked.req \in Nat
         /\ Len(asked) > 1 => Tail(asked) \in Seq(Asks) /\ Tail(asked) # <<>>
<1>1. asked \in Seq(Asks) /\ asked # <<>>
  BY DEF States, TypeOK, Asks
<1>2. Head(asked) \in Asks /\ Tail(asked) \in Seq(Asks) /\ Len(Tail(asked)) = Len(asked) - 1
  BY <1>1, HeadTailProperties
<1>3. Len(asked) \in Nat /\ Len(<<>>) = 0
  BY <1>1, LenProperties, EmptySeq
<1>4. Asked.req \in Nat
  BY <1>2 DEF Asked, Asks
<1>5. ASSUME Len(asked) > 1
      PROVE  Tail(asked) # <<>>
  <2>1. Len(Tail(asked)) # 0
    BY <1>2, <1>3, <1>5
  <2> QED
    BY <1>3, <2>1
<1> QED
  BY <1>1, <1>2, <1>4, <1>5

(* A server begins with nothing sent of the response.                      *)
LEMMA Begins ==
  ASSUME States, srv' = Begun
  PROVE  /\ srv' \in SrvTypes /\ ServerOK'
         /\ srv'.phase = "requested" /\ srv'.total = 0 /\ srv'.left = 0
<1>1. srv \in SrvTypes /\ "none" \in Framings /\ 0 \in 0..MaxLines
  BY Http1Assumption DEF States, TypeOK, SrvTypes, Framings
<1>2. srv' \in SrvTypes /\ srv'.phase = "requested" /\ srv'.total = 0 /\ srv'.left = 0
  BY <1>1 DEF Begun, SrvTypes
<1> QED
  BY <1>2 DEF ServerOK

(* What the server does leaves the client as it is.                        *)
LEMMA ServerTypes ==
  ASSUME States, ServerStep
  PROVE  States'
<1> USE DEF SrvTypes
<1>1. /\ srv \in SrvTypes /\ req \in Nat /\ wire \in Seq(Tokens)
      /\ TypeOK /\ ServerOK /\ HeadKnown /\ MaxLines \in Nat /\ Lengths \subseteq Nat
      /\ Asked.req \in Nat
  BY Http1Assumption, AskedTypes DEF States, TypeOK
<1>2. ASSUME NEW c \in Seq(Tokens), Send(c), srv' \in SrvTypes, ServerOK'
      PROVE  States'
  <2>1. /\ wire' \in Seq(Tokens)
        /\ UNCHANGED <<pc, method, req, buf, head, need, body, result, asked, blank>>
    BY <1>2, SendTypes
  <2> QED
    BY <1>1, <1>2, <2>1 DEF TypeOK, States, HeadKnown
<1>3. CASE SrvLine
  <2>1. <<Line>> \in Seq(Tokens)
    <3>1. Line \in Tokens
      BY <1>1, SentTokens
    <3> QED
      BY <3>1
  <2>2. Send(<<Line>>)
    BY <1>3 DEF SrvLine
  <2>3. srv' = [srv EXCEPT !.lines = @ + 1] /\ srv.lines + 1 \in 0..MaxLines
    BY <1>1, <1>3 DEF SrvLine
  <2>4. srv' \in SrvTypes
    BY <1>1, <2>3
  <2>5. ServerOK'
    BY <1>1, <2>3 DEF ServerOK
  <2> QED
    BY <1>2, <2>1, <2>2, <2>4, <2>5
<1>4. ASSUME NEW framing \in Framings, NEW n \in Lengths, NEW close \in BOOLEAN,
             NEW status \in {"final", "bodyless"} \cup InterimStatuses,
             SrvBodyless(status, framing, n, close)
      PROVE  States'
  <2> DEFINE h == [t |-> "head", req |-> Asked.req, status |-> status,
                   framing |-> framing, len |-> n, close |-> close]
  <2>1. status \in {"interim", "final", "bodyless"}
    BY Http1Assumption
  <2>2. h \in Tokens /\ <<h>> \in Seq(Tokens)
    BY <1>1, <2>1, HeadToken
  <2>3. Send(<<h>>)
    BY <1>4 DEF SrvBodyless
  <2>4. srv' \in SrvTypes
    <3>1. CASE status = "interim"
      <4>1. srv' = [srv EXCEPT !.lines = @ + 1] /\ srv.lines + 1 \in 0..MaxLines
        BY <1>1, <1>4, <3>1 DEF SrvBodyless
      <4> QED
        BY <1>1, <4>1
    <3>2. CASE status # "interim"
      <4>1. srv' = [srv EXCEPT !.phase = "done", !.framing = framing]
        BY <1>4, <3>2 DEF SrvBodyless
      <4> QED
        BY <1>1, <4>1
    <3> QED
      BY <3>1, <3>2
  <2>5. ServerOK'
    BY <1>1, <1>4 DEF SrvBodyless, ServerOK
  <2> QED
    BY <1>2, <2>2, <2>3, <2>4, <2>5
<1>5. ASSUME NEW framing \in Framings, NEW n \in Lengths, NEW close \in BOOLEAN,
             SrvHead(framing, n, close)
      PROVE  States'
  <2> DEFINE h == [t |-> "head", req |-> Asked.req, status |-> "final",
                   framing |-> framing, len |-> n, close |-> close]
  <2>1. "final" \in {"interim", "final", "bodyless"} /\ n \in Nat
    BY <1>1
  <2>2. h \in Tokens /\ <<h>> \in Seq(Tokens)
    BY <1>1, <2>1, HeadToken
  <2>3. Send(<<h>>)
    BY <1>5 DEF SrvHead
  <2>4. srv' \in SrvTypes
    BY <1>1, <1>5, <2>1 DEF SrvHead, Sent
  <2>5. ServerOK'
    BY <1>1, <1>5, <2>1 DEF SrvHead, ServerOK, Sent, Framings
  <2> QED
    BY <1>2, <2>2, <2>3, <2>4, <2>5
<1>6. CASE SrvData
  <2>1. <<Data(Asked.req)>> \in Seq(Tokens) /\ Send(<<Data(Asked.req)>>)
    <3>1. Data(Asked.req) \in Tokens
      BY <1>1, SentTokens
    <3> QED
      BY <1>6, <3>1 DEF SrvData
  <2>2. srv.left \in Nat /\ srv.left > 0
    BY <1>1, <1>6 DEF SrvData, ServerOK
  <2>3. srv' \in SrvTypes
    <3> DEFINE phase == IF srv.left = 1 THEN Sent(srv.framing) ELSE "body"
    <3>1. phase \in {"requested", "body", "closing", "done"} /\ srv.left - 1 \in Nat
      BY <2>2 DEF Sent
    <3>2. srv' = [srv EXCEPT !.left = @ - 1, !.phase = phase]
      BY <1>6 DEF SrvData
    <3> HIDE DEF phase
    <3> QED
      BY <1>1, <3>1, <3>2
  <2>4. ServerOK'
    BY <1>1, <1>6, <2>2 DEF SrvData, ServerOK, Sent, Framings
  <2> QED
    BY <1>2, <2>1, <2>3, <2>4
<1>7. CASE SrvChunk
  <2>1. PICK n \in 1..srv.left :
           /\ Send(<<Size(n)>> \o [i \in 1..n |-> Data(Asked.req)] \o <<Crlf>>)
           /\ srv' = [srv EXCEPT !.left = @ - n]
    BY <1>7 DEF SrvChunk
  <2>2. n \in Nat /\ srv.left - n \in Nat /\ srv.phase = "body" /\ srv.framing = "chunked"
    BY <1>1, <1>7 DEF SrvChunk
  <2>3. <<Size(n)>> \o [i \in 1..n |-> Data(Asked.req)] \o <<Crlf>> \in Seq(Tokens)
    BY <1>1, <2>2, ChunkTokens
  <2>4. srv' \in SrvTypes
    BY <1>1, <2>1, <2>2
  <2>5. ServerOK'
    BY <1>1, <2>1, <2>2 DEF ServerOK
  <2> QED
    BY <1>2, <2>1, <2>3, <2>4, <2>5
<1>8. CASE SrvLastChunk
  <2>1. PICK c \in {<<Size(0), Crlf>>, <<Size(0), Trailer, Crlf, Crlf>>} : Send(c)
    BY <1>8 DEF SrvLastChunk
  <2>2. c \in Seq(Tokens)
    BY LastTokens
  <2>3. srv' = [srv EXCEPT !.phase = "done"] /\ srv.left = 0
    BY <1>8 DEF SrvLastChunk
  <2>4. srv' \in SrvTypes
    BY <1>1, <2>3
  <2>5. ServerOK'
    BY <1>1, <2>3 DEF ServerOK
  <2> QED
    BY <1>2, <2>1, <2>2, <2>4, <2>5
<1>9. CASE SrvClose
  <2>1. srv' \in SrvTypes
    BY <1>1, <1>9 DEF SrvClose
  <2>2. ServerOK'
    BY <1>1, <1>9 DEF SrvClose, ServerOK
  <2> QED
    BY <1>1, <1>9, <2>1, <2>2 DEF SrvClose, TypeOK, States, HeadKnown
<1>10. CASE SrvNext
  <2>1. srv' \in SrvTypes /\ ServerOK'
    BY <1>1, <1>10, Begins DEF SrvNext
  <2>2. asked' \in Seq(Asks) /\ asked' # <<>>
    BY <1>10, AskedTypes DEF SrvNext
  <2> QED
    BY <1>1, <1>10, <2>1, <2>2 DEF SrvNext, TypeOK, States, HeadKnown, Asks
<1> QED
  BY <1>3, <1>4, <1>5, <1>6, <1>7, <1>8, <1>9, <1>10 DEF ServerStep

(* A read takes some of what is on its way.                                *)
LEMMA ReadTakes ==
  ASSUME States, Read
  PROVE  \E k \in 0..Len(wire) : /\ k <= ReadSize /\ k \in Nat
                                 /\ buf' = buf \o SubSeq(wire, 1, k)
                                 /\ wire' = After(wire, k)
<1>1. Len(wire) \in Nat /\ ReadSize \in Nat
  BY Http1Assumption, LenProperties DEF States, TypeOK
<1>2. PICK k \in 1..Min({ReadSize, Len(wire)}) : /\ buf' = buf \o SubSeq(wire, 1, k)
                                                 /\ wire' = After(wire, k)
  BY DEF Read
<1>3. k \in 0..Len(wire) /\ k <= ReadSize /\ k \in Nat
  BY <1>1, MinOfTwo
<1> QED
  BY <1>2, <1>3

(* The header section of a response, and what is left after it.            *)
LEMMA ParsedHead ==
  ASSUME States, ParseHead
  PROVE  LET end == find_header_end(buf)
         IN  /\ end \in 1..Len(buf) /\ end \in 0..Len(buf) /\ buf[end] \in Tokens
             /\ After(buf, end) \in Seq(Tokens)
             /\ buf[end].t = "head" => buf[end] \in Heads
             /\ Section(buf, end) \in Heads \cup {Blank}
<1> DEFINE end == find_header_end(buf)
<1>1. buf \in Seq(Tokens) /\ HeaderEnds(buf) # {} /\ Len(buf) \in Nat
  BY LenProperties DEF States, TypeOK, ParseHead
<1>2. end \in 1..Len(buf) /\ end \in 0..Len(buf)
  BY <1>1, EndIn
<1> HIDE DEF end
<1>3. buf[end] \in Tokens
  BY <1>1, <1>2, ElementOfSeq
<1>4. After(buf, end) \in Seq(Tokens)
  BY <1>1, <1>2, AfterProps
<1>5. buf[end].t = "head" => buf[end] \in Heads
  BY <1>3 DEF Tokens, Line, Crlf, Trailer
<1>6. Section(buf, end) \in Heads \cup {Blank}
  BY <1>5 DEF Section
<1> QED
  BY <1>2, <1>3, <1>4, <1>5, <1>6 DEF end

LEMMA ClientTypes ==
  ASSUME States, ClientStep \/ (\E m \in Methods : Request(m))
  PROVE  States'
<1>1. /\ TypeOK /\ ServerOK /\ HeadKnown
      /\ buf \in Seq(Tokens) /\ wire \in Seq(Tokens) /\ body \in Seq(Tokens)
      /\ Len(buf) \in Nat /\ need \in Nat /\ srv.up \in BOOLEAN /\ blank \in BOOLEAN
  BY LenProperties DEF States, TypeOK
<1>2. <<>> \in Seq(Tokens) /\ Len(<<>>) = 0
  BY EmptySeq
<1>3. MaxHead + ReadSize \in Nat /\ MaxHead \in Nat /\ ReadSize \in Nat
  BY Http1Assumption
<1>4. ASSUME Fail
      PROVE  States'
  BY <1>1, <1>2, <1>4 DEF Fail, TypeOK, ServerOK, States, HeadKnown
<1>5. ASSUME NEW q \in Seq(Tokens), NEW keep, Finish(q, keep),
             head' \in Heads \cup {NoHead, Blank}, need' \in Nat, UNCHANGED <<method, req, wire, srv, asked>>, blank' \in BOOLEAN
      PROVE  States'
  BY <1>1, <1>2, <1>5 DEF Finish, TypeOK, ServerOK, States, HeadKnown
<1>6. CASE WriteFails
  BY <1>4, <1>6 DEF WriteFails
<1>15. CASE ReadFails
  BY <1>4, <1>15 DEF ReadFails
<1>7. CASE Read
  <2>1. PICK k \in 0..Len(wire) : /\ k <= ReadSize /\ k \in Nat
                                  /\ buf' = buf \o SubSeq(wire, 1, k)
                                  /\ wire' = After(wire, k)
    BY <1>7, ReadTakes
  <2>2. buf' \in Seq(Tokens) /\ wire' \in Seq(Tokens) /\ Len(buf') = Len(buf) + k
    BY <1>1, <2>1, ReadTokens
  <2>3. pc = "head" => Len(buf) <= MaxHead
    <3>1. pc = "head" => ~(Len(buf) > MaxHead)
      BY <1>7 DEF Read, Starved, HeadTooLarge
    <3> QED
      BY <1>1, <1>3, <3>1
  <2>4. pc = "head" => Len(buf') <= MaxHead + ReadSize
    BY <1>1, <1>3, <2>1, <2>2, <2>3
  <2>5. UNCHANGED <<pc, method, req, head, need, body, result, srv, asked, blank>>
    BY <1>7 DEF Read
  <2> QED
    BY <1>1, <2>2, <2>4, <2>5 DEF TypeOK, ServerOK, States, HeadKnown
<1>8. CASE ReadEnd
  <2>1. head' \in Heads \cup {NoHead, Blank} /\ need' \in Nat
    BY <1>1, <1>8 DEF ReadEnd, Fail, TypeOK
  <2>2. UNCHANGED <<method, req, wire, srv, asked, blank>>
    BY <1>8 DEF ReadEnd, Fail
  <2>3. Fail \/ \E keep \in {~head.close, FALSE} : Finish(buf, keep)
    BY <1>8 DEF ReadEnd
  <2> QED
    BY <1>1, <1>4, <1>5, <2>1, <2>2, <2>3
<1>9. CASE RefuseHead
  BY <1>4, <1>9 DEF RefuseHead
<1>10. CASE ParseHead
  <2> DEFINE end == find_header_end(buf)
             h == Section(buf, end)
             rest == After(buf, end)
  <2>1. rest \in Seq(Tokens) /\ h \in Heads \cup {Blank}
    BY <1>1, <1>10, ParsedHead
  <2>2. \/ Fail
        \/ /\ head' = h /\ blank' \in BOOLEAN
           /\ UNCHANGED <<method, req, need, wire, srv, asked>>
           /\ \/ /\ pc' \in {"size", "length", "close"}
                 /\ pc' # "close" => h.framing # "none"
                 /\ buf' = rest /\ UNCHANGED <<body, result>>
              \/ Finish(<<>>, ~h.close)
    BY <1>1, <1>10 DEF ParseHead
  <2> HIDE DEF h, rest, end
  <2>3. ASSUME head' = h, blank' \in BOOLEAN,
               UNCHANGED <<method, req, need, wire, srv, asked>>,
               pc' \in {"size", "length", "close"}, pc' # "close" => h.framing # "none",
               buf' = rest, UNCHANGED <<body, result>>
        PROVE  States'
    <3>1. pc' # "close" => h \in Heads
      BY <2>1, <2>3 DEF Blank
    <3> QED
      BY <1>1, <2>1, <2>3, <3>1 DEF TypeOK, ServerOK, States, HeadKnown
  <2>4. ASSUME head' = h, blank' \in BOOLEAN,
               UNCHANGED <<method, req, need, wire, srv, asked>>, Finish(<<>>, ~h.close)
        PROVE  States'
    BY <1>1, <1>2, <1>5, <2>1, <2>4 DEF TypeOK
  <2> QED
    BY <1>4, <2>2, <2>3, <2>4
<1>11. CASE ReadSizeLine
  <2>1. buf # <<>>
    BY <1>11 DEF ReadSizeLine
  <2>2. Head(buf) \in Tokens /\ Tail(buf) \in Seq(Tokens)
    BY <1>1, <2>1, HeadTailProperties
  <2>3. Head(buf).t = "size" => Head(buf).n \in Nat
    BY <2>2 DEF Tokens, Line, Crlf, Trailer, Heads
  <2>4. \/ Fail
        \/ /\ Finish(body, ~head.close) /\ UNCHANGED <<method, req, head, need, wire, srv, asked, blank>>
        \/ /\ need' \in Nat /\ pc' = "chunk" /\ buf' = Tail(buf)
           /\ UNCHANGED <<method, req, head, body, result, wire, srv, asked, blank>>
    BY <1>11, <2>3 DEF ReadSizeLine
  <2>5. ASSUME Finish(body, ~head.close), UNCHANGED <<method, req, head, need, wire, srv, asked, blank>>
        PROVE  States'
    <3>1. head' \in Heads \cup {NoHead, Blank} /\ need' \in Nat
      BY <1>1, <2>5 DEF TypeOK
    <3> QED
      BY <1>1, <1>5, <2>5, <3>1
  <2>6. ASSUME need' \in Nat, pc' = "chunk", buf' = Tail(buf),
               UNCHANGED <<method, req, head, body, result, wire, srv, asked, blank>>
        PROVE  States'
    BY <1>1, <1>11, <2>2, <2>6 DEF ReadSizeLine, TypeOK, ServerOK, States, HeadKnown
  <2> QED
    BY <1>4, <2>4, <2>5, <2>6
<1>12. CASE ReadChunk
  <2>1. Len(buf) >= need + 1
    BY <1>12 DEF ReadChunk, ChunkMet
  <2>2. need \in 0..Len(buf) /\ need + 1 \in 0..Len(buf)
    BY <1>1, <2>1
  <2>3. Chunk \in Seq(Tokens)
    BY <1>1, <2>2, FirstProps DEF Chunk
  <2>4. body \o Chunk \in Seq(Tokens)
    BY <1>1, <2>3, ConcatProperties
  <2>5. After(buf, need + 1) \in Seq(Tokens)
    BY <1>1, <2>2, AfterProps
  <2> QED
    BY <1>1, <1>12, <2>4, <2>5 DEF ReadChunk, TypeOK, ServerOK, States, HeadKnown
<1>13. CASE ReadLength
  <2>1. head.len \in Nat
    BY <1>1, <1>13 DEF ReadLength, HeadKnown, Heads
  <2>2. Truncated(buf, head.len) \in Seq(Tokens)
    <3> DEFINE k == Min({head.len, Len(buf)})
    <3>1. k \in 0..Len(buf)
      <4>1. k \in Nat /\ k <= Len(buf)
        BY <1>1, <2>1, MinOfTwo
      <4> QED
        BY <1>1, <4>1
    <3> HIDE DEF k
    <3>2. SubSeq(buf, 1, k) \in Seq(Tokens)
      BY <1>1, <3>1, FirstProps
    <3> QED
      BY <3>2 DEF Truncated, k
  <2>3. head' \in Heads \cup {NoHead, Blank} /\ need' \in Nat /\ blank' \in BOOLEAN
    BY <1>1, <1>13 DEF ReadLength, TypeOK
  <2>4. /\ Finish(Truncated(buf, head.len), ~head.close)
        /\ UNCHANGED <<method, req, wire, srv, asked>>
    BY <1>13 DEF ReadLength
  <2> QED
    BY <1>5, <2>2, <2>3, <2>4
<1>14. ASSUME NEW m \in Methods, Request(m)
       PROVE  States'
  <2>1. req + 1 \in 0..MaxRequests
    <3>1. req \in 0..MaxRequests /\ req < MaxRequests /\ MaxRequests \in Nat
      BY <1>1, <1>14, Http1Assumption DEF Request, TypeOK
    <3> QED
      BY <3>1
  <2>2. req + 1 \in Nat /\ method' = m
    BY <2>1, <1>14, Http1Assumption DEF Request
  <2>3. srv' \in SrvTypes /\ ServerOK'
    <3>1. srv' = Begun \/ srv' = srv
      BY <1>14 DEF Request
    <3> QED
      BY <1>1, <3>1, Begins DEF TypeOK, ServerOK, SrvTypes
  <2>4. asked' \in Seq(Asks) /\ asked' # <<>>
    <3> DEFINE ask == [req |-> req + 1, method |-> m]
    <3>1. ask \in Asks
      BY <2>2 DEF Asks
    <3>2. asked' = <<ask>> \/ asked' = Append(asked, ask)
      BY <1>14 DEF Request
    <3> HIDE DEF ask
    <3>3. /\ <<ask>> \in Seq(Asks) /\ <<ask>> # <<>>
          /\ Append(asked, ask) \in Seq(Asks) /\ Append(asked, ask) # <<>>
      BY <3>1, AskedTypes, AppendProperties
    <3> QED
      BY <3>2, <3>3
  <2>5. Len(buf') <= MaxHead + ReadSize
    BY <1>2, <1>3, <1>14 DEF Request
  <2> QED
    BY <1>1, <1>2, <1>14, <2>1, <2>3, <2>4, <2>5
       DEF Request, TypeOK, SrvTypes, States, HeadKnown, Asks
<1> QED
  BY <1>6, <1>7, <1>8, <1>9, <1>10, <1>11, <1>12, <1>13, <1>14, <1>15
     DEF ClientStep

LEMMA InitTypes ==
  ASSUME Init
  PROVE  States
<1>1. <<>> \in Seq(Tokens) /\ Len(<<>>) = 0
  BY EmptySeq
<1>2. asked \in Seq(Asks) /\ asked # <<>>
  <2>1. [req |-> 0, method |-> "GET"] \in Asks
    BY DEF Asks
  <2> QED
    BY <2>1 DEF Init
<1>3. srv \in SrvTypes
  BY Http1Assumption DEF Init, SrvTypes, Framings
<1>4. /\ pc = "idle" /\ method = "GET" /\ req = 0 /\ need = 0 /\ result = "none"
      /\ buf = <<>> /\ body = <<>> /\ wire = <<>> /\ head = NoHead /\ blank = FALSE
  BY DEF Init
<1>5. req \in 0..MaxRequests /\ need \in Nat
  BY <1>4, Http1Assumption
<1>6. TypeOK
  BY <1>1, <1>2, <1>3, <1>4, <1>5 DEF TypeOK, SrvTypes, Asks
<1>7. ServerOK
  BY DEF Init, ServerOK
<1> QED
  BY <1>4, <1>6, <1>7 DEF States, HeadKnown

(* The types hold on the whole run: what a step needs of them is that the  *)
(* server never sends more of a body than is left of it.                   *)
LEMMA StatesKept == Spec => []States
<1>1. Init => States
  BY InitTypes
<1>2. States /\ [Next]_vars => States'
  <2> SUFFICES ASSUME States, [Next]_vars PROVE States'
    OBVIOUS
  <2>1. CASE UNCHANGED vars
    BY <2>1 DEF vars, States, HeadKnown, TypeOK, ServerOK
  <2>2. CASE Next
    <3>1. CASE Rest
      BY <2>1, <3>1 DEF Rest
    <3> QED
      BY <2>2, <3>1, ServerTypes, ClientTypes DEF Next
  <2> QED
    BY <2>1, <2>2
<1> QED
  BY <1>1, <1>2, PTL DEF Spec

(* TypeOK, for all limits: what is read of a header section never takes    *)
(* more than the limit and one read.                                       *)
THEOREM HeadBounded == Spec => []TypeOK
<1>1. States => TypeOK
  BY DEF States
<1> QED
  BY <1>1, StatesKept, PTL

-----------------------------------------------------------------------------
(* The server's steps keep the stream framed. *)

LEMMA StreamTypes ==
  ASSUME States
  PROVE  /\ Stream \in Seq(Tokens) /\ DataIn(Stream) \in Nat /\ Len(Stream) \in Nat
         /\ Len(body) \in Nat
         /\ buf \in Seq(Tokens) /\ wire \in Seq(Tokens) /\ body \in Seq(Tokens)
         /\ srv.left \in Nat /\ srv.total \in Nat /\ srv.up \in BOOLEAN
         /\ srv.phase \in {"requested", "body", "closing", "done"}
         /\ req \in Nat
<1>1. buf \in Seq(Tokens) /\ wire \in Seq(Tokens) /\ body \in Seq(Tokens)
  BY DEF States, TypeOK
<1>2. buf \o wire \in Seq(Tokens) /\ Len(body) \in Nat
  BY <1>1, ConcatProperties, LenProperties
<1>3. Stream \in Seq(Tokens)
  BY <1>2 DEF Stream
<1>4. DataIn(Stream) \in Nat /\ Len(Stream) \in Nat
  BY <1>3, PlacesFinite, LenProperties
<1>5. /\ srv.left \in Nat /\ srv.total \in Nat /\ srv.up \in BOOLEAN
      /\ srv.phase \in {"requested", "body", "closing", "done"}
  <2>1. srv \in SrvTypes
    BY DEF States, TypeOK, SrvTypes
  <2> QED
    BY <2>1 DEF SrvTypes
<1>6. req \in Nat
  BY Http1Assumption DEF States, TypeOK
<1> QED
  BY <1>1, <1>2, <1>3, <1>4, <1>5, <1>6

LEMMA StreamSent ==
  ASSUME States, NEW c \in Seq(Tokens), Send(c)
  PROVE  /\ Stream' = Stream \o c /\ srv.up
         /\ DataIn(Stream') = DataIn(Stream) + DataIn(c) /\ DataIn(c) \in Nat
         /\ UNCHANGED <<pc, method, req, buf, head, need, body, result, asked, blank>>
<1>1. /\ wire' = wire \o c /\ srv.up
      /\ UNCHANGED <<pc, method, req, buf, head, need, body, result, asked, blank>>
  BY SendTypes
<1>2. buf \in Seq(Tokens) /\ wire \in Seq(Tokens) /\ Stream \in Seq(Tokens)
  BY StreamTypes
<1>3. buf \o (wire \o c) = (buf \o wire) \o c
  BY <1>2, JoinLast
<1>4. Stream' = Stream \o c
  BY <1>1, <1>3 DEF Stream
<1>5. DataIn(Stream \o c) = DataIn(Stream) + DataIn(c) /\ DataIn(c) \in Nat
  BY <1>2, DataJoin, PlacesFinite
<1> QED
  BY <1>1, <1>4, <1>5

(* The server has the current request and no other. *)
LEMMA AloneAsked ==
  ASSUME Alone
  PROVE  Asked.req = req /\ Asked.method = method /\ ~SrvNext
<1>1. Asked.req = req /\ Asked.method = method /\ Len(asked) = 1
  BY DEF Alone, Asked
<1>2. ~(1 > 1)
  OBVIOUS
<1>3. SrvNext => Len(asked) > 1
  BY DEF SrvNext
<1> QED
  BY <1>1, <1>2, <1>3

(* A response, or a line before it, is sent to a client that waits for its *)
(* header section.                                                         *)
LEMMA RequestedHead ==
  ASSUME States, Framed, srv.up, srv.phase = "requested"
  PROVE  /\ pc \in {"head", "dropped"} /\ result # "ok"
         /\ pc = "head" => /\ body = <<>> /\ Len(body) = 0
                           /\ \A i \in 1..Len(Stream) : Early(Stream[i])
         /\ srv.left = 0 /\ srv.total = 0
<1>1. Len(<<>>) = 0
  BY EmptySeq
<1> QED
  BY <1>1 DEF States, TypeOK, ServerOK, Framed, Kept, InBody, InHead

LEMMA LineSent ==
  ASSUME States, Framed, SrvLine
  PROVE  Framed'
<1>1. Line \in Tokens /\ Line.t = "line" /\ srv \in SrvTypes
  BY SentTokens, StreamTypes DEF States, TypeOK, SrvTypes
<1> DEFINE c == <<Line>>
<1>2. c \in Seq(Tokens) /\ Len(c) = 1 /\ c[1] = Line
  BY <1>1
<1>3. Send(c) /\ srv.phase = "requested" /\ srv' = [srv EXCEPT !.lines = @ + 1]
  BY DEF SrvLine
<1> HIDE DEF c
<1>4. /\ Stream' = Stream \o c /\ srv.up
      /\ UNCHANGED <<pc, method, req, buf, head, need, body, result, asked, blank>>
  BY <1>2, <1>3, StreamSent
<1>5. /\ pc \in {"head", "dropped"} /\ result # "ok"
      /\ pc = "head" => /\ body = <<>> /\ Len(body) = 0
                        /\ \A i \in 1..Len(Stream) : Early(Stream[i])
      /\ srv.left = 0 /\ srv.total = 0
  BY <1>3, <1>4, RequestedHead
<1>6. srv'.phase = "requested" /\ srv'.left = 0 /\ srv'.total = 0
  BY <1>1, <1>3, <1>5 DEF SrvTypes
<1>7. ASSUME pc = "head"
      PROVE  \A i \in 1..Len(Stream') : Early(Stream'[i])
  <2> DEFINE q == Stream
             a == Stream'
  <2>1. /\ Len(q) \in Nat /\ Len(a) = Len(q) + 1
        /\ \A i \in 1..Len(q) : a[i] = q[i]
        /\ a[1 + Len(q)] = c[1]
    BY <1>2, <1>4, StreamTypes, JoinOne, SMTT(20)
  <2>2. \A i \in 1..Len(q) : Early(q[i])
    BY <1>5, <1>7
  <2> HIDE DEF a, q
  <2>3. \A i \in 1..Len(a) : i = 1 + Len(q) \/ (i \in 1..Len(q) /\ a[i] = q[i])
    BY <2>1
  <2>4. \A i \in 1..Len(a) : Early(a[i])
    BY <1>1, <1>2, <2>1, <2>2, <2>3 DEF Early
  <2> QED
    BY <2>4 DEF a
<1>8. ASSUME pc = "head"
      PROVE  Rules(Stream', req', method', srv') /\ DataIn(Stream') = 0
  BY <1>7, <1>8, RulesEarly
<1>9. pc = "head" => Counted' /\ InHead'
  BY <1>4, <1>5, <1>6, <1>7, <1>8 DEF Counted, InHead
<1> QED
  BY <1>4, <1>5, <1>8, <1>9 DEF Framed

LEMMA HeadSent ==
  ASSUME States, Framed, srv.phase = "requested",
         NEW h \in Tokens, h.t = "head", Send(<<h>>), Tells(h, req, method, srv'),
         srv'.left = srv'.total, srv'.left \in Nat, srv'.phase # "requested"
  PROVE  Framed'
<1> DEFINE c == <<h>>
<1>1. c \in Seq(Tokens) /\ Len(c) = 1 /\ c[1] = h
  OBVIOUS
<1>2. Send(c)
  OBVIOUS
<1> HIDE DEF c
<1>3. /\ Stream' = Stream \o c /\ srv.up
      /\ UNCHANGED <<pc, method, req, buf, head, need, body, result, asked, blank>>
  BY <1>1, <1>2, StreamSent
<1>4. /\ pc \in {"head", "dropped"} /\ result # "ok"
      /\ pc = "head" => /\ body = <<>> /\ Len(body) = 0
                        /\ \A i \in 1..Len(Stream) : Early(Stream[i])
  BY <1>3, RequestedHead
<1>5. ASSUME pc = "head"
      PROVE  /\ Rules(Stream \o c, req, method, srv') /\ DataIn(Stream \o c) = 0
             /\ \E i \in 1..Len(Stream \o c) : (Stream \o c)[i].t = "head"
  <2>1. Stream \in Seq(Tokens) /\ \A i \in 1..Len(Stream) : Early(Stream[i])
    BY <1>4, <1>5, StreamTypes
  <2> QED
    BY <1>1, <2>1, RulesHead
<1>6. pc = "head" => /\ Rules(Stream', req', method', srv') /\ DataIn(Stream') = 0
                     /\ \E i \in 1..Len(Stream') : Stream'[i].t = "head"
  BY <1>3, <1>5
<1>7. pc = "head" => Counted' /\ InHead'
  BY <1>3, <1>4, <1>6 DEF Counted, InHead
<1> QED
  BY <1>3, <1>4, <1>6, <1>7 DEF Framed

(* The bytes of one chunk. *)
LEMMA ChunkData ==
  ASSUME NEW r \in Nat, NEW n \in Nat,
         NEW c, c = <<Size(n)>> \o [i \in 1..n |-> Data(r)] \o <<Crlf>>
  PROVE  /\ DataIn(c) = n /\ ChunkAt(c, 2, n, r)
         /\ \A i \in 1..Len(c) : 1 < i => c[i].t \notin {"head", "size"}
<1>1. /\ Len(c) = n + 2 /\ c[1] = Size(n) /\ c[n + 2] = Crlf
      /\ \A i \in 1..Len(c) : i = 1 \/ i = n + 2 \/ c[i] = Data(r)
  BY ChunkTokens
<1>2. /\ Crlf.t = "crlf" /\ Data(r).t = "data" /\ Size(n).t = "size"
  BY SentTokens
<1>3. {i \in 1..Len(c) : c[i].t = "data"} = 2..n + 1
  BY <1>1, <1>2
<1>4. Cardinality(2..n + 1) = n
  <2>1. 2 \in Int /\ n + 1 \in Int
    OBVIOUS
  <2>2. Cardinality(2..n + 1) = IF 2 > n + 1 THEN 0 ELSE n + 1 - 2 + 1
    BY <2>1, FS_Interval
  <2> QED
    BY <2>2
<1>5. DataIn(c) = n
  BY <1>3, <1>4 DEF DataIn
<1>6. ChunkAt(c, 2, n, r)
  <2>1. 2 + n = n + 2 /\ 2 + n <= Len(c) /\ ~(2 + n < Len(c))
    BY <1>1
  <2>2. \A j \in 1..Len(c) : 2 <= j /\ j < 2 + n => c[j] = Data(r)
    BY <1>1
  <2> QED
    BY <1>1, <1>2, <2>1, <2>2 DEF ChunkAt
<1> QED
  BY <1>1, <1>2, <1>5, <1>6

(* Some of a body is sent. *)
LEMMA BodySent ==
  ASSUME States, Framed, srv.phase = "body",
         NEW c \in Seq(Tokens), Send(c), Len(c) >= 1,
         srv'.framing = srv.framing, srv'.total = srv.total, srv'.phase # "requested",
         srv'.left \in Nat, DataIn(c) + srv'.left = srv.left,
         Rules(Stream, req, method, srv) => Rules(Stream \o c, req, method, srv'),
         \A i \in 1..Len(c) : c[i].t # "head",
         srv.framing = "chunked" => c[1].t = "size",
         srv.framing # "chunked" => \A i \in 1..Len(c) : c[i] = Data(req)
  PROVE  Framed'
<1> DEFINE S == Stream
           T == S \o c
           l == Len(S)
<1>1. /\ Stream' = T /\ srv.up
      /\ DataIn(T) = DataIn(S) + DataIn(c) /\ DataIn(c) \in Nat
      /\ UNCHANGED <<pc, method, req, buf, head, need, body, result, asked, blank>>
  BY StreamSent
<1>2. /\ S \in Seq(Tokens) /\ l \in Nat /\ DataIn(S) \in Nat
      /\ srv.left \in Nat /\ srv.total \in Nat /\ srv.up \in BOOLEAN /\ Len(body) \in Nat
  BY StreamTypes
<1>3. /\ Len(T) = l + Len(c) /\ Len(c) \in Nat
      /\ \A i \in 1..l : T[i] = S[i]
      /\ \A i \in 1..Len(c) : T[i + l] = c[i]
  BY <1>2, WireLast
<1> HIDE DEF T, l
<1>4. \A i \in 1..Len(T) : \/ i \in 1..l /\ T[i] = S[i]
                           \/ i - l \in 1..Len(c) /\ T[i] = c[i - l]
  <2>1. ASSUME NEW i \in 1..Len(T), ~(i \in 1..l)
        PROVE  i - l \in 1..Len(c) /\ T[i] = c[i - l]
    <3>1. i - l \in 1..Len(c) /\ (i - l) + l = i
      BY <1>2, <1>3, <2>1
    <3> QED
      BY <1>3, <3>1
  <2> QED
    BY <1>3, <2>1
<1>5. T[l + 1] = c[1] /\ l + 1 \in 1..Len(T)
  <2>1. 1 \in 1..Len(c) /\ 1 + l = l + 1 /\ l + 1 \in 1..l + Len(c)
    BY <1>2, <1>3
  <2> QED
    BY <1>3, <2>1
<1>6. pc # "idle"
  BY <1>1 DEF Framed, Kept
<1>7. result = "ok" => pc \in {"idle", "dropped"}
  BY DEF Framed
<1>8. CASE pc = "dropped"
  BY <1>1, <1>7, <1>8 DEF Framed
<1>9. ASSUME pc # "dropped"
      PROVE  Rules(Stream', req', method', srv') /\ Counted'
  <2>1. Rules(S, req, method, srv) /\ Counted
    BY <1>6, <1>9 DEF Framed
  <2>2. Len(body) + DataIn(S) + srv.left = srv.total
    BY <2>1 DEF Counted
  <2>3. Len(body) + (DataIn(S) + DataIn(c)) + srv'.left = srv.total
    BY <1>1, <1>2, <2>2
  <2>4. Rules(T, req, method, srv')
    BY <2>1 DEF T
  <2> QED
    BY <1>1, <2>3, <2>4 DEF Counted
<1>10. CASE pc = "head"
  <2>1. body = <<>> /\ \E i \in 1..Len(S) : S[i].t = "head"
    BY <1>10 DEF Framed, InHead
  <2>2. \E i \in 1..Len(T) : T[i].t = "head"
    BY <1>2, <1>3, <2>1, SMTT(20) DEF l
  <2>3. InHead'
    BY <1>1, <2>1, <2>2 DEF InHead
  <2> QED
    BY <1>1, <1>7, <1>9, <1>10, <2>3 DEF Framed
<1>11. ASSUME pc \in {"size", "chunk", "length", "close"}
       PROVE  InBody' /\ head.framing = srv.framing
  <2>1. InBody
    BY <1>11 DEF Framed
  <2>2. Tells(head, req, method, srv') /\ head.framing = srv.framing
    BY <2>1 DEF InBody, Tells
  <2>3. \A i \in 1..Len(T) : T[i].t # "head"
    BY <1>4, <2>1 DEF InBody, l
  <2> QED
    BY <1>1, <2>1, <2>2, <2>3 DEF InBody
<1>12. CASE pc = "size"
  <2>1. head.framing = "chunked" /\ (S # <<>> => S[1].t = "size")
    BY <1>12 DEF Framed, InSize
  <2>2. T[1].t = "size"
    <3>1. CASE S = <<>>
      <4>1. l + 1 = 1
        BY <1>2, <3>1, EmptySeq DEF l
      <4> QED
        BY <1>5, <1>11, <1>12, <2>1, <4>1
    <3>2. CASE S # <<>>
      <4>1. 1 \in 1..l
        BY <1>2, <3>2, EmptySeq DEF l
      <4> QED
        BY <1>3, <2>1, <3>2, <4>1
    <3> QED
      BY <3>1, <3>2
  <2>3. InSize'
    BY <1>1, <2>1, <2>2 DEF InSize
  <2> QED
    BY <1>1, <1>7, <1>9, <1>11, <1>12, <2>3 DEF Framed
<1>13. CASE pc = "chunk"
  <2>1. head.framing = "chunked" /\ need > 0 /\ ChunkAt(S, 1, need, req)
    BY <1>13 DEF Framed, InChunk
  <2>2. /\ 1 + need <= l /\ S[1 + need].t = "crlf"
        /\ \A j \in 1..l : 1 <= j /\ j < 1 + need => S[j] = Data(req)
        /\ 1 + need < l => S[1 + need + 1].t = "size"
    BY <2>1 DEF ChunkAt, l
  <2>3. need \in Nat /\ 1 + need \in 1..l
    BY <1>2, <2>2 DEF States, TypeOK
  <2>4. 1 + need <= Len(T) /\ T[1 + need].t = "crlf"
    BY <1>2, <1>3, <2>2, <2>3
  <2>5. \A j \in 1..Len(T) : 1 <= j /\ j < 1 + need => T[j] = Data(req)
    BY <1>2, <1>3, <2>2, <2>3
  <2>6. 1 + need < Len(T) => T[1 + need + 1].t = "size"
    <3>1. CASE 1 + need < l
      <4>1. 1 + need + 1 \in 1..l
        BY <1>2, <2>3, <3>1
      <4> QED
        BY <1>3, <2>2, <3>1, <4>1
    <3>2. CASE 1 + need = l
      BY <1>5, <1>11, <1>13, <2>1, <3>2
    <3> QED
      BY <1>2, <2>3, <3>1, <3>2
  <2>7. ChunkAt(T, 1, need, req)
    BY <2>4, <2>5, <2>6 DEF ChunkAt
  <2>8. InChunk'
    BY <1>1, <2>1, <2>7 DEF InChunk
  <2> QED
    BY <1>1, <1>7, <1>9, <1>11, <1>13, <2>8 DEF Framed
<1>14. CASE pc \in {"length", "close"}
  <2>1. /\ head.framing = IF pc = "length" THEN "length" ELSE "none"
        /\ body = <<>> /\ \A i \in 1..Len(S) : S[i] = Data(req)
    BY <1>14 DEF Framed, InPlain
  <2>2. head.framing # "chunked"
    BY <1>14, <2>1
  <2>3. \A i \in 1..Len(T) : T[i] = Data(req)
    BY <1>4, <1>11, <1>14, <2>1, <2>2 DEF l
  <2>4. InPlain'
    BY <1>1, <2>1, <2>3 DEF InPlain
  <2> QED
    BY <1>1, <1>7, <1>9, <1>11, <1>14, <2>4 DEF Framed
<1> QED
  BY <1>6, <1>8, <1>10, <1>12, <1>13, <1>14 DEF States, TypeOK

LEMMA DataFramed ==
  ASSUME States, Framed, Alone, SrvData
  PROVE  Framed'
<1> DEFINE c == <<Data(req)>>
<1>1. Data(req) \in Tokens /\ Data(req).t = "data" /\ srv \in SrvTypes
  BY StreamTypes, SentTokens DEF States, TypeOK, SrvTypes
<1>2. c \in Seq(Tokens) /\ Len(c) = 1 /\ c[1] = Data(req)
  BY <1>1
<1>3. Send(c) /\ srv.phase = "body" /\ srv.framing # "chunked"
  BY AloneAsked DEF SrvData
<1> HIDE DEF c
<1>4. srv.left \in Nat /\ srv.left > 0
  BY <1>1, <1>3 DEF States, ServerOK, SrvTypes
<1>5. /\ srv'.framing = srv.framing /\ srv'.total = srv.total
      /\ srv'.left = srv.left - 1
      /\ srv'.phase # "requested"
  BY <1>1 DEF SrvData, Sent, SrvTypes
<1>6. Stream \in Seq(Tokens)
  BY StreamTypes
<1>7. Rules(Stream, req, method, srv) =>
         Rules(Stream \o c, req, method, srv') /\ DataIn(c) = 1
  BY <1>2, <1>3, <1>5, <1>6, RulesData
<1>8. DataIn(c) = 1
  <2>1. \A i \in 1..Len(c) : i = 1
    BY <1>2
  <2>2. /\ 1 \in Nat /\ Len(c) \in Nat /\ 1 <= Len(c)
        /\ \A i \in 1..Len(c) : c[i].t = "data" <=> i <= 1
    BY <1>1, <1>2, <2>1
  <2> QED
    BY <2>2, DataFirst
<1>9. \A i \in 1..Len(c) : c[i] = Data(req)
  BY <1>2
<1>10. srv'.left \in Nat /\ DataIn(c) + srv'.left = srv.left /\ Len(c) >= 1
  BY <1>2, <1>4, <1>5, <1>8
<1>11. \A i \in 1..Len(c) : c[i].t # "head"
  BY <1>1, <1>9
<1> QED
  BY <1>2, <1>3, <1>5, <1>7, <1>9, <1>10, <1>11, BodySent

LEMMA ChunkFramed ==
  ASSUME States, Framed, Alone, SrvChunk
  PROVE  Framed'
<1>1. PICK n \in 1..srv.left :
         /\ Send(<<Size(n)>> \o [i \in 1..n |-> Data(req)] \o <<Crlf>>)
         /\ srv' = [srv EXCEPT !.left = @ - n]
  BY AloneAsked DEF SrvChunk
<1> DEFINE c == <<Size(n)>> \o [i \in 1..n |-> Data(req)] \o <<Crlf>>
<1>2. srv \in SrvTypes /\ srv.left \in Nat /\ req \in Nat /\ Stream \in Seq(Tokens)
  BY StreamTypes DEF States, TypeOK, SrvTypes
<1>3. n \in Nat /\ n > 0 /\ srv.phase = "body" /\ srv.framing = "chunked"
  BY <1>2 DEF SrvChunk
<1>4. c \in Seq(Tokens) /\ Len(c) = n + 2 /\ c[1] = Size(n)
  BY <1>2, <1>3, ChunkTokens
<1>5. /\ DataIn(c) = n /\ ChunkAt(c, 2, n, req)
      /\ \A i \in 1..Len(c) : 1 < i => c[i].t \notin {"head", "size"}
  BY <1>2, <1>3, ChunkData
<1>6. Send(c)
  BY <1>1
<1> HIDE DEF c
<1>7. /\ srv'.framing = srv.framing /\ srv'.total = srv.total /\ srv'.phase = "body"
      /\ srv'.left = srv.left - n /\ srv'.left \in Nat
  BY <1>1, <1>2, <1>3 DEF SrvTypes
<1>8. Len(c) >= 1
  BY <1>3, <1>4
<1>9. Rules(Stream, req, method, srv) => Rules(Stream \o c, req, method, srv')
  <2>1. /\ srv.phase # "done"
        /\ n > 0 => ChunkAt(c, 2, n, req) /\ Len(c) = n + 2
        /\ n = 0 => srv'.phase = "done" /\ \A i \in 1..Len(c) : 1 < i => Idle(c[i])
    BY <1>3, <1>4, <1>5
  <2> QED
    BY <1>2, <1>3, <1>4, <1>5, <1>7, <1>8, <2>1, RulesSize
<1>10. c[1].t = "size" /\ \A i \in 1..Len(c) : c[i].t # "head"
  <2>1. c[1].t = "size"
    BY <1>3, <1>4 DEF Size
  <2>2. \A i \in 1..Len(c) : i = 1 \/ 1 < i
    BY <1>3, <1>4
  <2> QED
    BY <1>5, <2>1, <2>2
<1>11. DataIn(c) + srv'.left = srv.left /\ srv'.phase # "requested"
  BY <1>2, <1>3, <1>5, <1>7
<1> QED
  BY <1>3, <1>4, <1>6, <1>7, <1>8, <1>9, <1>10, <1>11, BodySent

LEMMA LastFramed ==
  ASSUME States, Framed, SrvLastChunk
  PROVE  Framed'
<1>1. PICK c \in {<<Size(0), Crlf>>, <<Size(0), Trailer, Crlf, Crlf>>} : Send(c)
  BY DEF SrvLastChunk
<1>2. srv \in SrvTypes /\ req \in Nat /\ Stream \in Seq(Tokens)
  BY StreamTypes DEF States, TypeOK, SrvTypes
<1>3. /\ c \in Seq(Tokens) /\ Len(c) >= 1 /\ c[1] = Size(0)
      /\ \A i \in 1..Len(c) : 1 < i => Idle(c[i])
  BY LastTokens
<1>4. srv.phase = "body" /\ srv.framing = "chunked" /\ srv.left = 0
  BY DEF SrvLastChunk
<1>5. /\ srv'.framing = srv.framing /\ srv'.total = srv.total /\ srv'.phase = "done"
      /\ srv'.left = 0
  BY <1>2, <1>4 DEF SrvTypes, SrvLastChunk
<1>6. Len(c) \in Nat
  BY <1>3, LenProperties
<1>7. c[1].t = "size" /\ \A i \in 1..Len(c) : c[i].t \notin {"head", "data"}
  <2>1. c[1].t = "size"
    BY <1>3 DEF Size
  <2>2. \A i \in 1..Len(c) : i = 1 \/ 1 < i
    BY <1>6
  <2> QED
    BY <1>3, <2>1, <2>2 DEF Idle
<1>8. DataIn(c) = 0
  BY <1>7, DataNone
<1>9. Rules(Stream, req, method, srv) => Rules(Stream \o c, req, method, srv')
  <2>1. /\ srv.phase # "done" /\ 0 \in Nat
        /\ \A i \in 1..Len(c) : 1 < i => c[i].t \notin {"head", "size"}
        /\ 0 > 0 => ChunkAt(c, 2, 0, req) /\ Len(c) = 0 + 2
        /\ 0 = 0 => srv'.phase = "done" /\ \A i \in 1..Len(c) : 1 < i => Idle(c[i])
    BY <1>3, <1>4, <1>5 DEF Idle
  <2> QED
    BY <1>2, <1>3, <1>4, <1>5, <2>1, RulesSize
<1>10. DataIn(c) + srv'.left = srv.left /\ srv'.left \in Nat /\ srv'.phase # "requested"
  BY <1>4, <1>5, <1>8
<1> QED
  BY <1>1, <1>3, <1>4, <1>5, <1>7, <1>9, <1>10, BodySent

LEMMA CloseFramed ==
  ASSUME States, Framed, SrvClose
  PROVE  Framed'
<1>1. srv \in SrvTypes
  BY DEF States, TypeOK, SrvTypes
<1>2. UNCHANGED <<pc, method, req, buf, head, need, body, result, wire, asked, blank>>
  BY DEF SrvClose
<1>3. /\ srv'.framing = srv.framing /\ srv'.total = srv.total /\ srv'.left = srv.left
      /\ srv.phase = "done" => srv'.phase = "done"
      /\ srv'.phase = "requested" <=> srv.phase = "requested"
      /\ ~srv'.up
  BY <1>1 DEF SrvClose, SrvTypes
<1>4. Stream' = Stream
  BY <1>2 DEF Stream
<1>5. Rules(Stream, req, method, srv) => Rules(Stream, req, method, srv')
  BY <1>3, RulesServer
<1>6. Counted => Counted'
  BY <1>2, <1>3, <1>4 DEF Counted
<1>7. InHead => InHead'
  BY <1>2, <1>3, <1>4 DEF InHead
<1>8. InBody => InBody'
  BY <1>2, <1>3, <1>4 DEF InBody, Tells
<1>9. (InSize => InSize') /\ (InChunk => InChunk') /\ (InPlain => InPlain')
  BY <1>2, <1>4 DEF InSize, InChunk, InPlain
<1>10. Kept => Kept'
  BY <1>2, <1>3 DEF Kept
<1> QED
  BY <1>2, <1>3, <1>4, <1>5, <1>6, <1>7, <1>8, <1>9, <1>10 DEF Framed

LEMMA ServerFramed ==
  ASSUME States, Framed, Alone, InterimStatuses = {}, ServerStep
  PROVE  Framed'
<1>1. srv \in SrvTypes /\ req \in Nat
  BY StreamTypes DEF States, TypeOK, SrvTypes
<1>2. ASSUME NEW framing \in Framings, NEW n \in Lengths, NEW close \in BOOLEAN,
             NEW status \in {"final", "bodyless"}, SrvBodyless(status, framing, n, close)
      PROVE  Framed'
  <2> DEFINE h == [t |-> "head", req |-> req, status |-> status,
                   framing |-> framing, len |-> n, close |-> close]
  <2>1. /\ h \in Tokens /\ h.t = "head" /\ h.req = req
        /\ h.status = status /\ h.framing = framing
    BY <1>1, HeadToken
  <2>2. Send(<<h>>) /\ srv.phase = "requested" /\ (status = "final" => method = "HEAD")
    BY <1>2, AloneAsked DEF SrvBodyless
  <2> HIDE DEF h
  <2>3. srv' = [srv EXCEPT !.phase = "done", !.framing = framing]
    BY <1>2 DEF SrvBodyless
  <2>4. srv.left = 0 /\ srv.total = 0
    BY <2>2 DEF States, ServerOK
  <2>5. /\ srv'.left = srv'.total /\ srv'.left \in Nat /\ srv'.phase # "requested"
        /\ srv'.framing = framing /\ srv'.total = 0 /\ srv'.phase = "done"
    BY <1>1, <2>3, <2>4 DEF SrvTypes
  <2>6. Tells(h, req, method, srv')
    BY <2>1, <2>2, <2>5 DEF Tells, NoBody
  <2> QED
    BY <2>1, <2>2, <2>5, <2>6, HeadSent
<1>3. ASSUME NEW framing \in Framings, NEW n \in Lengths, NEW close \in BOOLEAN,
             SrvHead(framing, n, close)
      PROVE  Framed'
  <2> DEFINE h == [t |-> "head", req |-> req, status |-> "final",
                   framing |-> framing, len |-> n, close |-> close]
  <2>1. /\ h \in Tokens /\ h.t = "head" /\ h.req = req
        /\ h.status = "final" /\ h.framing = framing /\ h.len = n /\ n \in Nat
    BY <1>1, HeadToken
  <2>2. Send(<<h>>) /\ srv.phase = "requested" /\ method # "HEAD"
    BY <1>3, AloneAsked DEF SrvHead
  <2> HIDE DEF h
  <2>3. /\ srv'.left = n /\ srv'.phase # "requested"
        /\ srv'.framing = framing /\ srv'.total = n
    BY <1>1, <1>3 DEF SrvHead, SrvTypes, Sent
  <2>4. Tells(h, req, method, srv')
    BY <2>1, <2>2, <2>3 DEF Tells, NoBody
  <2> QED
    BY <2>1, <2>2, <2>3, <2>4, HeadSent
<1>4. ~SrvNext
  BY AloneAsked
<1> QED
  BY <1>2, <1>3, <1>4, LineSent, DataFramed, ChunkFramed, LastFramed, CloseFramed DEF ServerStep

-----------------------------------------------------------------------------
(* The client's steps keep it framed. *)

LEMMA FailFramed ==
  ASSUME Fail
  PROVE  Framed' /\ WholeResponse'
BY DEF Fail, Framed, WholeResponse

(* An exchange ends well with all of its body, or where the server closed. *)
LEMMA FinishFramed ==
  ASSUME States, NEW q \in Seq(Tokens), NEW keep, Finish(q, keep),
         UNCHANGED <<method, req, wire, srv>>, srv.phase # "requested",
         head'.req = req, head'.status # "interim",
         \A i \in 1..Len(q) : q[i] = Data(req),
         \/ Len(q) = srv.total
         \/ head'.framing # "chunked" /\ ~srv.up /\ srv.phase # "done",
         keep => /\ \A i \in 1..Len(wire) : Idle(wire[i])
                 /\ srv.phase = "done" \/ ~srv.up
  PROVE  Framed' /\ WholeResponse'
<1>1. DOMAIN q = 1..Len(q)
  BY LenProperties
<1>2. pc' \in {"idle", "dropped"} /\ result' = "ok" /\ body' = q /\ buf' = <<>>
  BY DEF Finish
<1>3. WholeResponse'
  BY <1>1, <1>2 DEF WholeResponse
<1>4. pc' = "idle" => Kept'
  BY <1>2 DEF Kept, Finish
<1> QED
  BY <1>2, <1>3, <1>4 DEF Framed

LEMMA StreamRead ==
  ASSUME States
  PROVE  /\ Len(buf) \in Nat /\ Len(wire) \in Nat
         /\ Len(Stream) = Len(buf) + Len(wire)
         /\ \A i \in 1..Len(buf) : Stream[i] = buf[i] /\ i \in 1..Len(Stream)
         /\ \A i \in 1..Len(wire) : /\ wire[i] = Stream[i + Len(buf)]
                                    /\ i + Len(buf) \in 1..Len(Stream)
         /\ buf = <<>> <=> Len(buf) = 0
         /\ wire = <<>> <=> Len(wire) = 0
<1>1. buf \in Seq(Tokens) /\ wire \in Seq(Tokens)
  BY StreamTypes
<1>2. /\ Len(buf) \in Nat /\ Len(wire) \in Nat
      /\ buf \o wire \in Seq(Tokens) /\ Len(buf \o wire) = Len(buf) + Len(wire)
      /\ \A i \in 1..Len(buf) : (buf \o wire)[i] = buf[i]
      /\ \A i \in 1..Len(wire) : (buf \o wire)[i + Len(buf)] = wire[i]
      /\ buf = <<>> <=> Len(buf) = 0
      /\ wire = <<>> <=> Len(wire) = 0
  BY <1>1, WireLast
<1>3. \A i \in 1..Len(wire) : i + Len(buf) \in 1..Len(buf) + Len(wire)
  BY <1>2
<1>4. \A i \in 1..Len(buf) : i \in 1..Len(buf) + Len(wire)
  BY <1>2
<1> QED
  BY <1>2, <1>3, <1>4 DEF Stream

(* Using k tokens of what is read. *)
LEMMA StreamUsed ==
  ASSUME States, NEW k \in 0..Len(buf), buf' = After(buf, k),
         UNCHANGED <<method, req, wire, srv>>
  PROVE  /\ k \in 0..Len(Stream) /\ k \in Nat
         /\ Len(Stream') = Len(Stream) - k /\ (Stream' = <<>> <=> Len(Stream') = 0)
         /\ \A i \in 1..Len(Stream') : /\ Stream'[i] = Stream[i + k]
                                       /\ i + k \in 1..Len(Stream)
         /\ DataIn(Stream) = DataIn(SubSeq(Stream, 1, k)) + DataIn(Stream')
         /\ DataIn(Stream') \in Nat
         /\ Len(SubSeq(Stream, 1, k)) = k
         /\ \A i \in 1..k : SubSeq(Stream, 1, k)[i] = Stream[i]
         /\ Rules(Stream, req, method, srv) => Rules(Stream', req', method', srv')
<1> DEFINE q == Stream
<1>1. buf \in Seq(Tokens) /\ wire \in Seq(Tokens) /\ q \in Seq(Tokens) /\ Len(q) \in Nat
  BY StreamTypes
<1>2. After(buf, k) \o wire = After(buf \o wire, k) /\ k \in 0..Len(buf \o wire)
  BY <1>1, AfterJoin
<1>3. Stream' = After(q, k) /\ k \in 0..Len(q)
  BY <1>2 DEF Stream
<1> HIDE DEF q
<1>4. /\ After(q, k) \in Seq(Tokens) /\ Len(After(q, k)) = Len(q) - k /\ k \in Nat
      /\ \A i \in 1..Len(q) - k : After(q, k)[i] = q[i + k]
  BY <1>1, <1>3, AfterProps
<1>5. DataIn(q) = DataIn(SubSeq(q, 1, k)) + DataIn(After(q, k))
  BY <1>1, <1>3, DataSplit
<1>6. DataIn(After(q, k)) \in Nat /\ (After(q, k) = <<>> <=> Len(After(q, k)) = 0)
  BY <1>4, PlacesFinite, EmptySeq
<1>7. Len(SubSeq(q, 1, k)) = k /\ \A i \in 1..k : SubSeq(q, 1, k)[i] = q[i]
  BY <1>1, <1>3, FirstProps
<1>8. Rules(q, req, method, srv) => Rules(After(q, k), req, method, srv)
  BY <1>1, <1>3, RulesAfter
<1>9. \A i \in 1..Len(q) - k : i + k \in 1..Len(q)
  BY <1>1, <1>4
<1> QED
  BY <1>3, <1>4, <1>5, <1>6, <1>7, <1>8, <1>9 DEF q

LEMMA ReadFramed ==
  ASSUME States, Framed, Read
  PROVE  Framed' /\ WholeResponse'
<1>1. buf \in Seq(Tokens) /\ wire \in Seq(Tokens)
  BY StreamTypes
<1>2. PICK k \in 0..Len(wire) : /\ k <= ReadSize /\ k \in Nat
                                /\ buf' = buf \o SubSeq(wire, 1, k)
                                /\ wire' = After(wire, k)
  BY ReadTakes
<1>3. (buf \o SubSeq(wire, 1, k)) \o After(wire, k) = buf \o wire
  BY <1>1, ReadTokens
<1>4. Stream' = Stream
  BY <1>2, <1>3 DEF Stream
<1>5. /\ UNCHANGED <<pc, method, req, head, need, body, result, srv>>
      /\ pc \notin {"idle", "dropped"}
  BY DEF Read, Starved
<1>6. result # "ok"
  BY <1>5 DEF Framed
<1>7. WholeResponse'
  BY <1>5, <1>6 DEF WholeResponse
<1>8. Counted = Counted' /\ InHead = InHead' /\ InBody = InBody' /\ InSize = InSize'
      /\ InChunk = InChunk' /\ InPlain = InPlain'
  BY <1>4, <1>5 DEF Counted, InHead, InBody, InSize, InChunk, InPlain
<1> QED
  BY <1>4, <1>5, <1>6, <1>7, <1>8 DEF Framed

(* The bytes of a plain body: all that the stream has. *)
LEMMA PlainBody ==
  ASSUME States, Framed, pc \in {"length", "close"}
  PROVE  /\ Tells(head, req, method, srv) /\ srv.phase # "requested"
         /\ Len(Stream) + srv.left = srv.total
         /\ \A i \in 1..Len(Stream) : Stream[i] = Data(req)
         /\ head.framing = IF pc = "length" THEN "length" ELSE "none"
<1>1. InBody /\ InPlain /\ Counted
  BY DEF Framed
<1>2. /\ Len(Stream) \in Nat /\ srv.left \in Nat /\ srv.total \in Nat /\ req \in Nat
  BY StreamTypes
<1>3. \A i \in 1..Len(Stream) : Stream[i].t = "data" <=> i <= Len(Stream)
  BY <1>1, <1>2, SentTokens DEF InPlain
<1>4. DataIn(Stream) = Len(Stream)
  <2> DEFINE q == Stream
             n == Len(Stream)
  <2>1. n \in Nat /\ Len(q) = n /\ \A i \in 1..Len(q) : q[i].t = "data" <=> i <= n
    BY <1>2, <1>3
  <2> HIDE DEF q, n
  <2>2. Len(q) \in Nat /\ n <= Len(q)
    BY <2>1
  <2>3. DataIn(q) = n
    BY <2>1, <2>2, DataFirst
  <2> QED
    BY <2>3 DEF q, n
<1>5. Len(body) = 0
  BY <1>1, EmptySeq DEF InPlain
<1>6. Len(Stream) + srv.left = srv.total
  BY <1>1, <1>2, <1>4, <1>5 DEF Counted
<1> QED
  BY <1>1, <1>6 DEF InBody, InPlain

LEMMA EndFramed ==
  ASSUME States, Framed, ReadEnd
  PROVE  Framed' /\ WholeResponse'
<1>1. wire = <<>> /\ ~srv.up
  BY DEF ReadEnd
<1>2. CASE Fail
  BY <1>2, FailFramed
<1>3. CASE ~Fail
  <2>1. /\ pc \in {"length", "close"} /\ UNCHANGED <<method, req, head, need, wire, srv>>
        /\ \E keep \in {~head.close, FALSE} : Finish(buf, keep)
    BY <1>3 DEF ReadEnd
  <2>2. PICK keep \in {~head.close, FALSE} : Finish(buf, keep)
    BY <2>1
  <2>3. /\ Tells(head, req, method, srv) /\ srv.phase # "requested"
        /\ Len(Stream) + srv.left = srv.total
        /\ \A i \in 1..Len(Stream) : Stream[i] = Data(req)
        /\ head.framing # "chunked"
    BY <2>1, PlainBody
  <2>4. /\ Len(buf) \in Nat /\ Len(Stream) = Len(buf) /\ Len(wire) = 0
        /\ \A i \in 1..Len(buf) : Stream[i] = buf[i] /\ i \in 1..Len(Stream)
    BY <1>1, StreamRead
  <2>5. \A i \in 1..Len(buf) : buf[i] = Data(req)
    BY <2>3, <2>4
  <2>6. buf \in Seq(Tokens) /\ srv.total \in Nat
    BY StreamTypes
  <2>7. Len(buf) = srv.total \/ srv.phase # "done"
    BY <2>3, <2>4, <2>6 DEF States, ServerOK
  <2>8. head'.req = req /\ head'.status # "interim" /\ head'.framing # "chunked"
    BY <2>1, <2>3 DEF Tells
  <2>9. UNCHANGED <<method, req, wire, srv>> /\ \A i \in 1..Len(wire) : Idle(wire[i])
    BY <2>1, <2>4
  <2> QED
    BY <1>1, <2>2, <2>3, <2>5, <2>6, <2>7, <2>8, <2>9, FinishFramed
<1> QED
  BY <1>2, <1>3

LEMMA LengthFramed ==
  ASSUME States, Framed, ReadLength
  PROVE  Framed' /\ WholeResponse'
<1> DEFINE q == Truncated(buf, head.len)
           n == Len(buf)
<1>1. /\ pc = "length" /\ n >= head.len /\ Finish(q, ~head.close)
      /\ UNCHANGED <<method, req, head, need, wire, srv>>
  BY DEF ReadLength, LengthMet
<1>2. /\ Tells(head, req, method, srv) /\ srv.phase # "requested"
      /\ Len(Stream) + srv.left = srv.total
      /\ \A i \in 1..Len(Stream) : Stream[i] = Data(req)
      /\ head.framing = "length"
  BY <1>1, PlainBody
<1>3. /\ n \in Nat /\ Len(wire) \in Nat /\ Len(Stream) = n + Len(wire)
      /\ \A i \in 1..n : Stream[i] = buf[i] /\ i \in 1..Len(Stream)
  BY StreamRead
<1>4. buf \in Seq(Tokens) /\ srv.total \in Nat /\ srv.left \in Nat
      /\ srv.phase \in {"requested", "body", "closing", "done"}
  BY StreamTypes
<1>5. head.len \in Nat
  BY <1>1 DEF States, HeadKnown, Heads
<1>6. Len(wire) = 0 /\ n = srv.total /\ srv.left = 0
  <2>1. srv.total <= n
    BY <1>1, <1>2, <1>3, <1>4, <1>5 DEF Tells
  <2> QED
    BY <1>2, <1>3, <1>4, <2>1
<1>7. srv.phase = "done"
  <2>1. srv.framing = "length"
    BY <1>2 DEF Tells
  <2> QED
    BY <1>2, <1>4, <1>6, <2>1 DEF States, ServerOK
<1> DEFINE k == Min({head.len, n})
<1>8. k \in 0..n /\ k = srv.total
  <2>1. k \in Nat /\ k <= n /\ (k = head.len \/ k = n)
    BY <1>3, <1>5, MinOfTwo
  <2>2. CASE NoBody(head, method)
    BY <1>2, <1>3, <1>6, <2>1, <2>2 DEF Tells
  <2>3. CASE ~NoBody(head, method)
    BY <1>2, <1>3, <1>6, <2>1, <2>3 DEF Tells
  <2> QED
    BY <2>2, <2>3
<1> HIDE DEF k, n
<1>9. q \in Seq(Tokens) /\ Len(q) = srv.total /\ \A i \in 1..Len(q) : q[i] = Data(req)
  <2>1. /\ SubSeq(buf, 1, k) \in Seq(Tokens) /\ Len(SubSeq(buf, 1, k)) = k
        /\ \A i \in 1..k : SubSeq(buf, 1, k)[i] = buf[i]
    BY <1>4, <1>8, FirstProps DEF n
  <2>2. q = SubSeq(buf, 1, k)
    BY DEF Truncated, k, n
  <2>3. \A i \in 1..k : i \in 1..n
    BY <1>3, <1>8
  <2> QED
    BY <1>2, <1>3, <1>8, <2>1, <2>2, <2>3
<1>10. head'.req = req /\ head'.status # "interim" /\ \A i \in 1..Len(wire) : Idle(wire[i])
  BY <1>1, <1>2, <1>6 DEF Tells
<1> HIDE DEF q
<1> QED
  BY <1>1, <1>2, <1>7, <1>9, <1>10, FinishFramed

(* The header section the client parses, and the stream after it. *)
LEMMA HeadFound ==
  ASSUME States, Framed, pc = "head", NEW end \in 1..Len(buf), buf[end].t = "head"
  PROVE  /\ end \in 1..Len(Stream) /\ end \in 0..Len(buf) /\ Stream[end] = buf[end]
         /\ Tells(buf[end], req, method, srv) /\ srv.phase # "requested"
         /\ body = <<>> /\ Len(body) = 0
         /\ DataIn(SubSeq(Stream, 1, end)) = 0
         /\ DataIn(Stream) + srv.left = srv.total
         /\ \A j \in 1..Len(Stream) : end < j => Stream[j].t # "head"
         /\ buf[end].framing # "chunked" =>
               \A j \in 1..Len(Stream) : end < j => Stream[j] = Data(req)
         /\ buf[end].framing = "chunked" /\ end < Len(Stream) => Stream[end + 1].t = "size"
<1> DEFINE S == Stream
           h == buf[end]
<1>1. /\ Len(buf) \in Nat /\ Len(S) = Len(buf) + Len(wire) /\ Len(wire) \in Nat
      /\ S[end] = h /\ end \in 1..Len(S) /\ end \in 0..Len(buf) /\ end \in 0..Len(S)
  BY StreamRead
<1>2. S \in Seq(Tokens) /\ DataIn(S) \in Nat /\ srv.left \in Nat /\ srv.total \in Nat
  BY StreamTypes
<1>3. Rules(S, req, method, srv) /\ Counted /\ InHead
  BY DEF Framed
<1> HIDE DEF S
<1>4. /\ Tells(h, req, method, srv)
      /\ \A j \in 1..Len(S) : j < end => Early(S[j])
      /\ h.framing # "chunked" => \A j \in 1..Len(S) : end < j => S[j] = Data(req)
      /\ h.framing = "chunked" /\ end < Len(S) => S[end + 1].t = "size"
  BY <1>1, <1>3 DEF Rules, HeadRule
<1>5. body = <<>> /\ Len(body) = 0
  BY <1>3, EmptySeq DEF InHead
<1>6. srv.phase # "requested"
  <2>1. ~Early(S[end])
    BY <1>1 DEF Early
  <2> QED
    BY <1>1, <1>3, <2>1 DEF InHead, S
<1>7. ASSUME NEW j \in 1..Len(S), end < j
      PROVE  S[j].t # "head"
  <2>1. S[j].t = "head" => Early(S[end])
    BY <1>1, <1>3, <1>7 DEF Rules, HeadRule
  <2> QED
    BY <1>1, <2>1 DEF Early
<1>8. DataIn(SubSeq(S, 1, end)) = 0
  <2> DEFINE q == SubSeq(S, 1, end)
  <2>1. Len(q) = end /\ \A i \in 1..end : q[i] = S[i]
    BY <1>1, <1>2, FirstProps
  <2>2. \A i \in 1..end : i = end \/ (i \in 1..Len(S) /\ i < end)
    BY <1>1
  <2>3. \A i \in 1..end : S[i].t # "data"
    BY <1>1, <1>4, <2>2 DEF Early
  <2> HIDE DEF q
  <2>4. \A i \in 1..Len(q) : q[i].t # "data"
    BY <2>1, <2>3
  <2> QED
    BY <2>4, DataNone DEF q
<1>9. DataIn(S) + srv.left = srv.total
  BY <1>2, <1>3, <1>5 DEF Counted, S
<1> QED
  BY <1>1, <1>4, <1>5, <1>6, <1>7, <1>8, <1>9 DEF S

LEMMA ParseFramed ==
  ASSUME States, Framed, ParseHead, ~blank'
  PROVE  Framed' /\ WholeResponse'
<1> DEFINE end == find_header_end(buf)
           h == buf[end]
<1>1. end \in 1..Len(buf) /\ (h.t = "head" => h \in Heads)
  BY ParsedHead
<1>2. pc = "head" /\ result # "ok"
  BY DEF ParseHead, Framed
<1>3. \/ Fail
      \/ /\ h.t = "head" /\ head' = h
         /\ UNCHANGED <<method, req, need, wire, srv>>
         /\ \/ /\ buf' = After(buf, end) /\ UNCHANGED <<body, result>>
               /\ \/ h.framing = "chunked" /\ pc' = "size"
                  \/ h.framing \notin {"chunked", "none"} /\ pc' = "length"
                  \/ h.framing = "none" /\ pc' = "close"
            \/ h.framing = "none" /\ NoBody(h, method) /\ Finish(<<>>, ~h.close)
  BY DEF ParseHead, NoBody, Section
<1>4. h.t = "head" => h.framing \in Framings
  BY <1>1 DEF Heads
<1> HIDE DEF end
<1>5. ASSUME h.t = "head", head' = h, UNCHANGED <<method, req, need, wire, srv>>,
             buf' = After(buf, end), UNCHANGED <<body, result>>,
             \/ h.framing = "chunked" /\ pc' = "size"
             \/ h.framing \notin {"chunked", "none"} /\ pc' = "length"
             \/ h.framing = "none" /\ pc' = "close"
      PROVE  Framed' /\ WholeResponse'
  <2>1. /\ end \in 1..Len(Stream) /\ end \in 0..Len(buf)
        /\ Tells(h, req, method, srv) /\ srv.phase # "requested"
        /\ body = <<>> /\ Len(body) = 0
        /\ DataIn(SubSeq(Stream, 1, end)) = 0
        /\ DataIn(Stream) + srv.left = srv.total
        /\ \A j \in 1..Len(Stream) : end < j => Stream[j].t # "head"
        /\ h.framing # "chunked" =>
              \A j \in 1..Len(Stream) : end < j => Stream[j] = Data(req)
        /\ h.framing = "chunked" /\ end < Len(Stream) => Stream[end + 1].t = "size"
    BY <1>1, <1>2, <1>5, HeadFound
  <2>2. /\ end \in Nat /\ Len(Stream') = Len(Stream) - end
        /\ Stream' = <<>> <=> Len(Stream') = 0
        /\ \A i \in 1..Len(Stream') : /\ Stream'[i] = Stream[i + end]
                                      /\ i + end \in 1..Len(Stream)
        /\ DataIn(Stream) = DataIn(SubSeq(Stream, 1, end)) + DataIn(Stream')
        /\ DataIn(Stream') \in Nat
        /\ Rules(Stream, req, method, srv) => Rules(Stream', req', method', srv')
    BY <1>5, <2>1, StreamUsed
  <2>3. /\ srv.left \in Nat /\ srv.total \in Nat /\ Len(Stream) \in Nat
        /\ Stream \in Seq(Tokens) /\ DataIn(Stream) \in Nat
    BY StreamTypes
  <2>4. Rules(Stream', req', method', srv')
    BY <1>2, <2>2 DEF Framed
  <2>5. Counted'
    <3>1. Len(body) + DataIn(Stream') + srv.left = srv.total
      BY <2>1, <2>2, <2>3
    <3> QED
      BY <1>5, <3>1 DEF Counted
  <2>6. \A i \in 1..Len(Stream') : end < i + end
    BY <2>2
  <2>7. InBody'
    <3>1. \A i \in 1..Len(Stream') : Stream'[i].t # "head"
      BY <2>1, <2>2, <2>6
    <3>2. \A i \in 1..Len(body) : body[i] = Data(req)
      BY <2>1
    <3> QED
      BY <1>5, <2>1, <3>1, <3>2 DEF InBody
  <2>8. pc' = "size" => InSize'
    <3>1. ASSUME pc' = "size", Stream' # <<>>
          PROVE  Stream'[1].t = "size"
      <4>1. h.framing = "chunked"
        BY <1>5, <3>1
      <4>2. Len(Stream') # 0
        BY <2>2, <3>1
      <4>3. 1 \in 1..Len(Stream') /\ 1 + end = end + 1 /\ end < Len(Stream)
        BY <2>1, <2>2, <2>3, <4>2
      <4> QED
        BY <2>1, <2>2, <4>1, <4>3
    <3>2. pc' = "size" => head'.framing = "chunked"
      BY <1>5
    <3> QED
      BY <3>1, <3>2 DEF InSize
  <2>9. pc' \in {"length", "close"} => InPlain'
    <3>1. pc' \in {"length", "close"} => h.framing # "chunked"
      BY <1>5
    <3>2. pc' \in {"length", "close"} => \A i \in 1..Len(Stream') : Stream'[i] = Data(req)
      BY <2>1, <2>2, <2>6, <3>1
    <3>3. pc' \in {"length", "close"} =>
             head'.framing = IF pc' = "length" THEN "length" ELSE "none"
      BY <1>4, <1>5 DEF Framings
    <3> QED
      BY <1>5, <2>1, <3>2, <3>3 DEF InPlain
  <2>10. pc' \in {"size", "length", "close"} /\ result' # "ok"
    BY <1>2, <1>5
  <2> QED
    BY <2>4, <2>5, <2>7, <2>8, <2>9, <2>10 DEF Framed, WholeResponse
<1>6. ASSUME h.t = "head", head' = h, UNCHANGED <<method, req, need, wire, srv>>,
             h.framing = "none", NoBody(h, method), Finish(<<>>, ~h.close)
      PROVE  Framed' /\ WholeResponse'
  <2>1. /\ end \in 1..Len(Stream)
        /\ Tells(h, req, method, srv) /\ srv.phase # "requested"
        /\ DataIn(Stream) + srv.left = srv.total
        /\ h.framing # "chunked" =>
              \A j \in 1..Len(Stream) : end < j => Stream[j] = Data(req)
    BY <1>1, <1>2, <1>6, HeadFound
  <2>2. srv.total = 0 /\ srv.phase = "done"
    BY <1>6, <2>1 DEF Tells
  <2>3. /\ Stream \in Seq(Tokens) /\ DataIn(Stream) \in Nat /\ srv.left \in Nat
        /\ Len(Stream) \in Nat /\ req \in Nat
    BY StreamTypes
  <2>4. DataIn(Stream) = 0
    BY <2>1, <2>2, <2>3
  <2>5. \A i \in 1..Len(Stream) : Stream[i].t # "data"
    BY <2>3, <2>4, PlacesFinite
  <2>6. Data(req).t = "data"
    BY <2>3, SentTokens
  <2>7. \A j \in 1..Len(Stream) : ~(end < j)
    BY <1>6, <2>1, <2>5, <2>6
  <2>8. Len(wire) = 0
    <3>1. /\ Len(buf) \in Nat /\ Len(wire) \in Nat /\ Len(Stream) = Len(buf) + Len(wire)
      BY StreamRead
    <3>2. Len(Stream) <= end
      BY <2>1, <2>3, <2>7
    <3> QED
      BY <1>1, <3>1, <3>2
  <2>9. <<>> \in Seq(Tokens) /\ Len(<<>>) = 0
    BY EmptySeq
  <2>10. head'.req = req /\ head'.status # "interim"
    BY <1>6, <2>1 DEF Tells
  <2>11. /\ \A i \in 1..Len(<<>>) : <<>>[i] = Data(req)
         /\ \A i \in 1..Len(wire) : Idle(wire[i])
         /\ Len(<<>>) = srv.total
    BY <2>2, <2>8, <2>9
  <2> QED
    BY <1>6, <2>1, <2>2, <2>9, <2>10, <2>11, FinishFramed
<1> QED
  BY <1>3, <1>5, <1>6, FailFramed

LEMMA SizeFramed ==
  ASSUME States, Framed, ReadSizeLine
  PROVE  Framed' /\ WholeResponse'
<1> DEFINE S == Stream
           n == Head(buf).n
<1>1. /\ S \in Seq(Tokens) /\ DataIn(S) \in Nat /\ Len(S) \in Nat /\ Len(body) \in Nat
      /\ buf \in Seq(Tokens) /\ body \in Seq(Tokens)
      /\ srv.left \in Nat /\ srv.total \in Nat
  BY StreamTypes
<1>2. /\ Len(buf) \in Nat /\ Len(wire) \in Nat /\ Len(S) = Len(buf) + Len(wire)
      /\ \A i \in 1..Len(buf) : S[i] = buf[i] /\ i \in 1..Len(S)
      /\ \A i \in 1..Len(wire) : wire[i] = S[i + Len(buf)] /\ i + Len(buf) \in 1..Len(S)
      /\ buf = <<>> <=> Len(buf) = 0
  BY StreamRead
<1>3. buf # <<>> /\ pc = "size" /\ result # "ok"
  BY DEF ReadSizeLine, Framed
<1>4. 1 \in 1..Len(buf) /\ 1 \in 0..Len(buf) /\ Head(buf) = buf[1]
  BY <1>1, <1>2, <1>3, HeadTailProperties
<1>5. S[1] = Head(buf) /\ 1 \in 1..Len(S)
  BY <1>2, <1>4
<1>6. Tail(buf) = After(buf, 1)
  <2>1. Tail(buf) = SubSeq(buf, 2, Len(buf))
    BY <1>1, <1>3, TailIsSubSeq
  <2>2. 1 + 1 = 2
    OBVIOUS
  <2> QED
    BY <2>1, <2>2 DEF After
<1>7. /\ Rules(S, req, method, srv) /\ Counted /\ InBody /\ InSize
  BY <1>3 DEF Framed
<1>8. \/ Fail
      \/ /\ Head(buf).t = "size" /\ n = 0
         /\ Finish(body, ~head.close) /\ UNCHANGED <<method, req, head, need, wire, srv>>
      \/ /\ Head(buf).t = "size" /\ n # 0
         /\ need' = n /\ pc' = "chunk" /\ buf' = Tail(buf)
         /\ UNCHANGED <<method, req, head, body, result, wire, srv>>
  BY DEF ReadSizeLine
<1>9. Head(buf).t = "size" => n \in Nat
  <2>1. Head(buf) \in Tokens
    BY <1>1, <1>4, ElementOfSeq
  <2> QED
    BY <2>1 DEF Tokens, Line, Crlf, Trailer, Heads
<1>10. Len(body) + DataIn(S) + srv.left = srv.total
  BY <1>7 DEF Counted
<1> HIDE DEF n, S
<1>11. ASSUME Head(buf).t = "size", n = 0,
              Finish(body, ~head.close), UNCHANGED <<method, req, head, need, wire, srv>>
       PROVE  Framed' /\ WholeResponse'
  <2>1. srv.phase = "done" /\ \A i \in 1..Len(S) : 1 < i => Idle(S[i])
    BY <1>5, <1>7, <1>11 DEF Rules, LastRule, n
  <2>2. \A i \in 1..Len(S) : i = 1 \/ 1 < i
    BY <1>1
  <2>3. \A i \in 1..Len(S) : S[i].t # "data"
    BY <1>5, <1>11, <2>1, <2>2 DEF Idle
  <2>4. DataIn(S) = 0 /\ srv.left = 0
    BY <2>1, <2>3, DataNone DEF States, ServerOK
  <2>5. Len(body) = srv.total
    BY <1>1, <1>10, <2>4
  <2>6. \A i \in 1..Len(wire) : Idle(wire[i])
    <3>1. \A i \in 1..Len(wire) : 1 < i + Len(buf)
      BY <1>2, <1>4
    <3> QED
      BY <1>2, <2>1, <3>1
  <2>7. /\ head'.req = req /\ head'.status # "interim" /\ srv.phase # "requested"
        /\ \A i \in 1..Len(body) : body[i] = Data(req)
    BY <1>7, <1>11 DEF InBody, Tells
  <2> QED
    BY <1>1, <1>11, <2>1, <2>5, <2>6, <2>7, FinishFramed
<1>12. ASSUME Head(buf).t = "size", n # 0, need' = n, pc' = "chunk", buf' = Tail(buf),
              UNCHANGED <<method, req, head, body, result, wire, srv>>
       PROVE  Framed' /\ WholeResponse'
  <2> DEFINE T == Stream'
  <2>1. /\ Len(T) = Len(S) - 1
        /\ \A i \in 1..Len(T) : T[i] = S[i + 1] /\ i + 1 \in 1..Len(S)
        /\ DataIn(S) = DataIn(SubSeq(S, 1, 1)) + DataIn(T) /\ DataIn(T) \in Nat
        /\ Len(SubSeq(S, 1, 1)) = 1
        /\ \A i \in 1..1 : SubSeq(S, 1, 1)[i] = S[i]
        /\ Rules(S, req, method, srv) => Rules(T, req', method', srv')
    BY <1>4, <1>6, <1>12, StreamUsed DEF S
  <2>2. DataIn(SubSeq(S, 1, 1)) = 0
    <3>1. \A i \in 1..Len(SubSeq(S, 1, 1)) : i = 1 /\ i \in 1..1
      BY <2>1
    <3>2. \A i \in 1..Len(SubSeq(S, 1, 1)) : SubSeq(S, 1, 1)[i].t # "data"
      BY <1>5, <1>12, <2>1, <3>1
    <3> QED
      BY <3>2, DataNone
  <2> HIDE DEF T
  <2>3. Len(body) + DataIn(T) + srv.left = srv.total
    BY <1>1, <1>10, <2>1, <2>2
  <2>4. \A i \in 1..Len(T) : T[i].t # "head"
    BY <1>7, <2>1 DEF InBody, S
  <2>5. n > 0 /\ n \in Nat
    BY <1>9, <1>12
  <2>6. ChunkAt(S, 1 + 1, n, req)
    BY <1>5, <1>7, <1>12, <2>5 DEF Rules, ChunkRule, n
  <2>7. /\ 2 + n <= Len(S) /\ S[2 + n].t = "crlf"
        /\ \A j \in 1..Len(S) : 2 <= j /\ j < 2 + n => S[j] = Data(req)
        /\ 2 + n < Len(S) => S[2 + n + 1].t = "size"
    <3>1. 1 + 1 = 2
      OBVIOUS
    <3> QED
      BY <2>6, <3>1 DEF ChunkAt
  <2>8. ChunkAt(T, 1, n, req)
    <3>1. 1 + n <= Len(T) /\ 1 + n \in 1..Len(T) /\ (1 + n) + 1 = 2 + n
      BY <1>1, <2>1, <2>5, <2>7
    <3>2. T[1 + n].t = "crlf"
      BY <2>1, <2>7, <3>1
    <3>3. ASSUME NEW j \in 1..Len(T), 1 <= j, j < 1 + n
          PROVE  T[j] = Data(req)
      <4>1. j + 1 \in 1..Len(S) /\ 2 <= j + 1 /\ j + 1 < 2 + n /\ T[j] = S[j + 1]
        BY <2>1, <2>5, <3>3
      <4> QED
        BY <2>7, <4>1
    <3>4. ASSUME 1 + n < Len(T)
          PROVE  T[1 + n + 1].t = "size"
      <4>1. 1 + n + 1 \in 1..Len(T) /\ (1 + n + 1) + 1 = 2 + n + 1 /\ 2 + n < Len(S)
        BY <1>1, <2>1, <2>5, <3>4
      <4> QED
        BY <2>1, <2>7, <4>1
    <3> QED
      BY <3>1, <3>2, <3>3, <3>4 DEF ChunkAt
  <2>9. InBody'
    BY <1>7, <1>12, <2>4 DEF InBody, T
  <2>10. InChunk'
    BY <1>7, <1>12, <2>5, <2>8 DEF InChunk, InSize, T
  <2>11. Counted'
    BY <1>12, <2>3 DEF Counted, T
  <2>12. Rules(Stream', req', method', srv')
    BY <1>7, <2>1 DEF T
  <2> QED
    BY <1>3, <1>12, <2>9, <2>10, <2>11, <2>12 DEF Framed, WholeResponse
<1> QED
  BY <1>8, <1>11, <1>12, FailFramed

LEMMA ReadChunkFramed ==
  ASSUME States, Framed, ReadChunk
  PROVE  Framed' /\ WholeResponse'
<1> DEFINE S == Stream
           T == Stream'
           k == need + 1
           q == SubSeq(S, 1, k)
<1>1. /\ S \in Seq(Tokens) /\ DataIn(S) \in Nat /\ Len(S) \in Nat /\ Len(body) \in Nat
      /\ buf \in Seq(Tokens) /\ body \in Seq(Tokens) /\ req \in Nat
      /\ srv.left \in Nat /\ srv.total \in Nat
  BY StreamTypes
<1>2. /\ Len(buf) \in Nat /\ Len(wire) \in Nat /\ Len(S) = Len(buf) + Len(wire)
      /\ \A i \in 1..Len(buf) : S[i] = buf[i] /\ i \in 1..Len(S)
  BY StreamRead
<1>3. need \in Nat
  BY DEF States, TypeOK
<1>4. /\ pc = "chunk" /\ Len(buf) >= need + 1
      /\ body' = body \o Chunk /\ buf' = After(buf, k) /\ pc' = "size"
      /\ UNCHANGED <<method, req, head, need, result, wire, srv>>
  BY DEF ReadChunk, ChunkMet
<1>5. result # "ok" /\ Rules(S, req, method, srv) /\ Counted /\ InBody /\ InChunk
  BY <1>4 DEF Framed
<1>6. k \in 0..Len(buf) /\ k \in Nat /\ need \in 0..Len(buf) /\ k <= Len(S)
  BY <1>2, <1>3, <1>4
<1>7. UNCHANGED <<method, req, wire, srv>>
  BY <1>4
<1> HIDE DEF k
<1>8. /\ Len(T) = Len(S) - k /\ (T = <<>> <=> Len(T) = 0)
      /\ \A i \in 1..Len(T) : T[i] = S[i + k] /\ i + k \in 1..Len(S)
      /\ DataIn(S) = DataIn(q) + DataIn(T) /\ DataIn(T) \in Nat
      /\ Len(q) = k
      /\ \A i \in 1..k : q[i] = S[i]
      /\ Rules(S, req, method, srv) => Rules(T, req', method', srv')
  BY <1>4, <1>6, <1>7, StreamUsed DEF S
<1>9. /\ S[1 + need].t = "crlf"
      /\ \A j \in 1..Len(S) : 1 <= j /\ j < 1 + need => S[j] = Data(req)
      /\ 1 + need < Len(S) => S[1 + need + 1].t = "size"
      /\ head.framing = "chunked"
  BY <1>5 DEF InChunk, ChunkAt
<1>10. Len(body) + DataIn(S) + srv.left = srv.total
  BY <1>5 DEF Counted
<1>11. Data(req).t = "data"
  BY <1>1, SentTokens
<1> HIDE DEF S, T, q
<1>12. DataIn(q) = need
  <2>1. ASSUME NEW i \in 1..Len(q)
        PROVE  q[i].t = "data" <=> i <= need
    <3>1. i \in 1..k /\ i \in 1..Len(S) /\ q[i] = S[i]
      BY <1>1, <1>6, <1>8
    <3>2. CASE i <= need
      BY <1>3, <1>9, <1>11, <3>1, <3>2
    <3>3. CASE ~(i <= need)
      <4>1. i = 1 + need
        BY <1>3, <3>1, <3>3 DEF k
      <4> QED
        BY <1>9, <3>1, <3>3, <4>1
    <3> QED
      BY <3>2, <3>3
  <2>2. Len(q) \in Nat /\ need <= Len(q)
    BY <1>3, <1>6, <1>8 DEF k
  <2> QED
    BY <1>3, <2>1, <2>2, DataFirst
<1>13. /\ Chunk \in Seq(Tokens) /\ Len(Chunk) = need
       /\ \A i \in 1..need : Chunk[i] = Data(req)
  <2>1. /\ SubSeq(buf, 1, need) \in Seq(Tokens) /\ Len(SubSeq(buf, 1, need)) = need
        /\ \A i \in 1..need : SubSeq(buf, 1, need)[i] = buf[i]
    BY <1>1, <1>6, FirstProps
  <2>2. \A i \in 1..need : i \in 1..Len(buf) /\ 1 <= i /\ i < 1 + need
    BY <1>2, <1>3, <1>4
  <2> QED
    BY <1>2, <1>9, <2>1, <2>2 DEF Chunk
<1>14. /\ Len(body') = Len(body) + need
       /\ \A i \in 1..Len(body') : body'[i] = Data(req)
  <2>1. /\ Len(body \o Chunk) = Len(body) + Len(Chunk)
        /\ \A i \in 1..Len(body) + Len(Chunk) :
              (body \o Chunk)[i] = IF i <= Len(body) THEN body[i] ELSE Chunk[i - Len(body)]
    BY <1>1, <1>13, ConcatProperties
  <2>2. \A i \in 1..Len(body) : body[i] = Data(req)
    BY <1>5 DEF InBody
  <2>3. ASSUME NEW i \in 1..Len(body) + need
        PROVE  body'[i] = Data(req)
    <3>1. CASE i <= Len(body)
      <4>1. i \in 1..Len(body)
        BY <1>1, <1>3, <3>1
      <4> QED
        BY <1>4, <1>13, <2>1, <2>2, <3>1, <4>1
    <3>2. CASE ~(i <= Len(body))
      <4>1. i - Len(body) \in 1..need
        BY <1>1, <1>3, <3>2
      <4> QED
        BY <1>4, <1>13, <2>1, <3>2, <4>1
    <3> QED
      BY <3>1, <3>2
  <2> QED
    BY <1>4, <1>13, <2>1, <2>3
<1>15. Counted'
  <2>1. Len(body') + DataIn(T) + srv.left = srv.total
    BY <1>1, <1>3, <1>8, <1>10, <1>12, <1>14
  <2> QED
    BY <1>4, <2>1 DEF Counted, T
<1>16. InBody'
  <2>1. \A i \in 1..Len(T) : T[i].t # "head"
    BY <1>5, <1>8 DEF InBody, S
  <2> QED
    BY <1>4, <1>5, <1>14, <2>1 DEF InBody, T
<1>17. InSize'
  <2>1. ASSUME T # <<>>
        PROVE  T[1].t = "size"
    <3>1. 1 \in 1..Len(T) /\ 1 + k = 1 + need + 1 /\ 1 + need < Len(S)
      BY <1>1, <1>3, <1>6, <1>8, <2>1 DEF k
    <3> QED
      BY <1>8, <1>9, <3>1
  <2> QED
    BY <1>4, <1>9, <2>1 DEF InSize, T
<1>18. Rules(Stream', req', method', srv')
  BY <1>5, <1>8 DEF T
<1> QED
  BY <1>4, <1>5, <1>15, <1>16, <1>17, <1>18 DEF Framed, WholeResponse

LEMMA RequestFramed ==
  ASSUME States, Framed, NEW m \in Methods, Request(m)
  PROVE  Framed' /\ Alone' /\ WholeResponse'
<1>1. Kept /\ buf = <<>> /\ wire \in Seq(Tokens) /\ srv \in SrvTypes
  BY DEF Request, Framed, Kept, States, TypeOK, SrvTypes
<1>2. /\ pc' = "head" /\ result' = "none" /\ wire' = wire /\ buf' = <<>> /\ body' = <<>>
      /\ srv' = Begun /\ Alone'
  BY <1>1 DEF Request, Kept, Alone
<1>3. srv'.phase = "requested" /\ srv'.total = 0 /\ srv'.left = 0
  BY <1>2, Begins
<1>4. Stream' = wire
  <2>1. <<>> \o wire = wire
    BY <1>1, ConcatEmptySeq
  <2> QED
    BY <1>2, <2>1 DEF Stream
<1>5. \A i \in 1..Len(Stream') : Early(Stream'[i])
  BY <1>1, <1>4 DEF Kept, Idle, Early
<1>6. Rules(Stream', req', method', srv') /\ DataIn(Stream') = 0
  BY <1>5, RulesEarly
<1>7. Len(body') = 0
  BY <1>2, EmptySeq
<1>8. Counted' /\ InHead'
  BY <1>2, <1>3, <1>5, <1>6, <1>7 DEF Counted, InHead
<1> QED
  BY <1>2, <1>6, <1>8 DEF Framed, WholeResponse

(* What was returned stays true of the response: nothing more of it comes. *)
LEMMA ServerWhole ==
  ASSUME States, Framed, Alone, ~blank, WholeResponse, ServerStep
  PROVE  WholeResponse'
<1>1. /\ UNCHANGED <<method, req, head, body, result>>
      /\ srv.up
  <2>1. CASE SrvLine
    BY <2>1 DEF SrvLine, Send
  <2>2. ASSUME NEW framing, NEW n, NEW close, SrvHead(framing, n, close)
        PROVE  UNCHANGED <<method, req, head, body, result>> /\ srv.up
    BY <2>2 DEF SrvHead, Send
  <2>3. ASSUME NEW status, NEW framing, NEW n, NEW close,
               SrvBodyless(status, framing, n, close)
        PROVE  UNCHANGED <<method, req, head, body, result>> /\ srv.up
    BY <2>3 DEF SrvBodyless, Send
  <2>4. CASE SrvData
    BY <2>4 DEF SrvData, Send
  <2>5. CASE SrvChunk
    BY <2>5 DEF SrvChunk, Send
  <2>6. CASE SrvLastChunk
    BY <2>6 DEF SrvLastChunk, Send
  <2>7. CASE SrvClose
    BY <2>7 DEF SrvClose, Send
  <2>8. ~SrvNext
    BY AloneAsked
  <2> QED
    BY <2>1, <2>2, <2>3, <2>4, <2>5, <2>6, <2>7, <2>8 DEF ServerStep
<1>2. srv \in SrvTypes
  BY DEF States, TypeOK, SrvTypes
<1>3. result = "ok" => srv.phase # "requested"
  BY DEF Framed
<1>4. srv.phase # "requested" => srv'.total = srv.total
  <2>1. \/ \E framing, n, close : SrvHead(framing, n, close)
        \/ \E status, framing, n, close : SrvBodyless(status, framing, n, close)
        \/ SrvLine \/ SrvData \/ SrvChunk \/ SrvLastChunk \/ SrvClose
    BY AloneAsked DEF ServerStep
  <2>2. CASE SrvLine \/ \E framing, n, close : SrvHead(framing, n, close)
    BY <2>2 DEF SrvLine, SrvHead
  <2>3. CASE \E status, framing, n, close : SrvBodyless(status, framing, n, close)
    BY <2>3 DEF SrvBodyless
  <2>4. CASE SrvData
    BY <1>2, <2>4 DEF SrvData, SrvTypes
  <2>5. CASE SrvChunk
    BY <1>2, <2>5 DEF SrvChunk, SrvTypes
  <2>6. CASE SrvLastChunk
    BY <1>2, <2>6 DEF SrvLastChunk, SrvTypes
  <2>7. CASE SrvClose
    BY <1>2, <2>7 DEF SrvClose, SrvTypes
  <2> QED
    BY <2>1, <2>2, <2>3, <2>4, <2>5, <2>6, <2>7
<1>5. result = "ok" => Len(body) = srv.total
  BY <1>1 DEF WholeResponse
<1> QED
  BY <1>1, <1>3, <1>4, <1>5 DEF WholeResponse

(* The invariant.  A server that sends an interim response before the      *)
(* final one breaks it: the client takes the interim one for the response  *)
(* and leaves the final one in the stream.  So does a blank line that      *)
(* passes for a header section: the response is still to come.             *)
Sound == States /\ (~blank => Framed /\ Alone /\ WholeResponse)

LEMMA ClientSound ==
  ASSUME States, Framed, Alone, ClientStep, ~blank'
  PROVE  Framed' /\ Alone' /\ WholeResponse'
<1>1. WriteFails \/ ReadFails \/ RefuseHead => Fail
  BY DEF WriteFails, ReadFails, RefuseHead
<1>2. UNCHANGED <<method, req, asked>>
  BY <1>1 DEF ClientStep, Fail, Read, ReadEnd, ParseHead, ReadSizeLine, ReadChunk, ReadLength
<1>3. Alone'
  BY <1>2 DEF Alone
<1> QED
  BY <1>1, <1>3, FailFramed, ReadFramed, EndFramed, ParseFramed, SizeFramed,
     ReadChunkFramed, LengthFramed DEF ClientStep

LEMMA ServerSound ==
  ASSUME States, Framed, Alone, WholeResponse, ~blank, InterimStatuses = {}, ServerStep
  PROVE  Framed' /\ Alone' /\ WholeResponse'
<1> DEFINE Same == UNCHANGED <<method, req, asked>>
<1>1. Same
  <2>1. ~SrvNext
    BY AloneAsked DEF SrvNext
  <2>2. ASSUME NEW tokens, Send(tokens)
        PROVE  Same
    BY <2>2 DEF Send
  <2>3. CASE SrvLine \/ SrvData
    BY <2>2, <2>3 DEF SrvLine, SrvData
  <2>4. CASE SrvChunk \/ SrvLastChunk
    BY <2>2, <2>4 DEF SrvChunk, SrvLastChunk
  <2>5. ASSUME NEW framing, NEW n, NEW close, SrvHead(framing, n, close)
        PROVE  Same
    BY <2>2, <2>5 DEF SrvHead
  <2>6. ASSUME NEW status, NEW framing, NEW n, NEW close,
               SrvBodyless(status, framing, n, close)
        PROVE  Same
    BY <2>2, <2>6 DEF SrvBodyless
  <2>7. CASE SrvClose
    BY <2>7 DEF SrvClose
  <2> HIDE DEF Same
  <2>8. ASSUME NEW framing \in Framings, NEW n \in Lengths, NEW close \in BOOLEAN,
               \/ SrvHead(framing, n, close)
               \/ \E status \in {"final", "bodyless"} \cup InterimStatuses :
                     SrvBodyless(status, framing, n, close)
        PROVE  Same
    BY <2>5, <2>6, <2>8, Zenon
  <2> QED
    BY <2>1, <2>3, <2>4, <2>7, <2>8, Zenon DEF ServerStep
<1>2. Alone'
  BY <1>1 DEF Alone
<1> QED
  BY <1>2, ServerFramed, ServerWhole

(* The history is never cleared.                                           *)
LEMMA BlankStays ==
  ASSUME Next, blank
  PROVE  blank'
<1>1. WriteFails \/ ReadFails \/ RefuseHead => Fail
  BY DEF WriteFails, ReadFails, RefuseHead
<1>2. CASE WriteFails \/ ReadFails \/ RefuseHead
  BY <1>1, <1>2 DEF Fail
<1>3. CASE Read \/ ReadEnd
  BY <1>3, Zenon DEF Read, ReadEnd, Fail
<1>4. CASE ParseHead
  BY <1>4, Zenon DEF ParseHead, Fail
<1>5. CASE ReadSizeLine \/ ReadChunk \/ ReadLength
  BY <1>5, Zenon DEF ReadSizeLine, ReadChunk, ReadLength, Fail
<1>6. ASSUME NEW tokens, Send(tokens)
      PROVE  blank'
  BY <1>6 DEF Send
<1>7. ASSUME NEW framing \in Framings, NEW n \in Lengths, NEW close \in BOOLEAN,
             \/ SrvHead(framing, n, close)
             \/ \E status \in {"final", "bodyless"} \cup InterimStatuses :
                   SrvBodyless(status, framing, n, close)
      PROVE  blank'
  <2>1. \E tokens : Send(tokens)
    BY <1>7, Zenon DEF SrvHead, SrvBodyless
  <2> QED
    BY <2>1, <1>6
<1>8. CASE SrvLine \/ SrvData
  BY <1>6, <1>8 DEF SrvLine, SrvData
<1>9. CASE SrvChunk \/ SrvLastChunk
  <2>1. \E tokens : Send(tokens)
    BY <1>9, Zenon DEF SrvChunk, SrvLastChunk
  <2> QED
    BY <2>1, <1>6
<1>10. CASE SrvNext \/ SrvClose
  BY <1>10 DEF SrvNext, SrvClose
<1>11. CASE Rest \/ \E m \in Methods : Request(m)
  BY <1>11 DEF Rest, Request, vars
<1> QED
  BY <1>2, <1>3, <1>4, <1>5, <1>7, <1>8, <1>9, <1>10, <1>11, Zenon
     DEF Next, ClientStep, ServerStep

LEMMA FramedKept ==
  ASSUME InterimStatuses = {}
  PROVE  Spec => []Sound
<1>1. Init => Sound
  <2> SUFFICES ASSUME Init PROVE States /\ Framed /\ Alone /\ WholeResponse
    BY DEF Sound
  <2>1. <<>> \in Seq(Tokens) /\ Len(<<>>) = 0
    BY EmptySeq
  <2>2. States
    BY InitTypes
  <2>3. Kept
    BY <2>1 DEF Init, Kept
  <2> QED
    BY <2>2, <2>3 DEF Init, Framed, WholeResponse, Alone
<1>2. Sound /\ [Next]_vars => Sound'
  <2> SUFFICES ASSUME Sound, [Next]_vars PROVE Sound'
    OBVIOUS
  <2>1. CASE UNCHANGED vars
    <3>1. UNCHANGED <<pc, method, req, buf, head, need, body, result, wire, srv, asked, blank>>
      BY <2>1 DEF vars
    <3>2. Stream' = Stream
      BY <3>1 DEF Stream
    <3>3. States'
      BY <3>1 DEF Sound, States, TypeOK, ServerOK, HeadKnown
    <3>4. Framed => Framed'
      BY <3>1, <3>2
         DEF Framed, Kept, Counted, InHead, InBody, InSize, InChunk, InPlain
    <3>5. (WholeResponse => WholeResponse') /\ (Alone => Alone')
      BY <3>1 DEF WholeResponse, Alone
    <3> QED
      BY <3>1, <3>3, <3>4, <3>5 DEF Sound
  <2>2. CASE ClientStep
    BY <2>2, ClientTypes, ClientSound, BlankStays DEF Sound, Next
  <2>3. CASE ServerStep
    BY <2>3, ServerTypes, ServerSound, BlankStays DEF Sound, Next
  <2>4. CASE Rest
    BY <2>1, <2>4 DEF Rest
  <2>5. ASSUME NEW m \in Methods, Request(m)
        PROVE  Sound'
    BY <2>5, ClientTypes, RequestFramed, BlankStays DEF Sound, Next
  <2> QED
    BY <2>1, <2>2, <2>3, <2>4, <2>5 DEF Next
<1> QED
  BY <1>1, <1>2, PTL DEF Spec

(* execute_h1 returns Ok only with a final response to its own request,    *)
(* and with all of its body or as much as came before the server closed,   *)
(* however the stream was cut into reads, for servers that send no 1xx     *)
(* response, until a blank line left over from a trailer section passes    *)
(* for a header section.                                                   *)
THEOREM OkIsTheResponse ==
  ASSUME InterimStatuses = {}
  PROVE  Spec => []WholeResponse
<1>1. Sound => WholeResponse
  BY DEF Sound, WholeResponse
<1> QED
  BY <1>1, FramedKept, PTL

(* A connection that goes back to the pool has nothing on its way but the  *)
(* end of the last chunk and its trailer section, for servers that send no *)
(* 1xx response, until a blank line left over from such a section passes   *)
(* for the header section of a response.                                   *)
THEOREM PooledIsAligned ==
  ASSUME InterimStatuses = {}
  PROVE  Spec => []AlignedWhenKept
<1>1. Sound => AlignedWhenKept
  <2> SUFFICES ASSUME Sound, pc = "idle", ~blank, NEW i \in DOMAIN wire
               PROVE  wire[i] \in {Crlf, Trailer}
    BY DEF AlignedWhenKept
  <2>1. wire \in Seq(Tokens) /\ i \in 1..Len(wire)
    BY StreamTypes, LenProperties DEF Sound
  <2>2. wire[i] \in Tokens /\ Idle(wire[i])
    BY <2>1, ElementOfSeq DEF Sound, Framed, Kept
  <2> QED
    BY <2>2 DEF Tokens, Idle, Line, Crlf, Trailer, Heads
<1> QED
  BY <1>1, FramedKept, PTL

=============================================================================
