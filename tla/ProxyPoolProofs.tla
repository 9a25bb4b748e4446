-------------------------- MODULE ProxyPoolProofs --------------------------
(***************************************************************************)
(* The blacklist is exact, for any list of proxies in which no URL comes   *)
(* twice, any limit, either strategy, and reports in any order.  Where the *)
(* index goes plays no part in it; that the code finds a proxy by its URL  *)
(* does, and with it the assumption on the list.                           *)
(*                                                                         *)
(* Where the index goes is the matter of the other theorems: it stays in   *)
(* its word, and a round robin visits every position in one call of        *)
(* select, and selects every healthy one in one round of calls.            *)
(***************************************************************************)
EXTENDS ProxyPool, WellFoundedInduction, TLAPS

(* new takes any list, but callers pass every proxy once. *)
Distinct(proxies) ==
    \A i, j \in DOMAIN proxies : proxies[i] = proxies[j] => i = j

ProxyState == [failures: Nat, blacklisted: BOOLEAN]

(* The parts of TypeOK that do not depend on the index. *)
Shape ==
    /\ pool = [proxies |-> pool.proxies, strategy |-> pool.strategy,
               index |-> pool.index, states |-> pool.states]
    /\ pool.proxies \in Seq(ProxyUrls) /\ Distinct(pool.proxies)
    /\ pool.states \in [Positions -> ProxyState]
    /\ DOMAIN tunnels = Urls(pool.proxies)
    /\ streak \in [Urls(pool.proxies) -> Nat]

(* What the code counts is the streak, and it acts on what it counts. *)
Counted ==
    \A i \in Positions :
        /\ pool.states[i].failures = streak[pool.proxies[i + 1]]
        /\ pool.states[i].blacklisted <=> pool.states[i].failures >= MaxFailures

IInv == Shape /\ Counted

-----------------------------------------------------------------------------
(* A URL of the list has one position, and Position finds it. *)
LEMMA PositionFinds ==
  ASSUME Shape, NEW url \in Urls(pool.proxies)
  PROVE  /\ Position(url) \in Positions
         /\ pool.proxies[Position(url) + 1] = url
         /\ \A i \in Positions :
               pool.proxies[i + 1] = url => i = Position(url)
<1>1. len \in Nat /\ DOMAIN pool.proxies = 1..len
  BY DEF Shape, len
<1>2. PICK n \in 1..len : pool.proxies[n] = url
  BY <1>1 DEF Urls
<1>3. n - 1 \in Positions /\ pool.proxies[(n - 1) + 1] = url
  BY <1>1, <1>2 DEF Positions
<1>4. \A i, j \in Positions :
         pool.proxies[i + 1] = pool.proxies[j + 1] => i = j
  <2> TAKE i \in Positions, j \in Positions
  <2> HAVE pool.proxies[i + 1] = pool.proxies[j + 1]
  <2>1. i + 1 \in 1..len /\ j + 1 \in 1..len /\ i \in Int /\ j \in Int
    BY <1>1 DEF Positions
  <2>2. i + 1 = j + 1
    BY <1>1, <2>1 DEF Shape, Distinct
  <2> QED
    BY <2>1, <2>2
<1>5. \A j \in 0..(n - 1) - 1 : pool.proxies[j + 1] # url
  <2> TAKE j \in 0..(n - 1) - 1
  <2>1. j \in Positions /\ j # n - 1
    BY <1>1 DEF Positions
  <2> QED
    BY <1>3, <1>4, <2>1
<1>6. \E i \in Positions : /\ pool.proxies[i + 1] = url
                           /\ \A j \in 0..i - 1 : pool.proxies[j + 1] # url
  BY <1>3, <1>5
<1>7. Position(url) \in Positions /\ pool.proxies[Position(url) + 1] = url
  BY <1>6 DEF Position
<1> QED
  BY <1>4, <1>7

(* A step that leaves the list, the states and the streaks alone. *)
LEMMA Unmoved ==
  ASSUME IInv, NEW index, pool' = [pool EXCEPT !.index = index],
         DOMAIN tunnels' = DOMAIN tunnels, UNCHANGED streak
  PROVE  IInv'
<1>1. pool' = [proxies |-> pool.proxies, strategy |-> pool.strategy,
               index |-> index, states |-> pool.states]
  BY DEF IInv, Shape
<1>2. pool'.proxies = pool.proxies /\ pool'.states = pool.states
  BY <1>1
<1>3. Positions' = Positions
  BY <1>2 DEF Positions, len
<1>4. Shape'
  BY <1>1, <1>2, <1>3 DEF IInv, Shape
<1>5. Counted'
  BY <1>2, <1>3 DEF IInv, Counted
<1> QED
  BY <1>4, <1>5 DEF IInv

(* A step that replaces the states, and the streaks with them. *)
LEMMA Restated ==
  ASSUME IInv, NEW states \in [Positions -> ProxyState],
         pool' = [pool EXCEPT !.states = states],
         DOMAIN tunnels' = DOMAIN tunnels,
         streak' \in [Urls(pool.proxies) -> Nat],
         \A i \in Positions :
            /\ states[i].failures = streak'[pool.proxies[i + 1]]
            /\ states[i].blacklisted <=> states[i].failures >= MaxFailures
  PROVE  IInv'
<1>1. pool' = [proxies |-> pool.proxies, strategy |-> pool.strategy,
               index |-> pool.index, states |-> states]
  BY DEF IInv, Shape
<1>2. pool'.proxies = pool.proxies /\ pool'.states = states
  BY <1>1
<1>3. Positions' = Positions
  BY <1>2 DEF Positions, len
<1>4. Shape'
  BY <1>1, <1>2, <1>3 DEF IInv, Shape
<1>5. Counted'
  BY <1>2, <1>3 DEF Counted
<1> QED
  BY <1>4, <1>5 DEF IInv

LEMMA SelectStep ==
  ASSUME IInv, select
  PROVE  IInv'
<1>1. ASSUME NEW k \in Turns, SelectProxy(k)
      PROVE  IInv'
  <2>1. DOMAIN tunnels' = DOMAIN tunnels /\ streak' = streak
    BY <1>1 DEF SelectProxy
  <2>2. pool' = [pool EXCEPT !.index = IndexAfter(k)]
    BY <1>1 DEF SelectProxy
  <2> QED
    BY <2>1, <2>2, Unmoved
<1>2. ASSUME SelectExhausted
      PROVE  IInv'
  <2>1. pool' = [pool EXCEPT !.index = IndexAfter(len)]
    BY <1>2 DEF SelectExhausted
  <2>2. tunnels' = tunnels /\ streak' = streak
    BY <1>2 DEF SelectExhausted
  <2> QED
    BY <2>1, <2>2, Unmoved
<1> QED
  BY <1>1, <1>2 DEF select

LEMMA ResetStep ==
  ASSUME IInv, reset_all
  PROVE  IInv'
<1> DEFINE states == [i \in Positions |-> [failures |-> 0, blacklisted |-> FALSE]]
<1>1. states \in [Positions -> ProxyState]
  BY DEF ProxyState
<1>2. pool' = [pool EXCEPT !.states = states] /\ tunnels' = tunnels
  BY DEF reset_all
<1>3. /\ streak' \in [Urls(pool.proxies) -> Nat]
      /\ \A u \in Urls(pool.proxies) : streak'[u] = 0
  BY DEF reset_all, IInv, Shape
<1>4. \A i \in Positions : pool.proxies[i + 1] \in Urls(pool.proxies)
  BY DEF IInv, Shape, Positions, len, Urls
<1>5. ~(0 >= MaxFailures)
  BY PoolAssumption
<1>6. \A i \in Positions : states[i] = [failures |-> 0, blacklisted |-> FALSE]
  OBVIOUS
<1> HIDE DEF states
<1> QED
  BY <1>1, <1>2, <1>3, <1>4, <1>5, <1>6, Restated

(* A report changes the state and the streak of one proxy. *)
LEMMA ReportStep ==
  ASSUME IInv, NEW url \in DOMAIN tunnels, Report(url)
  PROVE  IInv'
<1> DEFINE p == Position(url)
           f == pool.states[p].failures
<1>1. url \in Urls(pool.proxies) /\ DOMAIN tunnels' = DOMAIN tunnels
  BY DEF IInv, Shape, Report
<1>2. /\ p \in Positions /\ pool.proxies[p + 1] = url
      /\ \A i \in Positions : pool.proxies[i + 1] = url => i = p
  BY <1>1, PositionFinds DEF IInv
<1>3. \A i \in Positions : pool.proxies[i + 1] \in Urls(pool.proxies)
  BY DEF IInv, Shape, Positions, len, Urls
<1>4. /\ pool.states \in [Positions -> ProxyState]
      /\ streak \in [Urls(pool.proxies) -> Nat]
      /\ pool = [proxies |-> pool.proxies, strategy |-> pool.strategy,
                 index |-> pool.index, states |-> pool.states]
  BY DEF IInv, Shape
<1>5. /\ f \in Nat /\ f = streak[url]
      /\ pool.states[p].blacklisted <=> f >= MaxFailures
      /\ MaxFailures \in Nat \ {0}
  BY <1>2, <1>4, PoolAssumption DEF IInv, Counted, ProxyState
<1> HIDE DEF p
<1>6. CASE report_failure(url)
  <2> DEFINE s == Failed(pool.states[p])
             states == [pool.states EXCEPT ![p] = s]
  <2>1. /\ s \in ProxyState /\ s.failures = f + 1
        /\ s.blacklisted <=> s.failures >= MaxFailures
    <3>1. /\ pool.states[p] \in ProxyState /\ f + 1 \in Nat
          /\ f >= MaxFailures => f + 1 >= MaxFailures
      BY <1>2, <1>4, <1>5
    <3>2. /\ s.failures = f + 1
          /\ s.blacklisted = (pool.states[p].blacklisted \/ f + 1 >= MaxFailures)
      BY DEF Failed
    <3>3. s \in ProxyState
      BY <3>1 DEF Failed, ProxyState
    <3> QED
      BY <1>5, <3>1, <3>2, <3>3
  <2>2. pool' = [pool EXCEPT !.states = states]
    BY <1>4, <1>6 DEF report_failure, p
  <2>3. streak' = [streak EXCEPT ![url] = f + 1]
    BY <1>5, <1>6 DEF report_failure
  <2> HIDE DEF s
  <2>4. states \in [Positions -> ProxyState]
    BY <1>4, <2>1
  <2>5. streak' \in [Urls(pool.proxies) -> Nat]
    BY <1>1, <1>4, <1>5, <2>3
  <2>6. \A i \in Positions :
           /\ states[i].failures = streak'[pool.proxies[i + 1]]
           /\ states[i].blacklisted <=> states[i].failures >= MaxFailures
    <3> TAKE i \in Positions
    <3>1. CASE i = p
      BY <1>1, <1>2, <1>4, <2>1, <2>3, <3>1
    <3>2. CASE i # p
      BY <1>2, <1>3, <1>4, <2>3, <3>2 DEF IInv, Counted
    <3> QED
      BY <3>1, <3>2
  <2> HIDE DEF states
  <2> QED
    BY <1>1, <2>2, <2>4, <2>5, <2>6, Restated
<1>7. CASE report_success(url)
  <2> DEFINE s == Recovered(pool.states[p])
             states == [pool.states EXCEPT ![p] = s]
  <2>1. /\ s \in ProxyState /\ s.failures = 0
        /\ s.blacklisted <=> s.failures >= MaxFailures
    BY <1>5 DEF Recovered, ProxyState
  <2>2. pool' = [pool EXCEPT !.states = states]
    BY <1>4, <1>7 DEF report_success, p
  <2>3. streak' = [streak EXCEPT ![url] = 0]
    BY <1>7 DEF report_success
  <2> HIDE DEF s
  <2>4. states \in [Positions -> ProxyState]
    BY <1>4, <2>1
  <2>5. streak' \in [Urls(pool.proxies) -> Nat]
    BY <1>1, <1>4, <2>3
  <2>6. \A i \in Positions :
           /\ states[i].failures = streak'[pool.proxies[i + 1]]
           /\ states[i].blacklisted <=> states[i].failures >= MaxFailures
    <3> TAKE i \in Positions
    <3>1. CASE i = p
      BY <1>1, <1>2, <1>4, <2>1, <2>3, <3>1
    <3>2. CASE i # p
      BY <1>2, <1>3, <1>4, <2>3, <3>2 DEF IInv, Counted
    <3> QED
      BY <3>1, <3>2
  <2> HIDE DEF states
  <2> QED
    BY <1>1, <2>2, <2>4, <2>5, <2>6, Restated
<1> QED
  BY <1>6, <1>7 DEF Report

-----------------------------------------------------------------------------
LEMMA InitInv ==
  ASSUME Init, \A s \in Setups : Distinct(s.proxies)
  PROVE  IInv
<1>1. PICK setup \in Setups : new(setup)
  BY DEF Init
<1>2. PICK seed \in 0..Larger(Len(setup.proxies), 1) - 1 :
         pool = [proxies |-> setup.proxies, strategy |-> setup.strategy,
                 index |-> seed,
                 states |-> [i \in 0..Len(setup.proxies) - 1 |->
                               [failures |-> 0, blacklisted |-> FALSE]]]
  BY <1>1 DEF new
<1>3. setup.proxies \in Seq(ProxyUrls) /\ Distinct(setup.proxies)
  BY PoolAssumption
<1>4. pool.proxies = setup.proxies /\ Positions = 0..Len(setup.proxies) - 1
  BY <1>2 DEF Positions, len
<1>5. /\ DOMAIN tunnels = Urls(pool.proxies)
      /\ streak \in [Urls(pool.proxies) -> Nat]
      /\ \A u \in Urls(pool.proxies) : streak[u] = 0
  BY <1>1, <1>4 DEF new
<1>6. /\ pool.states \in [Positions -> ProxyState]
      /\ \A i \in Positions :
            pool.states[i] = [failures |-> 0, blacklisted |-> FALSE]
  BY <1>2, <1>4 DEF ProxyState
<1>7. Shape
  BY <1>2, <1>3, <1>4, <1>5, <1>6 DEF Shape
<1>8. \A i \in Positions : pool.proxies[i + 1] \in Urls(pool.proxies)
  BY <1>7 DEF Shape, Positions, len, Urls
<1>9. ~(0 >= MaxFailures)
  BY PoolAssumption
<1>10. Counted
  BY <1>5, <1>6, <1>8, <1>9 DEF Counted
<1> QED
  BY <1>7, <1>10 DEF IInv

LEMMA NextInv ==
  ASSUME IInv, [Next]_vars
  PROVE  IInv'
<1>1. CASE UNCHANGED vars
  BY <1>1 DEF vars, IInv, Shape, Counted, Positions, len
<1> QED
  BY <1>1, SelectStep, ResetStep, ReportStep DEF Next

(* A proxy is out of rotation if and only if its last MaxFailures reports  *)
(* were failures, when every URL is in the list once.                      *)
THEOREM BlacklistExact ==
  ASSUME \A s \in Setups : Distinct(s.proxies)
  PROVE  Spec => []BlacklistedExactly
<1>1. Init => IInv
  BY InitInv
<1>2. IInv /\ [Next]_vars => IInv'
  BY NextInv
<1>3. IInv => BlacklistedExactly
  BY DEF IInv, Counted, BlacklistedExactly
<1> QED
  BY <1>1, <1>2, <1>3, PTL DEF Spec

-----------------------------------------------------------------------------
(* Where the index goes *)

Turned(i) ==
    IF pool.strategy = "RoundRobin" THEN (i + 1) % WordSize
    ELSE (i * Multiplier + Increment) % WordSize

(* f is the index after 0, 1, ... n turns. *)
Course(f, n) ==
    f = [k \in 0..n |->
            IF k = 0 THEN pool.index
            ELSE IF pool.strategy = "RoundRobin"
                 THEN (f[k - 1] + 1) % WordSize
                 ELSE (f[k - 1] * Multiplier + Increment) % WordSize]

(* A set of naturals that is not empty has a least element. *)
LEMMA LeastIn ==
  ASSUME NEW T, T \subseteq Nat, T # {}
  PROVE  \E x \in T : \A y \in T : x <= y
<1> DEFINE R == OpToRel(<, Nat)
<1>1. \A x, y \in Nat : <<y, x>> \in R <=> y < x
  BY DEF OpToRel
<1>2. IsWellFoundedOn(R, Nat)
  BY NatLessThanWellFounded
<1> HIDE DEF R
<1>3. \E x \in T : \A y \in T : ~(<<y, x>> \in R)
  BY <1>2, WFMin
<1>4. \A x, y \in Nat : ~(y < x) => x <= y
  OBVIOUS
<1> QED
  BY <1>1, <1>3, <1>4

(* What holds of 0, and of n + 1 if of n, holds up to any bound. *)
LEMMA CountUp ==
  ASSUME NEW S, S \subseteq Nat, 0 \in S, NEW top \in Nat,
         \A n \in Nat : n \in S /\ n < top => n + 1 \in S
  PROVE  0..top \subseteq S
<1> SUFFICES ASSUME ~(0..top \subseteq S)
             PROVE  FALSE
  OBVIOUS
<1> DEFINE T == {n \in 0..top : n \notin S}
<1>1. T \subseteq Nat /\ T # {}
  OBVIOUS
<1>2. PICK m \in T : \A n \in T : m <= n
  BY <1>1, LeastIn
<1>3. m \in Nat /\ m # 0 /\ m <= top /\ m \notin S
  OBVIOUS
<1>4. m - 1 \in Nat /\ m - 1 < top /\ m - 1 \in 0..top /\ ~(m <= m - 1) /\ (m - 1) + 1 = m
  BY <1>3
<1>5. m - 1 \in S
  BY <1>2, <1>4
<1> QED
  BY <1>3, <1>4, <1>5

LEMMA CourseStep ==
  ASSUME NEW n \in Nat, NEW f, Course(f, n)
  PROVE  \E g : Course(g, n + 1)
<1> DEFINE g == [k \in 0..n + 1 |-> IF k <= n THEN f[k] ELSE Turned(f[n])]
<1>1. \A k \in 0..n : f[k] = IF k = 0 THEN pool.index ELSE Turned(f[k - 1])
  BY DEF Course, Turned
<1>2. \A k \in 0..n + 1 : k # 0 => k - 1 \in 0..n
  OBVIOUS
<1>3. \A k \in 0..n + 1 :
         g[k] = IF k = 0 THEN pool.index ELSE Turned(g[k - 1])
  <2> TAKE k \in 0..n + 1
  <2>1. CASE k = 0
    BY <1>1, <2>1
  <2>2. CASE k # 0 /\ k <= n
    <3>1. k - 1 \in 0..n + 1 /\ k - 1 <= n /\ k \in 0..n
      BY <2>2
    <3>2. g[k - 1] = f[k - 1] /\ g[k] = f[k]
      BY <2>2, <3>1
    <3> QED
      BY <1>1, <2>2, <3>1, <3>2
  <2>3. CASE ~(k <= n)
    <3>1. k = n + 1 /\ k - 1 = n /\ n \in 0..n + 1 /\ k # 0
      BY <2>3
    <3>2. g[n] = f[n] /\ g[k] = Turned(f[n])
      BY <2>3, <3>1
    <3> QED
      BY <3>1, <3>2
  <2> QED
    BY <2>1, <2>2, <2>3
<1>4. g = [k \in 0..n + 1 |-> g[k]]
  OBVIOUS
<1> HIDE DEF g
<1>5. g = [k \in 0..n + 1 |-> IF k = 0 THEN pool.index ELSE Turned(g[k - 1])]
  BY <1>3, <1>4
<1>6. Course(g, n + 1)
  BY <1>5 DEF Course, Turned
<1> QED
  BY <1>6

(* The function that IndexAfter defines exists, and each of its values     *)
(* follows from the one before.                                            *)
LEMMA IndexIs ==
  ASSUME NEW n \in Nat
  PROVE  \E f : Course(f, n) /\ IndexAfter(n) = f[n]
<1> DEFINE S == {m \in Nat : \E f : Course(f, m)}
<1>1. 0 \in S
  <2>1. Course([k \in 0..0 |-> pool.index], 0)
    BY DEF Course
  <2> QED
    BY <2>1
<1>2. \A m \in Nat : m \in S => m + 1 \in S
  BY CourseStep
<1>3. S \subseteq Nat /\ n \in 0..n
  OBVIOUS
<1> HIDE DEF S
<1>4. n \in S
  BY <1>1, <1>2, <1>3, CountUp
<1>5. Course(CHOOSE f : Course(f, n), n)
  BY <1>4 DEF S
<1>6. IndexAfter(n) = (CHOOSE f : Course(f, n))[n]
  BY DEF IndexAfter, Course
<1> QED
  BY <1>5, <1>6

(* The index is a word again after any number of turns. *)
LEMMA IndexInWord ==
  ASSUME pool.index \in 0..WordSize - 1, NEW n \in Nat
  PROVE  IndexAfter(n) \in 0..WordSize - 1
<1>1. PICK f : Course(f, n) /\ IndexAfter(n) = f[n]
  BY IndexIs
<1>2. WordSize \in Nat \ {0} /\ Multiplier \in Nat /\ Increment \in Nat
  BY PoolAssumption
<1>3. \A i \in 0..WordSize - 1 : Turned(i) \in 0..WordSize - 1
  <2> TAKE i \in 0..WordSize - 1
  <2>1. i + 1 \in Int /\ i * Multiplier \in Int
    BY <1>2
  <2>2. \A a \in Int : a % WordSize \in 0..WordSize - 1
    BY <1>2
  <2>3. i * Multiplier + Increment \in Int
    BY <1>2, <2>1
  <2> QED
    BY <2>1, <2>2, <2>3 DEF Turned
<1>4. \A k \in 0..n : f[k] = IF k = 0 THEN pool.index ELSE Turned(f[k - 1])
  BY <1>1 DEF Course, Turned
<1> DEFINE S == {k \in 0..n : f[k] \in 0..WordSize - 1}
<1>5. 0 \in S
  BY <1>4
<1>6. \A m \in Nat : m \in S /\ m < n => m + 1 \in S
  <2> SUFFICES ASSUME NEW m \in Nat, m \in S, m < n
               PROVE  m + 1 \in S
    OBVIOUS
  <2>1. m + 1 \in 0..n /\ m + 1 # 0 /\ (m + 1) - 1 = m
    OBVIOUS
  <2>2. f[m + 1] = Turned(f[m])
    BY <1>4, <2>1
  <2> QED
    BY <1>3, <2>1, <2>2
<1>7. S \subseteq Nat /\ n \in 0..n
  OBVIOUS
<1> HIDE DEF S
<1>8. n \in S
  BY <1>5, <1>6, <1>7, CountUp
<1> QED
  BY <1>1, <1>8 DEF S

(* Round robin counts up, as long as the word lasts. *)
LEMMA IndexCounts ==
  ASSUME pool.strategy = "RoundRobin", pool.index \in Nat, NEW n \in Nat,
         pool.index + n <= WordSize - 1
  PROVE  IndexAfter(n) = pool.index + n
<1>1. PICK f : Course(f, n) /\ IndexAfter(n) = f[n]
  BY IndexIs
<1>2. WordSize \in Nat \ {0}
  BY PoolAssumption
<1>3. \A k \in 0..n : f[k] = IF k = 0 THEN pool.index ELSE (f[k - 1] + 1) % WordSize
  BY <1>1 DEF Course
<1> DEFINE S == {k \in 0..n : f[k] = pool.index + k}
<1>4. 0 \in S
  BY <1>3
<1>5. \A m \in Nat : m \in S /\ m < n => m + 1 \in S
  <2> SUFFICES ASSUME NEW m \in Nat, m \in S, m < n
               PROVE  m + 1 \in S
    OBVIOUS
  <2>1. m + 1 \in 0..n /\ m + 1 # 0 /\ (m + 1) - 1 = m
    OBVIOUS
  <2>2. f[m + 1] = (pool.index + m + 1) % WordSize
    BY <1>3, <2>1
  <2>3. pool.index + m + 1 \in 0..WordSize - 1
    BY <1>2
  <2>4. \A a \in 0..WordSize - 1 : a % WordSize = a
    BY <1>2
  <2>5. pool.index + m + 1 = pool.index + (m + 1)
    OBVIOUS
  <2> QED
    BY <2>1, <2>2, <2>3, <2>4, <2>5
<1>6. S \subseteq Nat /\ n \in 0..n
  OBVIOUS
<1> HIDE DEF S
<1>7. n \in S
  BY <1>4, <1>5, <1>6, CountUp
<1> QED
  BY <1>1, <1>7 DEF S

-----------------------------------------------------------------------------
(* Types *)

(* What a setup fixes and no call changes. *)
Fixed ==
    /\ pool = [proxies |-> pool.proxies, strategy |-> pool.strategy,
               index |-> pool.index, states |-> pool.states]
    /\ pool.proxies \in Seq(ProxyUrls)

Typed == Fixed /\ TypeOK

LEMMA LenNat ==
  ASSUME Fixed
  PROVE  len \in Nat /\ DOMAIN pool.proxies = 1..len
BY DEF Fixed, len

LEMMA IndexNat ==
  ASSUME Typed
  PROVE  pool.index \in Nat
<1>1. pool.index \in 0..WordSize - 1
  BY DEF Typed, TypeOK
<1> QED
  BY <1>1, PoolAssumption

(* The position a turn looks at is one of the list. *)
LEMMA CandidateIn ==
  ASSUME Typed, NEW k \in Turns
  PROVE  /\ Candidate(k) \in Positions
         /\ pool.proxies[Candidate(k) + 1] \in Urls(pool.proxies)
<1>1. len \in Nat \ {0} /\ DOMAIN pool.proxies = 1..len /\ k - 1 \in Nat /\ k \in Nat
  BY LenNat DEF Typed, Turns
<1>2. IndexAfter(k - 1) \in Int /\ IndexAfter(k) \in Int
  <2>1. pool.index \in 0..WordSize - 1
    BY DEF Typed, TypeOK
  <2>2. /\ IndexAfter(k - 1) \in 0..WordSize - 1
        /\ IndexAfter(k) \in 0..WordSize - 1
    BY <1>1, <2>1, IndexInWord
  <2> QED
    BY <2>2
<1>3. \A a \in Int : a % len \in 0..len - 1
  BY <1>1
<1>4. Candidate(k) \in Positions
  BY <1>2, <1>3 DEF Candidate, Positions
<1>5. Candidate(k) + 1 \in 1..len
  BY <1>1, <1>4 DEF Positions
<1> QED
  BY <1>1, <1>4, <1>5 DEF Urls

(* A URL of the list has an entry; Position is the first. *)
LEMMA PositionIn ==
  ASSUME Fixed, NEW url \in Urls(pool.proxies)
  PROVE  Position(url) \in Positions
<1> DEFINE T == {i \in Positions : pool.proxies[i + 1] = url}
<1>1. len \in Nat /\ DOMAIN pool.proxies = 1..len
  BY DEF Fixed, len
<1>2. PICK n \in 1..len : pool.proxies[n] = url
  BY <1>1 DEF Urls
<1>3. n - 1 \in Positions /\ (n - 1) + 1 = n
  BY <1>1 DEF Positions
<1>4. T \subseteq Nat /\ T # {}
  <2>1. Positions \subseteq Nat
    BY <1>1 DEF Positions
  <2>2. n - 1 \in T
    BY <1>2, <1>3
  <2> QED
    BY <2>1, <2>2
<1>5. PICK i \in T : \A j \in T : i <= j
  BY <1>4, LeastIn
<1>6. \A j \in 0..i - 1 : pool.proxies[j + 1] # url
  <2> TAKE j \in 0..i - 1
  <2>1. j \in Positions /\ ~(i <= j)
    BY <1>1 DEF Positions
  <2> QED
    BY <1>5, <2>1
<1>7. \E m \in Positions : /\ pool.proxies[m + 1] = url
                           /\ \A j \in 0..m - 1 : pool.proxies[j + 1] # url
  BY <1>6
<1> QED
  BY <1>7 DEF Position

LEMMA TypedInit ==
  ASSUME Init
  PROVE  Typed
<1>1. PICK setup \in Setups : new(setup)
  BY DEF Init
<1>2. PICK seed \in 0..Larger(Len(setup.proxies), 1) - 1 :
         pool = [proxies |-> setup.proxies, strategy |-> setup.strategy,
                 index |-> seed,
                 states |-> [i \in 0..Len(setup.proxies) - 1 |->
                               [failures |-> 0, blacklisted |-> FALSE]]]
  BY <1>1 DEF new
<1>3. setup.proxies \in Seq(ProxyUrls) /\ Len(setup.proxies) <= WordSize
  BY PoolAssumption
<1>4. /\ pool.proxies = setup.proxies /\ Positions = 0..Len(setup.proxies) - 1
      /\ pool.index = seed
  BY <1>2 DEF Positions, len
<1>5. Fixed
  BY <1>2, <1>3 DEF Fixed
<1>6. pool.index \in 0..WordSize - 1
  <2>1. Len(setup.proxies) \in Nat /\ WordSize \in Nat \ {0}
    BY <1>3, PoolAssumption
  <2> QED
    BY <1>3, <1>4, <2>1 DEF Larger
<1>7. pool.states \in [Positions -> [failures: Nat, blacklisted: BOOLEAN]]
  BY <1>2, <1>4
<1>8. /\ outcome = ""
      /\ tunnels \in [Urls(pool.proxies) -> 0..MaxTunnels]
      /\ streak \in [Urls(pool.proxies) -> Nat]
      /\ waiting \in [Positions -> Nat]
  <2>1. /\ outcome = "" /\ tunnels = [u \in Urls(pool.proxies) |-> 0]
        /\ streak = [u \in Urls(pool.proxies) |-> 0]
        /\ waiting = [i \in Positions |-> 0]
    BY <1>1, <1>4 DEF new
  <2>2. 0 \in 0..MaxTunnels
    BY PoolAssumption
  <2> QED
    BY <2>1, <2>2
<1> QED
  BY <1>5, <1>6, <1>7, <1>8 DEF Typed, TypeOK

(* A step that moves the index, and no state. *)
LEMMA IndexMoved ==
  ASSUME Typed, NEW index \in 0..WordSize - 1, pool' = [pool EXCEPT !.index = index],
         outcome' \in Urls(pool.proxies) \cup {"", PoolExhausted},
         tunnels' \in [Urls(pool.proxies) -> 0..MaxTunnels],
         waiting' \in [Positions -> Nat], UNCHANGED streak
  PROVE  Typed'
<1>1. pool' = [proxies |-> pool.proxies, strategy |-> pool.strategy,
               index |-> index, states |-> pool.states]
  BY DEF Typed, Fixed
<1>2. pool'.proxies = pool.proxies /\ pool'.states = pool.states /\ pool'.index = index
  BY <1>1
<1>3. Positions' = Positions
  BY <1>2 DEF Positions, len
<1>4. Fixed'
  BY <1>1, <1>2 DEF Typed, Fixed
<1>5. TypeOK'
  BY <1>2, <1>3 DEF Typed, TypeOK
<1> QED
  BY <1>4, <1>5 DEF Typed

(* A step that changes states, and not the index. *)
LEMMA StatesChanged ==
  ASSUME Typed, NEW states \in [Positions -> [failures: Nat, blacklisted: BOOLEAN]],
         pool' = [pool EXCEPT !.states = states], outcome' = "",
         tunnels' \in [Urls(pool.proxies) -> 0..MaxTunnels],
         streak' \in [Urls(pool.proxies) -> Nat], UNCHANGED waiting
  PROVE  /\ Typed' /\ Positions' = Positions /\ len' = len
         /\ pool'.index = pool.index /\ pool'.strategy = pool.strategy
<1>1. pool' = [proxies |-> pool.proxies, strategy |-> pool.strategy,
               index |-> pool.index, states |-> states]
  BY DEF Typed, Fixed
<1>2. /\ pool'.proxies = pool.proxies /\ pool'.states = states
      /\ pool'.index = pool.index /\ pool'.strategy = pool.strategy
  BY <1>1
<1>3. Positions' = Positions /\ len' = len
  BY <1>2 DEF Positions, len
<1>4. Fixed'
  BY <1>1, <1>2 DEF Typed, Fixed
<1>5. TypeOK'
  BY <1>2, <1>3 DEF Typed, TypeOK
<1> QED
  BY <1>2, <1>3, <1>4, <1>5 DEF Typed

LEMMA TypedSelect ==
  ASSUME Typed, NEW k \in Turns, SelectProxy(k)
  PROVE  Typed'
<1> DEFINE url == pool.proxies[Candidate(k) + 1]
<1>1. Candidate(k) \in Positions /\ url \in Urls(pool.proxies)
  BY CandidateIn
<1>2. /\ outcome' = url /\ tunnels[url] < MaxTunnels
      /\ tunnels' = [tunnels EXCEPT ![url] = @ + 1]
      /\ pool' = [pool EXCEPT !.index = IndexAfter(k)] /\ streak' = streak
  BY DEF SelectProxy
<1>3. waiting' = [i \in Positions |->
                    IF i = Candidate(k) \/ pool.states[i].blacklisted
                    THEN 0 ELSE waiting[i] + 1]
  BY DEF SelectProxy
<1> HIDE DEF url
<1>4. waiting' \in [Positions -> Nat]
  <2>1. \A i \in Positions : waiting[i] \in Nat
    BY DEF Typed, TypeOK
  <2> QED
    BY <1>3, <2>1
<1>5. tunnels' \in [Urls(pool.proxies) -> 0..MaxTunnels]
  <2>1. tunnels \in [Urls(pool.proxies) -> 0..MaxTunnels] /\ MaxTunnels \in Nat
    BY PoolAssumption DEF Typed, TypeOK
  <2>2. tunnels[url] + 1 \in 0..MaxTunnels
    BY <1>1, <1>2, <2>1
  <2> QED
    BY <1>1, <1>2, <2>1, <2>2
<1>6. k \in Nat /\ pool.index \in 0..WordSize - 1
  <2>1. len \in Nat
    BY LenNat DEF Typed
  <2>2. k \in Nat
    BY <2>1 DEF Turns
  <2> QED
    BY <2>2 DEF Typed, TypeOK
<1>7. IndexAfter(k) \in 0..WordSize - 1
  BY <1>6, IndexInWord
<1> QED
  BY <1>1, <1>2, <1>4, <1>5, <1>7, IndexMoved

LEMMA TypedExhausted ==
  ASSUME Typed, SelectExhausted
  PROVE  Typed'
<1>1. len \in Nat /\ pool.index \in 0..WordSize - 1
  BY LenNat DEF Typed, TypeOK
<1>2. IndexAfter(len) \in 0..WordSize - 1
  BY <1>1, IndexInWord
<1>3. /\ outcome' = PoolExhausted /\ pool' = [pool EXCEPT !.index = IndexAfter(len)]
      /\ tunnels' = tunnels /\ streak' = streak /\ waiting' = waiting
  BY DEF SelectExhausted
<1>4. /\ tunnels \in [Urls(pool.proxies) -> 0..MaxTunnels]
      /\ waiting \in [Positions -> Nat]
  BY DEF Typed, TypeOK
<1> QED
  BY <1>2, <1>3, <1>4, IndexMoved

(* What reset_all and a report change, and what they leave. *)
Kept == /\ Typed' /\ Positions' = Positions /\ len' = len /\ waiting' = waiting
        /\ pool'.index = pool.index /\ pool'.strategy = pool.strategy
        /\ outcome' = ""

LEMMA TypedReset ==
  ASSUME Typed, reset_all
  PROVE  Kept
<1> DEFINE states == [i \in Positions |-> [failures |-> 0, blacklisted |-> FALSE]]
<1>1. states \in [Positions -> [failures: Nat, blacklisted: BOOLEAN]]
  OBVIOUS
<1>2. /\ pool' = [pool EXCEPT !.states = states] /\ tunnels' = tunnels
      /\ outcome' = "" /\ waiting' = waiting
  BY DEF reset_all
<1>3. streak' \in [Urls(pool.proxies) -> Nat]
  BY DEF reset_all, Typed, TypeOK
<1>4. tunnels \in [Urls(pool.proxies) -> 0..MaxTunnels]
  BY DEF Typed, TypeOK
<1> HIDE DEF states
<1> QED
  BY <1>1, <1>2, <1>3, <1>4, StatesChanged DEF Kept

LEMMA TypedReport ==
  ASSUME Typed, NEW url \in DOMAIN tunnels, Report(url)
  PROVE  Kept
<1> DEFINE p == Position(url)
           ProxyStates == [failures: Nat, blacklisted: BOOLEAN]
<1>1. url \in Urls(pool.proxies)
  BY DEF Typed, TypeOK
<1>2. p \in Positions
  BY <1>1, PositionIn DEF Typed
<1>3. /\ pool.states \in [Positions -> ProxyStates]
      /\ streak \in [Urls(pool.proxies) -> Nat]
      /\ tunnels \in [Urls(pool.proxies) -> 0..MaxTunnels]
      /\ pool = [proxies |-> pool.proxies, strategy |-> pool.strategy,
                 index |-> pool.index, states |-> pool.states]
      /\ MaxTunnels \in Nat
  BY PoolAssumption DEF Typed, TypeOK, Fixed
<1>4. tunnels' \in [Urls(pool.proxies) -> 0..MaxTunnels]
  <2>1. tunnels[url] > 0 /\ tunnels' = [tunnels EXCEPT ![url] = @ - 1]
    BY DEF Report
  <2>2. tunnels[url] - 1 \in 0..MaxTunnels
    BY <1>1, <1>3, <2>1
  <2> QED
    BY <1>1, <1>3, <2>1, <2>2
<1>5. /\ Failed(pool.states[p]) \in ProxyStates
      /\ Recovered(pool.states[p]) \in ProxyStates
  <2>1. pool.states[p].failures + 1 \in Nat
    BY <1>2, <1>3
  <2> QED
    BY <2>1 DEF Failed, Recovered
<1>6. \E s \in ProxyStates :
         pool' = [pool EXCEPT !.states = [pool.states EXCEPT ![p] = s]]
  <2>1. CASE report_failure(url)
    <3>1. pool' = [pool EXCEPT !.states = [pool.states EXCEPT ![p] = Failed(pool.states[p])]]
      BY <1>3, <2>1 DEF report_failure
    <3> QED
      BY <1>5, <3>1
  <2>2. CASE report_success(url)
    <3>1. pool' = [pool EXCEPT !.states = [pool.states EXCEPT ![p] = Recovered(pool.states[p])]]
      BY <1>3, <2>2 DEF report_success
    <3> QED
      BY <1>5, <3>1
  <2> QED
    BY <2>1, <2>2 DEF Report
<1>7. streak' \in [Urls(pool.proxies) -> Nat]
  <2>1. CASE report_failure(url)
    BY <1>1, <1>3, <2>1 DEF report_failure
  <2>2. CASE report_success(url)
    BY <1>1, <1>3, <2>2 DEF report_success
  <2> QED
    BY <2>1, <2>2 DEF Report
<1>8. outcome' = "" /\ waiting' = waiting
  BY DEF Report, report_failure, report_success
<1>9. PICK s \in ProxyStates :
         pool' = [pool EXCEPT !.states = [pool.states EXCEPT ![p] = s]]
  BY <1>6
<1> DEFINE states == [pool.states EXCEPT ![p] = s]
<1>10. states \in [Positions -> ProxyStates]
  BY <1>2, <1>3
<1>11. pool' = [pool EXCEPT !.states = states]
  BY <1>9
<1> HIDE DEF states
<1> QED
  BY <1>4, <1>7, <1>8, <1>10, <1>11, StatesChanged DEF Kept

LEMMA TypedNext ==
  ASSUME Typed, [Next]_vars
  PROVE  Typed'
<1>1. CASE UNCHANGED vars
  BY <1>1 DEF vars, Typed, Fixed, TypeOK, Positions, len, Urls
<1>2. CASE select
  BY <1>2, TypedSelect, TypedExhausted DEF select
<1>3. CASE reset_all
  BY <1>3, TypedReset DEF Kept
<1>4. ASSUME NEW url \in DOMAIN tunnels, Report(url)
      PROVE  Typed'
  BY <1>4, TypedReport DEF Kept
<1> QED
  BY <1>1, <1>2, <1>3, <1>4 DEF Next

(* Type correctness, with either strategy and any multiplier and           *)
(* increment: the index stays in its word, and every position and URL the  *)
(* calls compute is one of the list.                                       *)
THEOREM PoolTyped == Spec => []TypeOK
<1>1. Init => Typed
  BY TypedInit
<1>2. Typed /\ [Next]_vars => Typed'
  BY TypedNext
<1>3. Typed => TypeOK
  BY DEF Typed
<1> QED
  BY <1>1, <1>2, <1>3, PTL DEF Spec

-----------------------------------------------------------------------------
(* Round robin *)

LEMMA ModKnown ==
  ASSUME NEW n \in Nat \ {0}, NEW q \in Int, NEW b \in 0..n - 1
  PROVE  (n * q + b) % n = b
OBVIOUS

(* The remainder moves with the number, around n. *)
LEMMA ModAdd ==
  ASSUME NEW a \in Nat, NEW n \in Nat \ {0}, NEW k \in 0..n
  PROVE  /\ a % n \in 0..n - 1
         /\ (a + k) % n = IF (a % n) + k < n THEN (a % n) + k ELSE (a % n) + k - n
<1> DEFINE q == a \div n
           p == n * q
           b == a % n
<1>1. q \in Int /\ b \in 0..n - 1 /\ b = a - p
  OBVIOUS
<1>2. p \in Int
  BY <1>1
<1>3. n * (q + 1) = p + n
  BY <1>1
<1>4. \A c \in 0..n - 1 : (p + c) % n = c /\ ((p + n) + c) % n = c
  <2> TAKE c \in 0..n - 1
  <2>1. (n * q + c) % n = c
    BY <1>1, ModKnown
  <2>2. q + 1 \in Int
    BY <1>1
  <2>3. (n * (q + 1) + c) % n = c
    BY <2>2, ModKnown
  <2> QED
    BY <1>3, <2>1, <2>3
<1> HIDE DEF q, p, b
<1>5. a + k = p + (b + k) /\ a + k = (p + n) + (b + k - n)
  BY <1>1, <1>2
<1>6. CASE b + k < n
  <2>1. b + k \in 0..n - 1
    BY <1>1, <1>6
  <2> QED
    BY <1>1, <1>4, <1>5, <1>6, <2>1 DEF b
<1>7. CASE ~(b + k < n)
  <2>1. b + k - n \in 0..n - 1
    BY <1>1, <1>7
  <2> QED
    BY <1>1, <1>4, <1>5, <1>7, <2>1 DEF b
<1> QED
  BY <1>6, <1>7

(* The turn at which a loop that starts at the index looks at position i. *)
Turn(index, i) ==
    LET b == index % len IN IF i >= b THEN i - b + 1 ELSE i - b + 1 + len

LEMMA TurnIn ==
  ASSUME len \in Nat \ {0}, NEW index \in Nat, NEW i \in Positions
  PROVE  Turn(index, i) \in Turns
<1>1. index % len \in 0..len - 1
  OBVIOUS
<1>2. i \in 0..len - 1
  BY DEF Positions
<1> QED
  BY <1>1, <1>2 DEF Turn, Turns

(* It is the only turn that does. *)
LEMMA TurnMeets ==
  ASSUME len \in Nat \ {0}, NEW index \in Nat, NEW i \in Positions, NEW k \in Turns
  PROVE  (index + (k - 1)) % len = i <=> k = Turn(index, i)
<1> DEFINE b == index % len
<1>1. k - 1 \in 0..len /\ k \in 1..len /\ i \in 0..len - 1
  BY DEF Turns, Positions
<1>2. /\ b \in 0..len - 1
      /\ (index + (k - 1)) % len = IF b + (k - 1) < len THEN b + (k - 1)
                                   ELSE b + (k - 1) - len
  BY <1>1, ModAdd
<1>3. Turn(index, i) = IF i >= b THEN i - b + 1 ELSE i - b + 1 + len
  BY DEF Turn
<1> HIDE DEF b
<1> QED
  BY <1>1, <1>2, <1>3

(* After k turns, a position that was to come later comes k turns earlier. *)
LEMMA TurnMoves ==
  ASSUME len \in Nat \ {0}, NEW index \in Nat, NEW i \in Positions, NEW k \in Turns
  PROVE  Turn(index + k, i) = IF Turn(index, i) > k THEN Turn(index, i) - k
                              ELSE Turn(index, i) - k + len
<1> DEFINE b == index % len
           c == (index + k) % len
<1>1. k \in 0..len /\ k \in 1..len /\ i \in 0..len - 1
  BY DEF Turns, Positions
<1>2. /\ b \in 0..len - 1
      /\ c = IF b + k < len THEN b + k ELSE b + k - len
  BY <1>1, ModAdd
<1>3. /\ Turn(index, i) = IF i >= b THEN i - b + 1 ELSE i - b + 1 + len
      /\ Turn(index + k, i) = IF i >= c THEN i - c + 1 ELSE i - c + 1 + len
  BY DEF Turn
<1> HIDE DEF b, c
<1> QED
  BY <1>1, <1>2, <1>3

(* The premise of the theorems: every pool is a round robin, and none      *)
(* counts so far that the index wraps (2^64 selections).                   *)
Counts ==
    \A s \in Setups :
        s.strategy = "RoundRobin" /\ MaxIndex + Len(s.proxies) <= WordSize

(* A position has been passed over no more often than turns have gone by   *)
(* since it was looked at.                                                 *)
Rotation ==
    /\ pool.strategy = "RoundRobin" /\ MaxIndex + len <= WordSize
    /\ \A i \in Positions : waiting[i] + Turn(pool.index, i) <= len

InTurn == Typed /\ Rotation /\ ExhaustedMeansNoneHealthy

LEMMA TurnInit ==
  ASSUME Init, Counts
  PROVE  InTurn
<1>1. Typed
  BY TypedInit
<1>2. PICK setup \in Setups : new(setup)
  BY DEF Init
<1>3. /\ pool.proxies = setup.proxies /\ pool.strategy = setup.strategy
      /\ outcome = "" /\ waiting = [i \in 0..Len(setup.proxies) - 1 |-> 0]
  <2>1. PICK seed : pool = [proxies |-> setup.proxies, strategy |-> setup.strategy,
                            index |-> seed,
                            states |-> [i \in 0..Len(setup.proxies) - 1 |->
                                          [failures |-> 0, blacklisted |-> FALSE]]]
    BY <1>2 DEF new
  <2> QED
    BY <1>2, <2>1 DEF new
<1>4. pool.strategy = "RoundRobin" /\ MaxIndex + len <= WordSize
  BY <1>3 DEF Counts, len
<1>5. \A i \in Positions : waiting[i] = 0
  BY <1>3 DEF Positions, len
<1>6. ASSUME NEW i \in Positions
      PROVE  waiting[i] + Turn(pool.index, i) <= len
  <2>1. len \in Nat
    BY <1>1, LenNat DEF Typed
  <2>2. len \in Nat \ {0}
    BY <2>1 DEF Positions
  <2>3. pool.index \in Nat
    BY <1>1, IndexNat
  <2>4. Turn(pool.index, i) \in 1..len
    BY <2>2, <2>3, TurnIn DEF Turns
  <2> QED
    BY <1>5, <2>2, <2>4
<1>7. ExhaustedMeansNoneHealthy
  BY <1>3 DEF ExhaustedMeansNoneHealthy, PoolExhausted
<1> QED
  BY <1>1, <1>4, <1>6, <1>7 DEF InTurn, Rotation

(* In a round robin turn k looks k - 1 positions after the index. *)
LEMMA RoundRobin ==
  ASSUME InTurn, pool.index < MaxIndex, NEW k \in Turns
  PROVE  /\ len \in Nat \ {0} /\ pool.index \in Nat /\ k \in Nat
         /\ IndexAfter(k) = pool.index + k
         /\ Candidate(k) = (pool.index + (k - 1)) % len
<1>1. len \in Nat
  BY LenNat DEF InTurn, Typed
<1>2. len \in Nat \ {0} /\ k \in Nat /\ k - 1 \in Nat /\ k <= len
  BY <1>1 DEF Turns
<1>3. pool.index \in Nat /\ WordSize \in Nat /\ MaxIndex \in Nat
  BY PoolAssumption, IndexNat DEF InTurn
<1>4. pool.strategy = "RoundRobin" /\ MaxIndex + len <= WordSize
  BY DEF InTurn, Rotation
<1>5. pool.index + k <= WordSize - 1 /\ pool.index + (k - 1) <= WordSize - 1
  BY <1>2, <1>3, <1>4
<1>6. IndexAfter(k) = pool.index + k /\ IndexAfter(k - 1) = pool.index + (k - 1)
  BY <1>2, <1>3, <1>4, <1>5, IndexCounts
<1> QED
  BY <1>2, <1>3, <1>4, <1>6 DEF Candidate

(* What a selection leaves of the pool. *)
LEMMA SelectKeeps ==
  ASSUME Typed, NEW index, pool' = [pool EXCEPT !.index = index]
  PROVE  /\ Positions' = Positions /\ len' = len /\ pool'.index = index
         /\ pool'.strategy = pool.strategy /\ pool'.states = pool.states
<1>1. pool' = [proxies |-> pool.proxies, strategy |-> pool.strategy,
               index |-> index, states |-> pool.states]
  BY DEF Typed, Fixed
<1>2. pool'.proxies = pool.proxies /\ pool'.states = pool.states
      /\ pool'.index = index /\ pool'.strategy = pool.strategy
  BY <1>1
<1> QED
  BY <1>2 DEF Positions, len

(* Who is passed over by a selection was to come after the one selected.   *)
LEMMA TurnSelect ==
  ASSUME InTurn, pool.index < MaxIndex, NEW k \in Turns, SelectProxy(k)
  PROVE  InTurn'
<1>1. /\ len \in Nat \ {0} /\ pool.index \in Nat /\ k \in 1..len /\ k \in Nat
      /\ IndexAfter(k) = pool.index + k
  BY RoundRobin DEF Turns
<1>2. \A j \in Turns : Candidate(j) = (pool.index + (j - 1)) % len
  BY RoundRobin
<1>3. Typed' /\ Typed
  BY TypedSelect DEF InTurn
<1>4. /\ ~pool.states[Candidate(k)].blacklisted
      /\ \A j \in 1..k - 1 : pool.states[Candidate(j)].blacklisted
  BY DEF SelectProxy, Healthy
<1>5. /\ pool' = [pool EXCEPT !.index = pool.index + k]
      /\ waiting' = [i \in Positions |->
                       IF i = Candidate(k) \/ pool.states[i].blacklisted
                       THEN 0 ELSE waiting[i] + 1]
  BY <1>1 DEF SelectProxy
<1>6. /\ Positions' = Positions /\ len' = len /\ pool'.index = pool.index + k
      /\ pool'.strategy = pool.strategy
  BY <1>3, <1>5, SelectKeeps
<1>7. ASSUME NEW i \in Positions
      PROVE  waiting'[i] + Turn(pool.index + k, i) <= len
  <2> DEFINE t == Turn(pool.index, i)
             u == Turn(pool.index + k, i)
  <2>1. t \in 1..len /\ t \in Turns
    BY <1>1, TurnIn DEF Turns
  <2>2. u = IF t > k THEN t - k ELSE t - k + len
    BY <1>1, TurnMoves
  <2>3. Candidate(t) = i
    BY <1>1, <1>2, <2>1, TurnMeets
  <2>4. waiting[i] \in Nat /\ waiting[i] + t <= len
    BY DEF InTurn, Rotation, Typed, TypeOK
  <2>5. waiting'[i] = IF i = Candidate(k) \/ pool.states[i].blacklisted
                      THEN 0 ELSE waiting[i] + 1
    BY <1>5
  <2> HIDE DEF t, u
  <2>6. u \in 1..len
    BY <1>1, <2>1, <2>2
  <2>7. CASE i = Candidate(k) \/ pool.states[i].blacklisted
    <3>1. waiting'[i] = 0
      BY <2>5, <2>7
    <3> QED
      BY <1>1, <2>6, <3>1 DEF u
  <2>8. CASE ~(i = Candidate(k) \/ pool.states[i].blacklisted)
    <3>1. t \notin 1..k - 1 /\ t # k
      BY <1>4, <2>3, <2>8
    <3>2. t > k
      BY <1>1, <2>1, <3>1
    <3>3. waiting'[i] = waiting[i] + 1 /\ u = t - k
      BY <2>2, <2>5, <2>8, <3>2
    <3>4. waiting'[i] + u <= len
      BY <1>1, <2>1, <2>4, <3>3
    <3> QED
      BY <3>4 DEF u
  <2> QED
    BY <2>7, <2>8
<1>8. Rotation'
  <2>1. pool.strategy = "RoundRobin" /\ MaxIndex + len <= WordSize
    BY DEF InTurn, Rotation
  <2>2. \A i \in Positions : Turn(pool.index, i)' = Turn(pool.index + k, i)
    BY <1>6 DEF Turn
  <2> QED
    BY <1>6, <1>7, <2>1, <2>2 DEF Rotation
<1>9. ExhaustedMeansNoneHealthy'
  <2>1. pool.proxies[Candidate(k) + 1] \in Urls(pool.proxies)
    BY <1>3, CandidateIn
  <2>2. Urls(pool.proxies) \subseteq ProxyUrls
    BY <1>3 DEF Typed, Fixed, Urls
  <2>3. outcome' # PoolExhausted
    BY <2>1, <2>2 DEF SelectProxy, ProxyUrls, PoolExhausted
  <2> QED
    BY <2>3 DEF ExhaustedMeansNoneHealthy, PoolExhausted
<1> QED
  BY <1>3, <1>8, <1>9 DEF InTurn

(* A loop that meets no healthy proxy has looked at all of them.           *)
LEMMA TurnExhausted ==
  ASSUME InTurn, pool.index < MaxIndex, SelectExhausted
  PROVE  InTurn'
<1>1. Typed' /\ Typed
  BY TypedExhausted DEF InTurn
<1>2. len \in Nat /\ pool.index \in Nat
  BY <1>1, LenNat, IndexNat DEF Typed
<1>3. /\ \A k \in Turns : pool.states[Candidate(k)].blacklisted
      /\ pool' = [pool EXCEPT !.index = IndexAfter(len)] /\ waiting' = waiting
  BY DEF SelectExhausted, Healthy
<1>4. /\ Positions' = Positions /\ len' = len /\ pool'.index = IndexAfter(len)
      /\ pool'.strategy = pool.strategy /\ pool'.states = pool.states
  BY <1>1, <1>3, SelectKeeps
<1>5. ASSUME NEW i \in Positions
      PROVE  /\ pool.states[i].blacklisted
             /\ Turn(IndexAfter(len), i) = Turn(pool.index, i)
  <2>1. len \in Nat \ {0} /\ len \in Turns
    BY <1>2 DEF Positions, Turns
  <2> DEFINE t == Turn(pool.index, i)
  <2>2. t \in Turns /\ t \in 1..len
    BY <1>2, <2>1, TurnIn DEF Turns
  <2>3. Candidate(t) = (pool.index + (t - 1)) % len
    BY <2>2, RoundRobin
  <2>4. Candidate(t) = i
    BY <1>2, <2>1, <2>2, <2>3, TurnMeets
  <2>5. IndexAfter(len) = pool.index + len
    BY <2>1, RoundRobin
  <2>6. Turn(pool.index + len, i) = IF t > len THEN t - len ELSE t - len + len
    BY <1>2, <2>1, TurnMoves
  <2> HIDE DEF t
  <2>7. Turn(pool.index + len, i) = t
    BY <1>2, <2>2, <2>6
  <2> QED
    BY <1>3, <2>2, <2>4, <2>5, <2>7 DEF t
<1>6. Rotation'
  <2>1. /\ pool.strategy = "RoundRobin" /\ MaxIndex + len <= WordSize
        /\ \A i \in Positions : waiting[i] + Turn(pool.index, i) <= len
    BY DEF InTurn, Rotation
  <2>2. \A i \in Positions : Turn(pool.index, i)' = Turn(IndexAfter(len), i)
    BY <1>4 DEF Turn
  <2> QED
    BY <1>3, <1>4, <1>5, <2>1, <2>2 DEF Rotation
<1>7. ExhaustedMeansNoneHealthy'
  BY <1>4, <1>5 DEF ExhaustedMeansNoneHealthy
<1> QED
  BY <1>1, <1>6, <1>7 DEF InTurn

(* A reset or a report moves no one.                                       *)
LEMMA TurnKept ==
  ASSUME InTurn, Kept
  PROVE  InTurn'
<1>1. \A i \in Positions : Turn(pool.index, i)' = Turn(pool.index, i)
  BY DEF Kept, Turn
<1>2. Rotation'
  BY <1>1 DEF InTurn, Rotation, Kept
<1>3. ExhaustedMeansNoneHealthy'
  BY DEF Kept, ExhaustedMeansNoneHealthy, PoolExhausted
<1> QED
  BY <1>2, <1>3 DEF InTurn, Kept

LEMMA TurnNext ==
  ASSUME InTurn, [Next]_vars
  PROVE  InTurn'
<1>1. CASE UNCHANGED vars
  <2>1. Typed'
    BY TypedNext DEF InTurn
  <2> QED
    BY <1>1, <2>1 DEF vars, InTurn, Rotation, ExhaustedMeansNoneHealthy, Positions,
                      len, Turn
<1>2. CASE select
  <2>1. pool.index < MaxIndex
    BY <1>2 DEF select, InTurn, Rotation
  <2> QED
    BY <1>2, <2>1, TurnSelect, TurnExhausted DEF select
<1>3. CASE reset_all
  <2>1. Kept
    BY <1>3, TypedReset DEF InTurn
  <2> QED
    BY <2>1, TurnKept
<1>4. ASSUME NEW url \in DOMAIN tunnels, Report(url)
      PROVE  InTurn'
  <2>1. Kept
    BY <1>4, TypedReport DEF InTurn
  <2> QED
    BY <2>1, TurnKept
<1> QED
  BY <1>1, <1>2, <1>3, <1>4 DEF Next

(* A round robin fails only when no healthy proxy is left, for any list of *)
(* proxies and wherever the index stands: the turns of one call visit      *)
(* every position.  (Drawn at random, a list whose length does not divide  *)
(* the word may be missed: the run ProxyRandomMiss.)                       *)
THEOREM ExhaustedExact ==
  ASSUME Counts
  PROVE  Spec => []ExhaustedMeansNoneHealthy
<1>1. Init => InTurn
  BY TurnInit
<1>2. InTurn /\ [Next]_vars => InTurn'
  BY TurnNext
<1>3. InTurn => ExhaustedMeansNoneHealthy
  BY DEF InTurn
<1> QED
  BY <1>1, <1>2, <1>3, PTL DEF Spec

(* In a round robin every healthy proxy is selected at least once in as    *)
(* many selections as there are proxies, whatever the reports and resets   *)
(* in between do to the others.                                            *)
THEOREM EveryProxyHasItsTurn ==
  ASSUME Counts
  PROVE  Spec => []NoProxyStarves
<1>1. Init => InTurn
  BY TurnInit
<1>2. InTurn /\ [Next]_vars => InTurn'
  BY TurnNext
<1>3. ASSUME InTurn
      PROVE  NoProxyStarves
  <2> SUFFICES ASSUME NEW i \in Positions
               PROVE  waiting[i] < len
    BY DEF NoProxyStarves
  <2>1. len \in Nat
    BY <1>3, LenNat DEF InTurn, Typed
  <2>2. len \in Nat \ {0}
    BY <2>1 DEF Positions
  <2>3. pool.index \in Nat /\ waiting[i] \in Nat
    BY <1>3, IndexNat DEF InTurn, Typed, TypeOK
  <2>4. Turn(pool.index, i) \in 1..len
    BY <2>2, <2>3, TurnIn DEF Turns
  <2>5. waiting[i] + Turn(pool.index, i) <= len
    BY <1>3 DEF InTurn, Rotation
  <2> QED
    BY <2>2, <2>3, <2>4, <2>5
<1> QED
  BY <1>1, <1>2, <1>3, PTL DEF Spec
=============================================================================
