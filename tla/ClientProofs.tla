---------------------------- MODULE ClientProofs ----------------------------
(***************************************************************************)
(* Ownership of connections, for any number of calls, origins and          *)
(* connections: whatever is cancelled, retried, redirected or replaced, a  *)
(* connection belongs to one call or one entry of the pool, leads to the   *)
(* origin it is used for, and rests in the pool only between exchanges.    *)
(*                                                                         *)
(* Two things strengthen the properties: what a call knows of its own      *)
(* attempts, and that the connection a call is about to put back is ready. *)
(* An action either lets go of the call's connection, gets one that nobody *)
(* has, keeps the one it has, or puts it back.                             *)
(***************************************************************************)
EXTENDS Client, TLAPS

(* A call on its first connection has been applied no more often than this *)
(* exchange was served; only a pooled first one may have been wasted.      *)
AttemptsOf(x) ==
    /\ x.pooled => x.first
    /\ x.pc = "exchange" =>
          x.applied <= (IF x.first /\ ~x.pooled THEN 1 ELSE 0)
                         + (IF x.served THEN 1 ELSE 0)
    /\ x.pc = "connect" => x.applied <= IF x.first THEN 1 ELSE 0
    /\ x.pc \in {"idle", "take", "store"} => x.applied = 0

MethodOf(x) == x.method = IF x.moved THEN "GET" ELSE x.asked

Ready(r) == ~r.busy

Attempts == \A c \in Calls : AttemptsOf(calls[c])

StoredIsReady ==
    \A c \in Calls : calls[c].pc = "store" => Ready(conns[Conn(c)])

IInv ==
    /\ TypeOK /\ Exclusive /\ RightOrigin /\ PooledIsReady
    /\ Attempts /\ MethodKept /\ StoredIsReady

-----------------------------------------------------------------------------
(* Values of a call that owns no connection *)

Owns(x) == x.pc \in {"exchange", "store"}

Loose(x) ==
    /\ x \in CallType /\ ~Owns(x) /\ x.conn = NoConn
    /\ AttemptsOf(x) /\ MethodOf(x)

(* What a call starts a hop with. *)
Starts(x, asked, method) ==
    /\ x \in CallType
    /\ x.pc = "take" /\ x.conn = NoConn /\ x.applied = 0
    /\ x.first = FALSE /\ x.pooled = FALSE /\ x.moved = FALSE
    /\ x.asked = asked /\ x.method = method

LEMMA RequestStarts ==
  ASSUME NEW origin \in Origins, NEW asked \in Methods \cup {"GET"},
         NEW method \in Methods \cup {"GET"}
  PROVE  Starts(Request(origin, asked, method), asked, method)
<1>1. Final \in Responses
  BY DEF Responses
<1> QED
  BY <1>1, ClientAssumption DEF CallType, Request, Starts

LEMMA ReturnedLoose ==
  ASSUME NEW result \in {"none", "ok", "error", "cancelled"}
  PROVE  Loose(Returned(result))
<1> DEFINE x == Request(Somewhere, "GET", "GET")
<1>1. Somewhere \in Origins
  BY ClientAssumption DEF Somewhere
<1>2. /\ x \in CallType /\ x.conn = NoConn /\ x.applied = 0
      /\ x.first = FALSE /\ x.pooled = FALSE /\ x.moved = FALSE
      /\ x.asked = "GET" /\ x.method = "GET"
  <2>1. Starts(x, "GET", "GET")
    BY <1>1, RequestStarts
  <2> HIDE DEF x
  <2> QED
    BY <2>1 DEF Starts
<1>3. Returned(result) = [x EXCEPT !.pc = "idle", !.result = result]
  BY DEF Returned
<1> HIDE DEF x
<1> DEFINE y == [x EXCEPT !.pc = "idle", !.result = result]
<1>4. y \in CallType
  BY <1>2 DEF CallType
<1>5. /\ y.pc = "idle" /\ y.conn = NoConn /\ y.applied = 0
      /\ y.pooled = FALSE /\ y.moved = FALSE
      /\ y.asked = "GET" /\ y.method = "GET"
  BY <1>2 DEF CallType
<1> QED
  BY <1>3, <1>4, <1>5 DEF Loose, Owns, AttemptsOf, MethodOf

LEMMA RequestLoose ==
  ASSUME NEW origin \in Origins, NEW method \in Methods
  PROVE  Loose(Request(origin, method, method))
<1> DEFINE x == Request(origin, method, method)
<1>1. Starts(x, method, method)
  BY RequestStarts
<1> HIDE DEF x
<1>2. Loose(x)
  BY <1>1 DEF Starts, Loose, Owns, AttemptsOf, MethodOf
<1> QED
  BY <1>2 DEF x

LEMMA HopLoose ==
  ASSUME TypeOK, MethodKept, NEW c \in Calls, NEW resp \in Redirects,
         resp.location # "bad", calls[c].redirects < MaxRedirects
  PROVE  Loose(Hop(c, resp))
<1> DEFINE moved == resp.status = "see_other"
           method == IF moved THEN "GET" ELSE calls[c].method
           x == Request(resp.location, calls[c].asked, method)
<1>1. resp.location \in Origins
  BY DEF Redirects
<1>2. /\ calls[c].redirects + 1 \in 0..MaxRedirects
      /\ calls[c].asked \in Methods \cup {"GET"}
      /\ calls[c].method \in Methods \cup {"GET"}
      /\ calls[c].moved \in BOOLEAN
  BY ClientAssumption DEF TypeOK, CallType
<1>3. calls[c].method = IF calls[c].moved THEN "GET" ELSE calls[c].asked
  BY DEF MethodKept
<1>4. method \in Methods \cup {"GET"} /\ (moved \/ calls[c].moved) \in BOOLEAN
  BY <1>2
<1>5. method = IF moved \/ calls[c].moved THEN "GET" ELSE calls[c].asked
  BY <1>2, <1>3
<1>6. Hop(c, resp) = [x EXCEPT !.redirects = calls[c].redirects + 1,
                               !.moved = moved \/ calls[c].moved]
  BY DEF Hop
<1> HIDE DEF moved, method
<1>7. /\ x \in CallType /\ x.pc = "take" /\ x.conn = NoConn /\ x.applied = 0
      /\ x.pooled = FALSE /\ x.asked = calls[c].asked /\ x.method = method
  <2>1. Starts(x, calls[c].asked, method)
    BY <1>1, <1>2, <1>4, RequestStarts
  <2> HIDE DEF x
  <2> QED
    BY <2>1 DEF Starts
<1> HIDE DEF x
<1> DEFINE n == calls[c].redirects + 1
           m == moved \/ calls[c].moved
           y == [x EXCEPT !.redirects = n, !.moved = m]
<1>8. n \in 0..MaxRedirects /\ m \in BOOLEAN
  BY <1>2, <1>4
<1> HIDE DEF n, m
<1>9. y \in CallType
  BY <1>7, <1>8 DEF CallType
<1>10. /\ y.pc = "take" /\ y.conn = NoConn /\ y.applied = 0 /\ y.pooled = FALSE
       /\ y.asked = calls[c].asked /\ y.method = method /\ y.moved = m
  BY <1>7, <1>8 DEF CallType
<1>11. method = IF m THEN "GET" ELSE calls[c].asked
  BY <1>5 DEF m
<1>12. Loose(y)
  BY <1>9, <1>10, <1>11 DEF Loose, Owns, AttemptsOf, MethodOf
<1> QED
  BY <1>6, <1>12 DEF n, m

LEMMA DecidedLoose ==
  ASSUME TypeOK, MethodKept, NEW c \in Calls, NEW resp \in Responses
  PROVE  Loose(Decided(c, resp))
<1>1. CASE ~Follows(c, resp)
  BY <1>1, ReturnedLoose DEF Decided
<1>2. CASE Follows(c, resp) /\ resp.location = "bad"
  BY <1>2, ReturnedLoose DEF Decided
<1>3. CASE Follows(c, resp) /\ resp.location # "bad"
  BY <1>3, HopLoose DEF Decided, Follows
<1> QED
  BY <1>1, <1>2, <1>3

-----------------------------------------------------------------------------
(* Kinds of steps *)

(* The facts about one call that every kind of step needs. *)
LEMMA Others ==
  ASSUME IInv, NEW c \in Calls, NEW x \in CallType, AttemptsOf(x), MethodOf(x),
         calls' = [calls EXCEPT ![c] = x]
  PROVE  /\ calls' \in [Calls -> CallType] /\ calls'[c] = x
         /\ \A d \in Calls \ {c} : calls'[d] = calls[d]
         /\ Attempts' /\ MethodKept'
<1>1. /\ calls' \in [Calls -> CallType] /\ calls'[c] = x
      /\ \A d \in Calls \ {c} : calls'[d] = calls[d]
  BY DEF IInv, TypeOK
<1>2. Attempts'
  BY <1>1 DEF IInv, Attempts
<1>3. MethodKept'
  BY <1>1 DEF IInv, MethodKept, MethodOf
<1> QED
  BY <1>1, <1>2, <1>3

(* The call lets go of the connection it has, if it has one. *)
LEMMA Release ==
  ASSUME IInv, NEW c \in Calls, NEW x, Loose(x),
         calls' = [calls EXCEPT ![c] = x],
         conns' = [k \in Conns |-> IF k = Conn(c) THEN Absent ELSE conns[k]],
         UNCHANGED pool
  PROVE  IInv'
<1>1. /\ x \in CallType /\ ~Owns(x) /\ x.conn = NoConn
      /\ AttemptsOf(x) /\ MethodOf(x)
  BY DEF Loose
<1>2. /\ calls' \in [Calls -> CallType] /\ calls'[c] = x
      /\ \A d \in Calls \ {c} : calls'[d] = calls[d]
      /\ Attempts' /\ MethodKept'
  BY <1>1, Others
<1>3. TypeOK'
  BY <1>2 DEF IInv, TypeOK
<1>4. \A d \in Calls \ {c} : Conn(d)' = Conn(d) /\ Origin(d)' = Origin(d)
  BY <1>2 DEF Conn, Origin
<1>5. \A d \in Calls \ {c} : Conn(d) # NoConn => conns'[Conn(d)] = conns[Conn(d)]
  <2> TAKE d \in Calls \ {c}
  <2> HAVE Conn(d) # NoConn
  <2>1. Conn(d) # Conn(c)
    BY DEF IInv, Exclusive
  <2>2. Conn(d) \in Conns
    BY DEF IInv, TypeOK, CallType, Conn
  <2> QED
    BY <2>1, <2>2
<1>6. \A o \in Origins : pool[o] # NoConn => conns'[pool[o]] = conns[pool[o]]
  <2> TAKE o \in Origins
  <2> HAVE pool[o] # NoConn
  <2>1. pool[o] # Conn(c)
    BY DEF IInv, Exclusive
  <2>2. pool[o] \in Conns
    BY DEF IInv, TypeOK
  <2> QED
    BY <2>1, <2>2
<1>7. Conn(c)' = NoConn
  BY <1>1, <1>2 DEF Conn
<1>8. Exclusive'
  BY <1>1, <1>2, <1>4, <1>5, <1>7 DEF IInv, Exclusive, Unused, Owns
<1>9. RightOrigin'
  BY <1>4, <1>5, <1>6, <1>7 DEF IInv, RightOrigin
<1>10. PooledIsReady'
  BY <1>6 DEF IInv, PooledIsReady, Unused, Kept
<1>11. StoredIsReady'
  <2> SUFFICES ASSUME NEW d \in Calls, calls'[d].pc = "store"
               PROVE  Ready(conns'[Conn(d)'])
    BY DEF StoredIsReady
  <2>1. d # c
    BY <1>1, <1>2 DEF Owns
  <2>2. calls[d].pc = "store"
    BY <1>2, <2>1
  <2>3. Conn(d) # NoConn
    BY <2>2 DEF IInv, Exclusive
  <2> QED
    BY <1>4, <1>5, <2>1, <2>2, <2>3 DEF IInv, StoredIsReady
<1> QED
  BY <1>2, <1>3, <1>8, <1>9, <1>10, <1>11 DEF IInv

(* The call keeps the connection it has, which changes only in itself. *)
LEMMA Keep ==
  ASSUME IInv, NEW c \in Calls, NEW x \in CallType, NEW r \in ConnType,
         Conn(c) # NoConn, Owns(x), AttemptsOf(x), MethodOf(x),
         x.conn = Conn(c), x.origin = Origin(c), r.origin = Origin(c),
         x.pc = "store" => Ready(r),
         calls' = [calls EXCEPT ![c] = x],
         conns' = [conns EXCEPT ![Conn(c)] = r],
         UNCHANGED pool
  PROVE  IInv'
<1>1. /\ calls' \in [Calls -> CallType] /\ calls'[c] = x
      /\ \A d \in Calls \ {c} : calls'[d] = calls[d]
      /\ Attempts' /\ MethodKept'
  BY Others
<1>2. Conn(c) \in Conns
  BY DEF IInv, TypeOK, CallType, Conn
<1>3. /\ conns' \in [Conns -> ConnType \cup {Absent}]
      /\ conns'[Conn(c)] = r
      /\ \A k \in Conns \ {Conn(c)} : conns'[k] = conns[k]
  BY <1>2 DEF IInv, TypeOK
<1>4. TypeOK'
  BY <1>1, <1>3 DEF IInv, TypeOK
<1>5. /\ \A d \in Calls : Conn(d)' = Conn(d) /\ Origin(d)' = Origin(d)
  BY <1>1 DEF Conn, Origin
<1>6. r # Absent
  BY DEF ConnType, Absent
<1>7. \A d \in Calls : Conn(d) # NoConn => Conn(d) \in Conns
  BY DEF IInv, TypeOK, CallType, Conn
<1>8. Exclusive'
  BY <1>1, <1>3, <1>5, <1>6, <1>7 DEF IInv, Exclusive, Unused, Owns
<1>9. \A o \in Origins : pool[o] # NoConn => conns'[pool[o]] = conns[pool[o]]
  <2> TAKE o \in Origins
  <2> HAVE pool[o] # NoConn
  <2>1. pool[o] # Conn(c)
    BY DEF IInv, Exclusive
  <2>2. pool[o] \in Conns
    BY DEF IInv, TypeOK
  <2> QED
    BY <1>3, <2>1, <2>2
<1>10. RightOrigin'
  BY <1>3, <1>5, <1>7, <1>9 DEF IInv, RightOrigin
<1>11. PooledIsReady'
  BY <1>9 DEF IInv, PooledIsReady, Unused, Kept
<1>12. StoredIsReady'
  <2> SUFFICES ASSUME NEW d \in Calls, calls'[d].pc = "store"
               PROVE  Ready(conns'[Conn(d)'])
    BY DEF StoredIsReady
  <2>1. CASE d = c
    BY <1>1, <1>3, <1>5, <2>1
  <2>2. CASE d # c
    <3>1. calls[d].pc = "store"
      BY <1>1, <2>2
    <3>2. Conn(d) # NoConn /\ Conn(d) # Conn(c)
      BY <2>2, <3>1 DEF IInv, Exclusive
    <3>3. conns'[Conn(d)] = conns[Conn(d)]
      BY <1>3, <1>7, <3>2
    <3> QED
      BY <1>5, <3>1, <3>3 DEF IInv, StoredIsReady
  <2> QED
    BY <2>1, <2>2
<1> QED
  BY <1>1, <1>4, <1>8, <1>10, <1>11, <1>12 DEF IInv

(* The call, which has none, gets a connection that nobody else has. *)
LEMMA Gain ==
  ASSUME IInv, NEW c \in Calls, NEW x \in CallType, NEW r \in ConnType,
         NEW k \in Conns, Conn(c) = NoConn,
         x.pc = "exchange", AttemptsOf(x), MethodOf(x),
         x.conn = k, x.origin = Origin(c), r.origin = Origin(c),
         \A d \in Calls : Conn(d) # k,
         \A o \in Origins : pool'[o] # k,
         \A o \in Origins : pool'[o] \in {pool[o], NoConn},
         pool' \in [Origins -> Conns \cup {NoConn}],
         calls' = [calls EXCEPT ![c] = x],
         conns' = [conns EXCEPT ![k] = r]
  PROVE  IInv'
<1>1. /\ calls' \in [Calls -> CallType] /\ calls'[c] = x
      /\ \A d \in Calls \ {c} : calls'[d] = calls[d]
      /\ Attempts' /\ MethodKept'
  BY Others
<1>2. /\ conns' \in [Conns -> ConnType \cup {Absent}]
      /\ conns'[k] = r
      /\ \A j \in Conns \ {k} : conns'[j] = conns[j]
  BY DEF IInv, TypeOK
<1>3. TypeOK'
  BY <1>1, <1>2 DEF IInv, TypeOK
<1>4. /\ \A d \in Calls \ {c} : Conn(d)' = Conn(d) /\ Origin(d)' = Origin(d)
      /\ Conn(c)' = k /\ Origin(c)' = Origin(c)
  BY <1>1 DEF Conn, Origin
<1>5. r # Absent /\ k # NoConn
  BY ClientAssumption DEF ConnType, Absent
<1>6. \A d \in Calls \ {c} : Conn(d) # NoConn => conns'[Conn(d)] = conns[Conn(d)]
  <2> TAKE d \in Calls \ {c}
  <2> HAVE Conn(d) # NoConn
  <2>1. Conn(d) \in Conns
    BY DEF IInv, TypeOK, CallType, Conn
  <2> QED
    BY <1>2, <2>1
<1>7. \A o \in Origins : pool'[o] # NoConn =>
         pool'[o] = pool[o] /\ conns'[pool'[o]] = conns[pool[o]]
  <2> TAKE o \in Origins
  <2> HAVE pool'[o] # NoConn
  <2>1. pool'[o] = pool[o] /\ pool'[o] # k /\ pool'[o] \in Conns
    OBVIOUS
  <2> QED
    BY <1>2, <2>1
<1>8. Exclusive'
  <2>1. \A d \in Calls : calls'[d].pc \in {"exchange", "store"} <=> Conn(d)' # NoConn
    BY <1>1, <1>4, <1>5 DEF IInv, Exclusive
  <2>2. \A d \in Calls : Conn(d)' # NoConn => conns'[Conn(d)'] # Absent
    BY <1>2, <1>4, <1>5, <1>6 DEF IInv, Exclusive, Unused
  <2>3. \A d \in Calls : \A e \in Calls \ {d} :
           Conn(d)' # NoConn => Conn(e)' # Conn(d)'
    BY <1>4 DEF IInv, Exclusive
  <2>4. \A d \in Calls : \A o \in Origins : Conn(d)' # NoConn => pool'[o] # Conn(d)'
    BY <1>4 DEF IInv, Exclusive
  <2>5. \A o, p \in Origins : pool'[o] = pool'[p] /\ pool'[o] # NoConn => o = p
    BY <1>7 DEF IInv, Exclusive
  <2> QED
    BY <2>1, <2>2, <2>3, <2>4, <2>5 DEF Exclusive, Unused
<1>9. RightOrigin'
  BY <1>2, <1>4, <1>6, <1>7 DEF IInv, RightOrigin
<1>10. PooledIsReady'
  BY <1>7 DEF IInv, PooledIsReady, Unused, Kept
<1>11. StoredIsReady'
  <2> SUFFICES ASSUME NEW d \in Calls, calls'[d].pc = "store"
               PROVE  Ready(conns'[Conn(d)'])
    BY DEF StoredIsReady
  <2>1. d # c /\ calls[d].pc = "store"
    BY <1>1
  <2>2. Conn(d) # NoConn
    BY <2>1 DEF IInv, Exclusive
  <2> QED
    BY <1>4, <1>6, <2>1, <2>2 DEF IInv, StoredIsReady
<1> QED
  BY <1>1, <1>3, <1>8, <1>9, <1>10, <1>11 DEF IInv

(* The call puts its connection back; the entry it replaces is dropped. *)
LEMMA PutBack ==
  ASSUME IInv, NEW c \in Calls, NEW x, Loose(x), calls[c].pc = "store",
         calls' = [calls EXCEPT ![c] = x],
         conns' = [k \in Conns |-> IF k = pool[Origin(c)] THEN Absent ELSE conns[k]],
         pool' = [pool EXCEPT ![Origin(c)] = Conn(c)]
  PROVE  IInv'
<1>1. /\ x \in CallType /\ ~Owns(x) /\ x.conn = NoConn
      /\ AttemptsOf(x) /\ MethodOf(x)
  BY DEF Loose
<1>2. /\ calls' \in [Calls -> CallType] /\ calls'[c] = x
      /\ \A d \in Calls \ {c} : calls'[d] = calls[d]
      /\ Attempts' /\ MethodKept'
  BY <1>1, Others
<1>3. Conn(c) \in Conns /\ Conn(c) # NoConn /\ Origin(c) \in Origins
  BY DEF IInv, TypeOK, CallType, Conn, Origin, Exclusive
<1>4. /\ pool' \in [Origins -> Conns \cup {NoConn}]
      /\ pool'[Origin(c)] = Conn(c)
      /\ \A o \in Origins \ {Origin(c)} : pool'[o] = pool[o]
  BY <1>3 DEF IInv, TypeOK
<1>5. TypeOK'
  BY <1>2, <1>4 DEF IInv, TypeOK
<1>6. /\ \A d \in Calls \ {c} : Conn(d)' = Conn(d) /\ Origin(d)' = Origin(d)
      /\ Conn(c)' = NoConn
  BY <1>1, <1>2 DEF Conn, Origin
<1>7. \A d \in Calls : Conn(d) # NoConn => conns'[Conn(d)] = conns[Conn(d)]
  <2> TAKE d \in Calls
  <2> HAVE Conn(d) # NoConn
  <2>1. pool[Origin(c)] # Conn(d)
    BY <1>3 DEF IInv, Exclusive
  <2>2. Conn(d) \in Conns
    BY DEF IInv, TypeOK, CallType, Conn
  <2> QED
    BY <2>1, <2>2
<1>8. \A o \in Origins \ {Origin(c)} : pool[o] # NoConn =>
         conns'[pool[o]] = conns[pool[o]]
  <2> TAKE o \in Origins \ {Origin(c)}
  <2> HAVE pool[o] # NoConn
  <2>1. pool[o] # pool[Origin(c)]
    BY <1>3 DEF IInv, Exclusive
  <2>2. pool[o] \in Conns
    BY DEF IInv, TypeOK
  <2> QED
    BY <2>1, <2>2
<1>9. Exclusive'
  <2>1. \A d \in Calls : calls'[d].pc \in {"exchange", "store"} <=> Conn(d)' # NoConn
    BY <1>1, <1>2, <1>6 DEF IInv, Exclusive, Owns
  <2>2. \A d \in Calls : Conn(d)' # NoConn => conns'[Conn(d)'] # Absent
    BY <1>6, <1>7 DEF IInv, Exclusive, Unused
  <2>3. \A d \in Calls : \A e \in Calls \ {d} :
           Conn(d)' # NoConn => Conn(e)' # Conn(d)'
    BY <1>6 DEF IInv, Exclusive
  <2>4. \A d \in Calls : \A o \in Origins : Conn(d)' # NoConn => pool'[o] # Conn(d)'
    BY <1>3, <1>4, <1>6 DEF IInv, Exclusive
  <2>5. \A o, p \in Origins : pool'[o] = pool'[p] /\ pool'[o] # NoConn => o = p
    BY <1>3, <1>4 DEF IInv, Exclusive
  <2> QED
    BY <2>1, <2>2, <2>3, <2>4, <2>5 DEF Exclusive, Unused
<1>10. RightOrigin'
  <2>1. conns'[Conn(c)].origin = Origin(c)
    BY <1>3, <1>7 DEF IInv, RightOrigin
  <2>2. \A d \in Calls : Conn(d)' # NoConn => conns'[Conn(d)'].origin = Origin(d)'
    BY <1>6, <1>7 DEF IInv, RightOrigin
  <2>3. \A o \in Origins : pool'[o] # NoConn => conns'[pool'[o]].origin = o
    BY <1>4, <1>8, <2>1 DEF IInv, RightOrigin
  <2> QED
    BY <2>2, <2>3 DEF RightOrigin
<1>11. PooledIsReady'
  <2>1. conns'[Conn(c)] # Absent /\ Ready(conns'[Conn(c)])
    BY <1>3, <1>7 DEF IInv, StoredIsReady, Exclusive, Unused
  <2>2. \A o \in Origins : pool'[o] # NoConn =>
           conns'[pool'[o]] # Absent /\ Ready(conns'[pool'[o]])
    BY <1>4, <1>8, <2>1 DEF IInv, PooledIsReady, Unused, Kept, Ready
  <2> QED
    BY <2>2 DEF PooledIsReady, Unused, Kept, Ready
<1>12. StoredIsReady'
  <2> SUFFICES ASSUME NEW d \in Calls, calls'[d].pc = "store"
               PROVE  Ready(conns'[Conn(d)'])
    BY DEF StoredIsReady
  <2>1. d # c /\ calls[d].pc = "store"
    BY <1>1, <1>2 DEF Owns
  <2>2. Conn(d) # NoConn
    BY <2>1 DEF IInv, Exclusive
  <2> QED
    BY <1>6, <1>7, <2>1, <2>2 DEF IInv, StoredIsReady
<1> QED
  BY <1>2, <1>5, <1>9, <1>10, <1>11, <1>12 DEF IInv

-----------------------------------------------------------------------------
(* Steps *)

(* What a call has before any of its steps. *)
LEMMA CallFacts ==
  ASSUME IInv, NEW c \in Calls
  PROVE  /\ calls[c] \in CallType /\ AttemptsOf(calls[c]) /\ MethodOf(calls[c])
         /\ Owns(calls[c]) <=> Conn(c) # NoConn
         /\ Conn(c) # NoConn => /\ Conn(c) \in Conns
                                /\ conns[Conn(c)] \in ConnType
                                /\ conns[Conn(c)].origin = Origin(c)
         /\ Origin(c) \in Origins
<1>1. calls[c] \in CallType /\ AttemptsOf(calls[c]) /\ MethodOf(calls[c])
  BY DEF IInv, TypeOK, Attempts, MethodKept, MethodOf
<1>2. Owns(calls[c]) <=> Conn(c) # NoConn
  BY DEF IInv, Exclusive, Owns
<1>3. ASSUME Conn(c) # NoConn
      PROVE  /\ Conn(c) \in Conns /\ conns[Conn(c)] \in ConnType
             /\ conns[Conn(c)].origin = Origin(c)
  <2>1. Conn(c) \in Conns
    BY <1>1, <1>3 DEF CallType, Conn
  <2> QED
    BY <1>3, <2>1 DEF IInv, TypeOK, Exclusive, RightOrigin, Unused
<1> QED
  BY <1>1, <1>2, <1>3 DEF CallType, Origin

LEMMA SendStep ==
  ASSUME IInv, NEW c \in Calls, send(c)
  PROVE  IInv'
<1>1. PICK origin \in Origins, method \in Methods :
         calls' = [calls EXCEPT ![c] = Request(origin, method, method)]
  BY DEF send, Set
<1>2. Conn(c) = NoConn
  BY CallFacts DEF send, Owns
<1>3. conns' = [k \in Conns |-> IF k = Conn(c) THEN Absent ELSE conns[k]]
  BY <1>2, ClientAssumption DEF send, IInv, TypeOK
<1>4. Loose(Request(origin, method, method))
  BY RequestLoose
<1> QED
  BY <1>1, <1>3, <1>4, Release DEF send

LEMMA ConnectFailsStep ==
  ASSUME IInv, NEW c \in Calls, ConnectFails(c)
  PROVE  IInv'
<1>1. Conn(c) = NoConn
  BY CallFacts DEF ConnectFails, Owns
<1>2. conns' = [k \in Conns |-> IF k = Conn(c) THEN Absent ELSE conns[k]]
  BY <1>1, ClientAssumption DEF ConnectFails, IInv, TypeOK
<1>3. Loose(Returned("error"))
  BY ReturnedLoose
<1> QED
  BY <1>2, <1>3, Release DEF ConnectFails, Set

LEMMA CancelStep ==
  ASSUME IInv, NEW c \in Calls, Cancel(c)
  PROVE  IInv'
<1>1. Loose(Returned("cancelled"))
  BY ReturnedLoose
<1> QED
  BY <1>1, Release DEF Cancel, Set

LEMMA ApplyStep ==
  ASSUME IInv, NEW c \in Calls, Apply(c)
  PROVE  IInv'
<1>1. PICK closing \in BOOLEAN :
         conns' = [conns EXCEPT ![Conn(c)].closing = closing]
  BY DEF Apply
<1> DEFINE x == [calls[c] EXCEPT !.served = TRUE, !.applied = @ + 1]
           r == [conns[Conn(c)] EXCEPT !.closing = closing]
<1>2. calls[c].pc = "exchange" /\ ~calls[c].served /\ pool' = pool
  BY DEF Apply
<1>3. calls[c] \in CallType /\ AttemptsOf(calls[c]) /\ MethodOf(calls[c])
  BY CallFacts
<1>4. /\ Conn(c) # NoConn /\ Conn(c) \in Conns
      /\ conns[Conn(c)] \in ConnType /\ conns[Conn(c)].origin = Origin(c)
  BY <1>2, CallFacts DEF Owns
<1>5. calls' = [calls EXCEPT ![c] = x]
  BY DEF Apply, Set
<1>6. conns' = [conns EXCEPT ![Conn(c)] = r]
  BY <1>1
<1>7. /\ x \in CallType /\ Owns(x) /\ x.pc = "exchange"
      /\ x.conn = Conn(c) /\ x.origin = Origin(c)
  <2>1. calls[c].applied + 1 \in Nat
    BY <1>3 DEF CallType
  <2>2. x \in CallType
    BY <1>3, <2>1 DEF CallType
  <2> QED
    BY <1>2, <1>3, <2>2 DEF CallType, Owns, Conn, Origin
<1>8. r \in ConnType /\ r.origin = Origin(c)
  BY <1>4 DEF ConnType
<1>9. AttemptsOf(x) /\ MethodOf(x)
  BY <1>2, <1>3 DEF AttemptsOf, MethodOf, CallType
<1> HIDE DEF x, r
<1> QED
  BY <1>2, <1>4, <1>5, <1>6, <1>7, <1>8, <1>9, Keep

LEMMA TakePooledStep ==
  ASSUME IInv, NEW c \in Calls, TakePooled(c)
  PROVE  IInv'
<1> DEFINE k == pool[Origin(c)]
<1>1. calls[c].pc = "take"
  BY DEF TakePooled
<1>2. /\ calls[c] \in CallType /\ AttemptsOf(calls[c]) /\ MethodOf(calls[c])
      /\ Conn(c) = NoConn /\ Origin(c) \in Origins
  BY <1>1, CallFacts DEF Owns
<1>3. CASE k = NoConn
  <2> DEFINE x == [calls[c] EXCEPT !.pc = "connect"]
  <2>1. x \in CallType /\ x.pc = "connect" /\ x.conn = NoConn
    BY <1>2 DEF CallType, Conn
  <2>2. AttemptsOf(x) /\ MethodOf(x)
    BY <1>1, <1>2 DEF AttemptsOf, MethodOf, CallType
  <2>3. calls' = [calls EXCEPT ![c] = x] /\ conns' = conns
    BY <1>3 DEF TakePooled, Set
  <2>4. pool' = pool
    BY <1>2, <1>3 DEF TakePooled, IInv, TypeOK
  <2>5. conns' = [j \in Conns |-> IF j = Conn(c) THEN Absent ELSE conns[j]]
    BY <1>2, <2>3, ClientAssumption DEF IInv, TypeOK
  <2> HIDE DEF x
  <2>6. Loose(x)
    BY <2>1, <2>2 DEF Loose, Owns
  <2> QED
    BY <2>3, <2>4, <2>5, <2>6, Release
<1>4. CASE k # NoConn
  <2> DEFINE x == [calls[c] EXCEPT !.pc = "exchange", !.conn = k,
                      !.first = TRUE, !.pooled = TRUE]
             r == [conns[k] EXCEPT !.busy = TRUE]
  <2>1. k \in Conns /\ conns[k] \in ConnType /\ conns[k].origin = Origin(c)
    BY <1>2, <1>4 DEF IInv, TypeOK, PooledIsReady, RightOrigin, Unused
  <2>2. r \in ConnType /\ r.origin = Origin(c)
    BY <2>1 DEF ConnType
  <2>3. /\ calls' = [calls EXCEPT ![c] = x]
        /\ conns' = [conns EXCEPT ![k] = r]
        /\ pool' = [pool EXCEPT ![Origin(c)] = NoConn]
    BY <1>4 DEF TakePooled, Set
  <2>4. \A d \in Calls : Conn(d) # k
    BY <1>2, <1>4 DEF IInv, Exclusive
  <2>5. /\ pool' \in [Origins -> Conns \cup {NoConn}]
        /\ \A o \in Origins : pool'[o] \in {pool[o], NoConn}
    BY <2>3 DEF IInv, TypeOK
  <2>6. \A o \in Origins : pool'[o] # k
    BY <1>2, <1>4, <2>3 DEF IInv, TypeOK, Exclusive
  <2> HIDE DEF k
  <2>7. /\ x \in CallType /\ x.pc = "exchange" /\ x.conn = k
        /\ x.origin = Origin(c)
    BY <1>2, <2>1 DEF CallType, Origin
  <2>8. AttemptsOf(x) /\ MethodOf(x)
    BY <1>1, <1>2 DEF AttemptsOf, MethodOf, CallType
  <2> HIDE DEF x, r
  <2> QED
    BY <1>2, <2>1, <2>2, <2>3, <2>4, <2>5, <2>6, <2>7, <2>8, Gain
<1> QED
  BY <1>3, <1>4

LEMMA NewConnectionStep ==
  ASSUME IInv, NEW c \in Calls, new_connection(c)
  PROVE  IInv'
<1>1. PICK proto \in {"h1", "h2"}, k \in Conns :
         /\ Unused(k)
         /\ conns' = [conns EXCEPT ![k] =
                        [origin |-> Origin(c), proto |-> proto,
                         busy |-> TRUE, closing |-> FALSE]]
         /\ calls' = [calls EXCEPT ![c] =
                        [calls[c] EXCEPT !.pc = "exchange", !.conn = k,
                           !.pooled = FALSE, !.served = FALSE]]
  BY DEF new_connection, Set
<1> DEFINE x == [calls[c] EXCEPT !.pc = "exchange", !.conn = k,
                    !.pooled = FALSE, !.served = FALSE]
           r == [origin |-> Origin(c), proto |-> proto,
                 busy |-> TRUE, closing |-> FALSE]
<1>2. calls[c].pc = "connect" /\ pool' = pool
  BY DEF new_connection
<1>3. /\ calls[c] \in CallType /\ AttemptsOf(calls[c]) /\ MethodOf(calls[c])
      /\ Conn(c) = NoConn /\ Origin(c) \in Origins
  BY <1>2, CallFacts DEF Owns
<1>4. r \in ConnType /\ r.origin = Origin(c)
  BY <1>3 DEF ConnType
<1>5. k # NoConn
  BY ClientAssumption
<1>6. \A d \in Calls : Conn(d) # k
  BY <1>1, <1>5 DEF IInv, Exclusive
<1>7. \A o \in Origins : pool'[o] # k
  BY <1>1, <1>2, <1>5 DEF IInv, PooledIsReady
<1>8. /\ pool' \in [Origins -> Conns \cup {NoConn}]
      /\ \A o \in Origins : pool'[o] \in {pool[o], NoConn}
  BY <1>2 DEF IInv, TypeOK
<1>9. /\ x \in CallType /\ x.pc = "exchange" /\ x.conn = k
      /\ x.origin = Origin(c)
  BY <1>3 DEF CallType, Origin
<1>10. AttemptsOf(x) /\ MethodOf(x)
  BY <1>2, <1>3 DEF AttemptsOf, MethodOf, CallType
<1>11. calls' = [calls EXCEPT ![c] = x] /\ conns' = [conns EXCEPT ![k] = r]
  BY <1>1
<1> HIDE DEF x, r
<1> QED
  BY <1>3, <1>4, <1>6, <1>7, <1>8, <1>9, <1>10, <1>11, Gain

(* A call drops its connection and goes on as x. *)
LEMMA DropStep ==
  ASSUME IInv, NEW c \in Calls, Conn(c) # NoConn, NEW x, Loose(x),
         calls' = [calls EXCEPT ![c] = x],
         conns' = [conns EXCEPT ![Conn(c)] = Absent],
         UNCHANGED pool
  PROVE  IInv'
<1>1. conns' = [k \in Conns |-> IF k = Conn(c) THEN Absent ELSE conns[k]]
  BY DEF IInv, TypeOK
<1> QED
  BY <1>1, Release

LEMMA AnsweredStep ==
  ASSUME IInv, NEW c \in Calls, NEW resp \in Responses, Answered(c, resp)
  PROVE  IInv'
<1>1. calls[c].pc = "exchange" /\ pool' = pool
  BY DEF Answered
<1>2. calls[c] \in CallType /\ AttemptsOf(calls[c]) /\ MethodOf(calls[c])
  BY CallFacts
<1>3. /\ Conn(c) # NoConn /\ Conn(c) \in Conns
      /\ conns[Conn(c)] \in ConnType /\ conns[Conn(c)].origin = Origin(c)
  BY <1>1, CallFacts DEF Owns
<1>4. CASE Kept(Conn(c))
  <2> DEFINE x == Storing(c, resp)
             r == [conns[Conn(c)] EXCEPT !.busy = FALSE]
  <2>1. calls' = [calls EXCEPT ![c] = x] /\ conns' = [conns EXCEPT ![Conn(c)] = r]
    BY <1>4 DEF Answered, Set
  <2>2. /\ x \in CallType /\ x.pc = "store" /\ x.conn = Conn(c)
        /\ x.origin = Origin(c)
    BY <1>2 DEF CallType, Storing, Conn, Origin
  <2>3. AttemptsOf(x) /\ MethodOf(x)
    BY <1>2 DEF AttemptsOf, MethodOf, CallType, Storing
  <2>4. r \in ConnType /\ r.origin = Origin(c)
    BY <1>3 DEF ConnType
  <2>5. Ready(r)
    BY <1>3, <1>4 DEF Ready, Kept, ConnType
  <2> HIDE DEF x, r
  <2> QED
    BY <1>1, <1>3, <2>1, <2>2, <2>3, <2>4, <2>5, Keep DEF Owns
<1>5. CASE ~Kept(Conn(c))
  <2>1. Loose(Decided(c, resp))
    BY DecidedLoose DEF IInv
  <2>2. /\ calls' = [calls EXCEPT ![c] = Decided(c, resp)]
        /\ conns' = [conns EXCEPT ![Conn(c)] = Absent]
    BY <1>5 DEF Answered, Set
  <2> QED
    BY <1>1, <1>3, <2>1, <2>2, DropStep
<1> QED
  BY <1>4, <1>5

LEMMA ExchangeFailsStep ==
  ASSUME IInv, NEW c \in Calls, ExchangeFails(c)
  PROVE  IInv'
<1>1. calls[c].pc = "exchange" /\ pool' = pool
  BY DEF ExchangeFails
<1>2. /\ calls[c] \in CallType /\ AttemptsOf(calls[c]) /\ MethodOf(calls[c])
      /\ Conn(c) # NoConn
  BY <1>1, CallFacts DEF Owns
<1>3. conns' = [conns EXCEPT ![Conn(c)] = Absent]
  BY DEF ExchangeFails
<1>4. CASE calls[c].pooled /\ conns[Conn(c)].proto = "h2"
  <2> DEFINE x == [calls[c] EXCEPT !.pc = "connect", !.conn = NoConn]
  <2>1. calls' = [calls EXCEPT ![c] = x]
    BY <1>4 DEF ExchangeFails, Set
  <2>2. x \in CallType /\ x.pc = "connect" /\ x.conn = NoConn
    BY <1>2 DEF CallType
  <2>3. AttemptsOf(x) /\ MethodOf(x)
    BY <1>1, <1>2, <1>4 DEF AttemptsOf, MethodOf, CallType
  <2> HIDE DEF x
  <2>4. Loose(x)
    BY <2>2, <2>3 DEF Loose, Owns
  <2> QED
    BY <1>1, <1>2, <1>3, <2>1, <2>4, DropStep
<1>5. CASE ~(calls[c].pooled /\ conns[Conn(c)].proto = "h2")
  <2>1. calls' = [calls EXCEPT ![c] = Returned("error")]
    BY <1>5 DEF ExchangeFails, Set
  <2>2. Loose(Returned("error"))
    BY ReturnedLoose
  <2> QED
    BY <1>1, <1>2, <1>3, <2>1, <2>2, DropStep
<1> QED
  BY <1>4, <1>5

LEMMA StoreStep ==
  ASSUME IInv, NEW c \in Calls, Store(c)
  PROVE  IInv'
<1>1. calls[c].resp \in Responses
  BY CallFacts DEF CallType
<1>2. Loose(Decided(c, calls[c].resp))
  BY <1>1, DecidedLoose DEF IInv
<1> QED
  BY <1>2, PutBack DEF Store, Set

LEMMA StutterStep ==
  ASSUME IInv, UNCHANGED vars
  PROVE  IInv'
BY DEF IInv, vars, TypeOK, Exclusive, RightOrigin, PooledIsReady, Attempts,
       MethodKept, StoredIsReady, Conn, Origin, Unused, Kept

-----------------------------------------------------------------------------
(* The invariant *)

LEMMA InitInv ==
  ASSUME Init
  PROVE  IInv
<1> DEFINE x == Returned("none")
<1>1. Loose(x)
  BY ReturnedLoose
<1>2. /\ calls \in [Calls -> CallType]
      /\ \A c \in Calls : calls[c] = x
  BY <1>1 DEF Init, Loose
<1> HIDE DEF x
<1>3. /\ conns \in [Conns -> ConnType \cup {Absent}]
      /\ pool \in [Origins -> Conns \cup {NoConn}]
      /\ \A o \in Origins : pool[o] = NoConn
  BY DEF Init
<1>4. \A c \in Calls : ~Owns(calls[c]) /\ Conn(c) = NoConn
  BY <1>1, <1>2 DEF Loose, Conn
<1>5. TypeOK
  BY <1>2, <1>3 DEF TypeOK
<1>6. Exclusive
  BY <1>3, <1>4 DEF Exclusive, Owns
<1>7. RightOrigin /\ PooledIsReady
  BY <1>3, <1>4 DEF RightOrigin, PooledIsReady
<1>8. Attempts /\ MethodKept
  BY <1>1, <1>2 DEF Attempts, MethodKept, MethodOf, Loose
<1>9. StoredIsReady
  BY <1>4 DEF StoredIsReady, Owns
<1> QED
  BY <1>5, <1>6, <1>7, <1>8, <1>9 DEF IInv

LEMMA NextInv ==
  ASSUME IInv, [Next]_vars
  PROVE  IInv'
<1>1. ASSUME NEW c \in Calls, execute_single_with_method(c)
      PROVE  IInv'
  <2>1. CASE TakePooled(c)
    BY <2>1, TakePooledStep
  <2>2. CASE new_connection(c)
    BY <2>2, NewConnectionStep
  <2>3. CASE ConnectFails(c)
    BY <2>3, ConnectFailsStep
  <2>4. CASE \E resp \in Responses : Answered(c, resp)
    BY <2>4, AnsweredStep
  <2>5. CASE ExchangeFails(c)
    BY <2>5, ExchangeFailsStep
  <2>6. CASE Store(c)
    BY <2>6, StoreStep
  <2> QED
    BY <1>1, <2>1, <2>2, <2>3, <2>4, <2>5, <2>6 DEF execute_single_with_method
<1>2. ASSUME NEW c \in Calls, send(c)
      PROVE  IInv'
  BY <1>2, SendStep
<1>3. ASSUME NEW c \in Calls, Cancel(c)
      PROVE  IInv'
  BY <1>3, CancelStep
<1>4. ASSUME NEW c \in Calls, Apply(c)
      PROVE  IInv'
  BY <1>4, ApplyStep
<1>5. CASE UNCHANGED vars
  BY <1>5, StutterStep
<1> QED
  BY <1>1, <1>2, <1>3, <1>4, <1>5 DEF Next

(* The invariant holds in every state a client's calls can reach. *)
THEOREM Inductive == Spec => []IInv
<1>1. Init => IInv
  BY InitInv
<1>2. IInv /\ [Next]_vars => IInv'
  BY NextInv
<1> QED
  BY <1>1, <1>2, PTL DEF Spec

(* The locals of every call, the connections and the pool have their       *)
(* types; no call has followed more redirects than it may.                 *)
THEOREM TypeCorrect == Spec => []TypeOK
<1>1. IInv => TypeOK
  BY DEF IInv
<1> QED
  BY <1>1, Inductive, PTL

(* No two calls, no two keys of the pool, and no call and a key, share a   *)
(* connection: remove takes the entry out, and insert puts back what only  *)
(* the call holds.                                                         *)
THEOREM ConnectionsExclusive == Spec => []Exclusive
<1>1. IInv => Exclusive
  BY DEF IInv
<1> QED
  BY <1>1, Inductive, PTL

(* A request goes out on a connection that leads to its own origin,        *)
(* whatever redirects the call has followed before.                        *)
THEOREM LeadsRight == Spec => []RightOrigin
<1>1. IInv => RightOrigin
  BY DEF IInv
<1> QED
  BY <1>1, Inductive, PTL

(* No connection in the pool was abandoned, or failed, in mid-exchange.    *)
THEOREM PoolReady == Spec => []PooledIsReady
<1>1. IInv => PooledIsReady
  BY DEF IInv
<1> QED
  BY <1>1, Inductive, PTL

(* The retry after a failed pooled exchange makes a server act on a hop's  *)
(* request at most twice, and once if the hop began on a new connection.   *)
THEOREM AppliedTwice == Spec => []AppliedAtMostTwice
<1>1. IInv => AppliedAtMostTwice
  <2> SUFFICES ASSUME IInv, NEW c \in Calls
               PROVE  calls[c].applied <= IF calls[c].first THEN 2 ELSE 1
    BY DEF AppliedAtMostTwice
  <2>1. calls[c] \in CallType /\ AttemptsOf(calls[c])
    BY CallFacts
  <2> QED
    BY <2>1 DEF AttemptsOf, CallType
<1> QED
  BY <1>1, Inductive, PTL

(* The method of every hop is the one asked for, until a 301, 302 or 303   *)
(* was followed, and GET ever after.                                       *)
THEOREM MethodsKept == Spec => []MethodKept
<1>1. IInv => MethodKept
  BY DEF IInv
<1> QED
  BY <1>1, Inductive, PTL
=============================================================================
