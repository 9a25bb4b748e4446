------------------------------- MODULE Client -------------------------------
(***************************************************************************)
(* crates/client: concurrent calls of RequestBuilder::send that share one  *)
(* Client and so one connection pool.  A call takes the pooled connection  *)
(* of its origin out of the pool or opens a new one, runs one exchange on  *)
(* it, puts it back, and follows redirects.                                *)
(*                                                                         *)
(* An action ends where the code awaits: the pool's lock, the connection   *)
(* set-up, the exchange.  What happens on the wire during an exchange is   *)
(* the subject of Http1 and H2Connection; here it ends in a response or in *)
(* an error, before or after the server has acted on the request.          *)
(***************************************************************************)
EXTENDS Naturals, FiniteSets

CONSTANTS
    Calls,          \* tasks that call send, each for one request after another
    Origins,        \* host:port pairs, the keys of the pool
    Methods,        \* methods of the requests callers make
    Conns,          \* connections, enough for every call and every pool entry
    NoConn,
    MaxRedirects    \* max_redirects; 0 turns redirects off

ASSUME ClientAssumption ==
    /\ NoConn \notin Conns /\ Origins # {}
    /\ MaxRedirects \in Nat

ASSUME EnoughConns ==
    /\ IsFiniteSet(Conns) /\ IsFiniteSet(Calls) /\ IsFiniteSet(Origins)
    /\ Cardinality(Conns) >= Cardinality(Calls) + Cardinality(Origins)

VARIABLES
    calls,    \* the locals of each send and of its execute_single_with_method
    conns,    \* the connections that exist
    pool      \* Client::pool

vars == <<calls, conns, pool>>

-----------------------------------------------------------------------------
(* Data *)

(* A redirect is a 301, 302 or 303 ("see_other") or a 307 or 308           *)
(* ("preserve") with a Location, which the URL parser may reject ("bad").  *)
Redirects == [status: {"see_other", "preserve"}, location: Origins \cup {"bad"}]

(* Any other status, or no Location. *)
Final == [status |-> "final", location |-> "none"]
Responses == Redirects \cup {Final}

Absent == [proto |-> "none"]
Somewhere == CHOOSE o \in Origins : TRUE

(* `first' and `pooled' say whether the hop's first exchange and its last  *)
(* one run on a pooled connection.  `served' and `applied' are what the    *)
(* servers did: with this exchange, and how often with this hop's request. *)
Request(origin, asked, method) ==
    [pc |-> "take", origin |-> origin, asked |-> asked, method |-> method,
     redirects |-> 0, conn |-> NoConn, first |-> FALSE, pooled |-> FALSE,
     served |-> FALSE, applied |-> 0, moved |-> FALSE, resp |-> Final,
     result |-> "none"]

Origin(c) == calls[c].origin
Conn(c) == calls[c].conn
Unused(k) == conns[k] = Absent

Set(c, call) == calls' = [calls EXCEPT ![c] = call]

(* The call comes back to its caller; what it owned is dropped. *)
Returned(result) ==
    [Request(Somewhere, "GET", "GET") EXCEPT !.pc = "idle", !.result = result]

-----------------------------------------------------------------------------
(* Redirects *)

(* Mutant: one redirect more than allowed. *)
FollowsOneMore(c, resp) ==
    /\ MaxRedirects > 0 /\ calls[c].redirects <= MaxRedirects
    /\ resp \in Redirects

Follows(c, resp) ==
    /\ MaxRedirects > 0 /\ calls[c].redirects < MaxRedirects
    /\ resp \in Redirects

(* Mutants: the hop starts from the method of the request, or is not       *)
(* counted.                                                                *)
HopFromAsked(c, resp) ==
    LET moved == resp.status = "see_other"
        method == IF moved THEN "GET" ELSE calls[c].asked
    IN [Request(resp.location, calls[c].asked, method) EXCEPT
          !.redirects = calls[c].redirects + 1, !.moved = moved \/ calls[c].moved]
HopUncounted(c, resp) ==
    LET moved == resp.status = "see_other"
        method == IF moved THEN "GET" ELSE calls[c].method
    IN [Request(resp.location, calls[c].asked, method) EXCEPT
          !.redirects = calls[c].redirects, !.moved = moved \/ calls[c].moved]

(* `moved' remembers that a 301, 302 or 303 was followed. *)
Hop(c, resp) ==
    LET moved == resp.status = "see_other"
        method == IF moved THEN "GET" ELSE calls[c].method
    IN [Request(resp.location, calls[c].asked, method) EXCEPT
          !.redirects = calls[c].redirects + 1, !.moved = moved \/ calls[c].moved]

(* What send makes of a response. *)
Decided(c, resp) ==
    IF ~Follows(c, resp) THEN Returned("ok")
    ELSE IF resp.location = "bad" THEN Returned("error")
    ELSE Hop(c, resp)

-----------------------------------------------------------------------------
(* One hop *)

send(c) ==
    /\ calls[c].pc = "idle"
    /\ \E origin \in Origins, method \in Methods :
          Set(c, Request(origin, method, method))
    /\ UNCHANGED <<conns, pool>>

(* Mutant: the entry stays in the pool. *)
TakeShared(c) ==
    /\ calls[c].pc = "take"
    /\ LET k == pool[Origin(c)] IN
       IF k = NoConn
       THEN Set(c, [calls[c] EXCEPT !.pc = "connect"]) /\ UNCHANGED conns
       ELSE /\ Set(c, [calls[c] EXCEPT !.pc = "exchange", !.conn = k,
                          !.first = TRUE, !.pooled = TRUE])
            /\ conns' = [conns EXCEPT ![k].busy = TRUE]
    /\ UNCHANGED pool

(* remove takes the entry out, so no other call can meet it. *)
TakePooled(c) ==
    /\ calls[c].pc = "take"
    /\ LET k == pool[Origin(c)] IN
       IF k = NoConn
       THEN Set(c, [calls[c] EXCEPT !.pc = "connect"]) /\ UNCHANGED conns
       ELSE /\ Set(c, [calls[c] EXCEPT !.pc = "exchange", !.conn = k,
                          !.first = TRUE, !.pooled = TRUE])
            /\ conns' = [conns EXCEPT ![k].busy = TRUE]
    /\ pool' = [pool EXCEPT ![Origin(c)] = NoConn]

(* TCP or tunnel, TLS, ALPN and, for HTTP/2, the handshake; the request is *)
(* sent on the new connection.                                             *)
new_connection(c) ==
    /\ calls[c].pc = "connect"
    /\ \E proto \in {"h1", "h2"}, k \in Conns :
          /\ Unused(k)
          /\ conns' = [conns EXCEPT ![k] =
                         [origin |-> Origin(c), proto |-> proto,
                          busy |-> TRUE, closing |-> FALSE]]
          /\ Set(c, [calls[c] EXCEPT !.pc = "exchange", !.conn = k,
                        !.pooled = FALSE, !.served = FALSE])
    /\ UNCHANGED pool

ConnectFails(c) ==
    /\ calls[c].pc = "connect"
    /\ Set(c, Returned("error"))
    /\ UNCHANGED <<conns, pool>>

(* The response is there; the connection waits to be put back. *)
Storing(c, resp) ==
    [calls[c] EXCEPT !.pc = "store", !.resp = resp,
        !.first = FALSE, !.pooled = FALSE, !.served = FALSE, !.applied = 0]

(* HTTP/2 connections are always kept, HTTP/1.1 ones unless the response   *)
(* says that the server closes them after it.                              *)
Kept(k) == conns[k].proto = "h2" \/ ~conns[k].closing

Answered(c, resp) ==
    /\ calls[c].pc = "exchange" /\ calls[c].served
    /\ IF Kept(Conn(c))
       THEN /\ Set(c, Storing(c, resp))
            /\ conns' = [conns EXCEPT ![Conn(c)].busy = FALSE]
       ELSE /\ Set(c, Decided(c, resp))
            /\ conns' = [conns EXCEPT ![Conn(c)] = Absent]
    /\ UNCHANGED pool

(* Mutant: a fresh connection that fails is replaced, too. *)
RetriesAlways(c) ==
    /\ calls[c].pc = "exchange"
    /\ conns' = [conns EXCEPT ![Conn(c)] = Absent]
    /\ Set(c, [calls[c] EXCEPT !.pc = "connect", !.conn = NoConn])
    /\ UNCHANGED pool

(* Any error of send_request on a pooled HTTP/2 connection leads to one    *)
(* more try on a fresh connection; every other error is returned.          *)
ExchangeFails(c) ==
    /\ calls[c].pc = "exchange"
    /\ conns' = [conns EXCEPT ![Conn(c)] = Absent]
    /\ IF calls[c].pooled /\ conns[Conn(c)].proto = "h2"
       THEN Set(c, [calls[c] EXCEPT !.pc = "connect", !.conn = NoConn])
       ELSE Set(c, Returned("error"))
    /\ UNCHANGED pool

(* Mutant: the key is that of the next hop. *)
StoreAtTarget(c) ==
    /\ calls[c].pc = "store"
    /\ LET next == Decided(c, calls[c].resp)
           old == pool[next.origin]
       IN
       /\ pool' = [pool EXCEPT ![next.origin] = Conn(c)]
       /\ conns' = [k \in Conns |-> IF k = old THEN Absent ELSE conns[k]]
       /\ Set(c, next)

(* insert replaces, and so drops, what another call has put there.  Then   *)
(* the response is looked at without another await.                        *)
Store(c) ==
    /\ calls[c].pc = "store"
    /\ LET old == pool[Origin(c)] IN
       /\ pool' = [pool EXCEPT ![Origin(c)] = Conn(c)]
       /\ conns' = [k \in Conns |-> IF k = old THEN Absent ELSE conns[k]]
    /\ Set(c, Decided(c, calls[c].resp))

(* Mutant: a guard puts back what a dropped exchange has. *)
CancelReturns(c) ==
    /\ calls[c].pc # "idle"
    /\ Set(c, Returned("cancelled"))
    /\ pool' = IF Conn(c) = NoConn THEN pool
               ELSE [pool EXCEPT ![Origin(c)] = Conn(c)]
    /\ conns' = [k \in Conns |->
                   IF Conn(c) # NoConn /\ k = pool[Origin(c)] THEN Absent ELSE conns[k]]

(* The caller drops the future: a timeout of its own, a select, an abort.  *)
Cancel(c) ==
    /\ calls[c].pc # "idle"
    /\ Set(c, Returned("cancelled"))
    /\ conns' = [k \in Conns |-> IF k = Conn(c) THEN Absent ELSE conns[k]]
    /\ UNCHANGED pool

-----------------------------------------------------------------------------
(* The servers *)

(* A server that gets the request acts on it, at most once per exchange,   *)
(* and may close the connection after its response.  One that has closed   *)
(* the connection before does nothing, and the exchange fails.             *)
Apply(c) ==
    /\ calls[c].pc = "exchange" /\ ~calls[c].served
    /\ Set(c, [calls[c] EXCEPT !.served = TRUE, !.applied = @ + 1])
    /\ \E closing \in BOOLEAN : conns' = [conns EXCEPT ![Conn(c)].closing = closing]
    /\ UNCHANGED pool

-----------------------------------------------------------------------------
Init ==
    /\ calls = [c \in Calls |-> Returned("none")]
    /\ conns = [k \in Conns |-> Absent]
    /\ pool = [o \in Origins |-> NoConn]

execute_single_with_method(c) ==
    \/ TakePooled(c)
    \/ new_connection(c) \/ ConnectFails(c)
    \/ \E resp \in Responses : Answered(c, resp)
    \/ ExchangeFails(c)
    \/ Store(c)

Next ==
    \/ \E c \in Calls : execute_single_with_method(c)
    \/ \E c \in Calls : send(c) \/ Cancel(c) \/ Apply(c)

(* The pool's lock is fair and never held across an await, and connection  *)
(* set-ups end, in success or in an error.  An exchange need not end: no   *)
(* read of HTTP/1.1 has a timeout.                                         *)
Fairness ==
    \A c \in Calls :
       WF_vars(calls[c].pc # "exchange" /\ execute_single_with_method(c))

Spec == Init /\ [][Next]_vars
FairSpec == Spec /\ Fairness
-----------------------------------------------------------------------------
(* Properties *)

CallType ==
    [pc: {"idle", "take", "connect", "exchange", "store"}, origin: Origins,
     asked: Methods \cup {"GET"}, method: Methods \cup {"GET"},
     redirects: 0..MaxRedirects, conn: Conns \cup {NoConn}, first: BOOLEAN,
     pooled: BOOLEAN, served: BOOLEAN, applied: Nat, moved: BOOLEAN, resp: Responses,
     result: {"none", "ok", "error", "cancelled"}]
ConnType == [origin: Origins, proto: {"h1", "h2"}, busy: BOOLEAN,
             closing: BOOLEAN]

(* Type correctness; no call follows more redirects than it may. *)
TypeOK ==
    /\ calls \in [Calls -> CallType]
    /\ conns \in [Conns -> ConnType \cup {Absent}]
    /\ pool \in [Origins -> Conns \cup {NoConn}]

(* A connection, with the HPACK state that goes with it, belongs to one    *)
(* call or to one entry of the pool, never to two of them: no two requests *)
(* interleave on it.  A call that exchanges or stores owns one that exists.*)
Exclusive ==
    /\ \A c \in Calls :
          /\ calls[c].pc \in {"exchange", "store"} <=> Conn(c) # NoConn
          /\ Conn(c) # NoConn => ~Unused(Conn(c))
          /\ \A d \in Calls \ {c} : Conn(c) # NoConn => Conn(d) # Conn(c)
          /\ \A o \in Origins : Conn(c) # NoConn => pool[o] # Conn(c)
    /\ \A o, p \in Origins : pool[o] = pool[p] /\ pool[o] # NoConn => o = p

(* The connection a call uses, and the one the pool keeps under a key,     *)
(* leads to that origin, through all redirects and replacements.           *)
RightOrigin ==
    /\ \A c \in Calls : Conn(c) # NoConn => conns[Conn(c)].origin = Origin(c)
    /\ \A o \in Origins : pool[o] # NoConn => conns[pool[o]].origin = o

(* What the pool holds exists and is between two exchanges: every request  *)
(* sent on it has had its answer, none failed or was cancelled halfway on  *)
(* it.  The server may well have closed it, or have sent GOAWAY.           *)
PooledIsReady ==
    \A o \in Origins : pool[o] # NoConn =>
        ~Unused(pool[o]) /\ ~conns[pool[o]].busy

(* Once a 301, 302 or 303 was followed every later hop is a GET without a  *)
(* body; 307 and 308 keep what the request asked for.                      *)
MethodKept ==
    \A c \in Calls :
        calls[c].method = IF calls[c].moved THEN "GET" ELSE calls[c].asked

(* A server acts on the request of a hop once; twice only if the hop       *)
(* started on a pooled connection, never a third time.                     *)
AppliedAtMostTwice ==
    \A c \in Calls : calls[c].applied <= IF calls[c].first THEN 2 ELSE 1

(* A call whose exchanges all end comes back, whatever the servers         *)
(* redirect it to.                                                         *)
SendReturns ==
    \A c \in Calls : []<>(calls[c].pc # "exchange")
                       => (calls[c].pc # "idle" ~> calls[c].pc = "idle")
=============================================================================
