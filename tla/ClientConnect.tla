--------------------------- MODULE ClientConnect ---------------------------
(***************************************************************************)
(* Client with connection set-up in detail: new_connection dials, asks the *)
(* proxy for a tunnel, runs the TLS handshake and the HTTP/2 handshake,    *)
(* each with a timeout of its own but the direct dial.  Every action that  *)
(* is not part of a set-up is one of Client's.                             *)
(*                                                                         *)
(* The proxy's answer is a sequence of symbols: a status line, header      *)
(* text "x", and "eol" for CR LF.  What follows it on the stream is not    *)
(* the proxy's: it belongs to TLS.                                         *)
(***************************************************************************)
EXTENDS Client, TlsProfile

CONSTANTS
    Configs,    \* [profile, proxy, danger] of the clients to be built
    NoProxy,
    Answers,    \* what proxies send
    MAX_RESPONSE_HEADER_BYTES

ASSUME ConnectAssumption ==
    /\ MAX_RESPONSE_HEADER_BYTES \in Nat
    /\ \A from \in Answers : from \in Seq(STRING)
    /\ \A g \in Configs : DOMAIN g = {"profile", "proxy", "danger"}

VARIABLES
    config,     \* what the builder made: the profile, the proxy and the checks
    setup,      \* the locals of each new_connection, and its stream
    shown       \* what a connection's set-up saw: a history

connectVars == <<calls, conns, pool, config, setup, shown>>

-----------------------------------------------------------------------------
(* The proxy's URL *)

(* ClientBuilder::proxy: credentials move out of the URL, which is written *)
(* anew then, and so loses a port that is the default of its scheme.       *)
proxy(url) ==
    IF url.user THEN [user |-> FALSE, port |-> IF url.port = "80" THEN "" ELSE url.port]
    ELSE url

(* A URL without a port is refused, by every call. *)
parse_proxy_url(url) == url.port \notin {"", "bad"}

-----------------------------------------------------------------------------
(* Set-up: `from' is what the proxy sends, `wire' the part of `rest' that  *)
(* has arrived and `buf' the part that was read.                           *)

NoSetup == [stage |-> "none", from |-> <<>>, rest |-> <<>>, wire |-> <<>>,
            buf |-> <<>>, eof |-> FALSE, asked |-> "none", cert |-> "none"]

Unseen == [asked |-> "none", cert |-> "none", alpn |-> "none"]

Stage(c) == setup[c].stage
Enter(c, s) == setup' = [setup EXCEPT ![c] = s]

(* What was seen of connections that are gone is forgotten. *)
Forget == shown' = [k \in Conns |-> IF conns'[k] = Absent THEN Unseen ELSE shown[k]]

Proceeds(c, s) == Enter(c, s) /\ UNCHANGED <<calls, conns, pool, config, shown>>

Fails(c) ==
    /\ ConnectFails(c)
    /\ Enter(c, NoSetup)
    /\ UNCHANGED <<config, shown>>

(* The stream is there: the connector is built before the handshake.       *)
StartTls(c, s) ==
    IF build_connector(config.profile) THEN Proceeds(c, [s EXCEPT !.stage = "tls"])
    ELSE Fails(c)

(* The connection is made, of the kind that ALPN chose. *)
Connected(c, alpn, s) ==
    /\ new_connection(c)
    /\ conns'[Conn(c)'].proto = IF alpn = "h2" THEN "h2" ELSE "h1"
    /\ shown' = [shown EXCEPT ![Conn(c)'] =
                   [asked |-> s.asked, cert |-> s.cert, alpn |-> alpn]]
    /\ Enter(c, NoSetup)
    /\ UNCHANGED config

-----------------------------------------------------------------------------
(* The dial *)

Dial(c) ==
    /\ calls[c].pc = "connect" /\ Stage(c) = "none"
    /\ IF config.proxy = NoProxy THEN Proceeds(c, [NoSetup EXCEPT !.stage = "tcp"])
       ELSE IF parse_proxy_url(proxy(config.proxy))
       THEN Proceeds(c, [NoSetup EXCEPT !.stage = "proxy"])
       ELSE Fails(c)

DialDirect(c) == Stage(c) = "tcp" /\ StartTls(c, setup[c])

(* The CONNECT request, for the target, fits the socket's buffer. *)
DialProxy(c) ==
    /\ Stage(c) = "proxy"
    /\ \E from \in Answers :
          Proceeds(c, [setup[c] EXCEPT !.stage = "tunnel", !.from = from,
                          !.rest = from, !.asked = Origin(c)])

DialFails(c) == Stage(c) \in {"tcp", "proxy"} /\ Fails(c)

-----------------------------------------------------------------------------
(* read_proxy_response *)

Complete(buf) == IsSuffix(<<"eol", "eol">>, buf)

(* Is the second word of the first line 200? *)
parse_status_code(buf) == Head(buf) = "200"

(* What establish_tunnel does with the octets it has. *)
Examine(c, s) ==
    IF Len(s.buf) > MAX_RESPONSE_HEADER_BYTES THEN Fails(c)
    ELSE IF ~Complete(s.buf) THEN Proceeds(c, s)
    ELSE IF parse_status_code(s.buf) THEN StartTls(c, s)
    ELSE Fails(c)

(* Mutants: whatever is there is read; limit and status are not looked at. *)
ReadAvailable(c) ==
    /\ Stage(c) = "tunnel"
    /\ IF setup[c].wire = <<>> THEN setup[c].eof /\ Fails(c)
       ELSE Examine(c, [setup[c] EXCEPT !.buf = @ \o setup[c].wire, !.wire = <<>>])
ReadUnlimited(c) ==
    /\ Stage(c) = "tunnel" /\ setup[c].wire # <<>>
    /\ LET s == [setup[c] EXCEPT !.buf = Append(@, Head(setup[c].wire)), !.wire = Tail(@)]
       IN IF ~Complete(s.buf) THEN Proceeds(c, s) ELSE StartTls(c, s)

ReadByte(c) ==
    /\ Stage(c) = "tunnel"
    /\ IF setup[c].wire = <<>> THEN setup[c].eof /\ Fails(c)
       ELSE Examine(c, [setup[c] EXCEPT !.buf = Append(@, Head(setup[c].wire)),
                                        !.wire = Tail(@)])

-----------------------------------------------------------------------------
(* TLS, and the handshake of HTTP/2, whose frames H2Connection models *)

(* Mutant: the name that is verified is the proxy's. *)
VerifiedByProxy(c, cert) ==
    config.danger \/ cert = IF config.proxy = NoProxy THEN Origin(c) ELSE "proxy"

(* The certificate must be the target's, with a proxy and without. *)
Verified(c, cert) == config.danger \/ cert = Origin(c)

(* BoringSSL takes no protocol that was not offered.  Octets of the proxy  *)
(* that are still on the stream are not TLS.                               *)
TlsDone(c) ==
    /\ Stage(c) = "tls" /\ setup[c].wire = <<>> /\ setup[c].rest = <<>>
    /\ \E cert \in Origins \cup {"proxy"},
          alpn \in ToSet(config.profile.alpn) \cup {"none"} :
          /\ Verified(c, cert)
          /\ LET s == [setup[c] EXCEPT !.cert = cert] IN
             IF alpn = "h2" THEN Proceeds(c, [s EXCEPT !.stage = "settings"])
             ELSE Connected(c, alpn, s)

Settings(c) == Stage(c) = "settings" /\ Connected(c, "h2", setup[c])

(* A handshake is refused, the certificate is not the target's, or the     *)
(* peer closes.                                                            *)
HandshakeFails(c) == Stage(c) \in {"tls", "settings"} /\ Fails(c)

(* Mutant: the TLS handshake is not timed. *)
TimeoutButTls(c) == Stage(c) \in {"proxy", "tunnel", "settings"} /\ Fails(c)

Timeout(c) ==
    /\ Stage(c) \in {"proxy", "tunnel", "tls", "settings"}
    /\ Fails(c)

-----------------------------------------------------------------------------
(* The proxy, which may close or fall silent anywhere *)

ProxySends(c) ==
    /\ Stage(c) \in {"tunnel", "tls"}
    /\ \E n \in 1..Len(setup[c].rest) :
          Proceeds(c, [setup[c] EXCEPT !.wire = @ \o SubSeq(setup[c].rest, 1, n),
                                       !.rest = SubSeq(@, n + 1, Len(@))])

ProxyCloses(c) ==
    /\ Stage(c) = "tunnel" /\ ~setup[c].eof
    /\ Proceeds(c, [setup[c] EXCEPT !.eof = TRUE, !.rest = <<>>])

-----------------------------------------------------------------------------
(* The rest of a call *)

Progress(c) ==
    /\ \/ TakePooled(c) \/ ExchangeFails(c) \/ Store(c)
       \/ \E resp \in Responses : Answered(c, resp)
    /\ Forget /\ UNCHANGED <<config, setup>>

Served(c) == Apply(c) /\ Forget /\ UNCHANGED <<config, setup>>

(* A new call begins with nothing set up. *)
Sent(c) == send(c) /\ Enter(c, NoSetup) /\ UNCHANGED <<config, shown>>

(* The caller drops the future, and with it a set-up halfway. *)
Dropped(c) == Cancel(c) /\ Enter(c, NoSetup) /\ Forget /\ UNCHANGED config

ConnectInit ==
    /\ Init
    /\ config \in Configs
    /\ setup = [c \in Calls |-> NoSetup]
    /\ shown = [k \in Conns |-> Unseen]

ConnectNext ==
    \E c \in Calls :
       \/ Dial(c) \/ DialDirect(c) \/ DialProxy(c) \/ DialFails(c)
       \/ ReadByte(c) \/ TlsDone(c) \/ Settings(c) \/ HandshakeFails(c)
       \/ Timeout(c) \/ ProxySends(c) \/ ProxyCloses(c)
       \/ Progress(c) \/ Served(c) \/ Sent(c) \/ Dropped(c)

(* The task is polled, its timers fire, and the system ends a TCP connect  *)
(* some time.  Nothing is assumed of proxies and servers, nor that an      *)
(* exchange ends.                                                          *)
ConnectFairness ==
    \A c \in Calls :
       /\ WF_connectVars(Dial(c)) /\ WF_connectVars(ReadByte(c))
       /\ WF_connectVars(Timeout(c))
       /\ WF_connectVars(calls[c].pc # "exchange" /\ Progress(c))
       /\ WF_connectVars(DialDirect(c) \/ DialProxy(c) \/ DialFails(c))

ConnectSpec == ConnectInit /\ [][ConnectNext]_connectVars
FairConnectSpec == ConnectSpec /\ ConnectFairness
-----------------------------------------------------------------------------
(* Properties *)

(* Type correctness; only a call that connects has a set-up, and it keeps  *)
(* no more of the proxy's answer than the limit.                           *)
ConnectType ==
    /\ config \in Configs
    /\ \A c \in Calls :
          /\ Stage(c) \in {"none", "tcp", "proxy", "tunnel", "tls", "settings"}
          /\ Stage(c) # "none" => calls[c].pc = "connect"
          /\ Stage(c) \in {"tunnel", "tls", "settings"}
               => Len(setup[c].buf) <= MAX_RESPONSE_HEADER_BYTES
    /\ \A k \in Conns : Unused(k) => shown[k] = Unseen

(* However the proxy's answer is cut, the client reads it to the end of    *)
(* its header and no further before TLS begins, and begins TLS only behind *)
(* a header that is complete and says 200.  Nothing is lost between them.  *)
NothingSwallowed ==
    \A c \in Calls : LET s == setup[c] IN
       /\ s.stage \in {"tunnel", "tls", "settings"} /\ ~s.eof
            => s.buf \o s.wire \o s.rest = s.from
       /\ \A n \in 0..Len(s.buf) - 1 :
            s.stage \in {"tunnel", "tls", "settings"} => ~Complete(SubSeq(s.buf, 1, n))
       /\ s.stage \in {"tls", "settings"} /\ s.asked # "none"
            => Complete(s.buf) /\ s.buf[1] = "200"

(* Whatever was redirected, retried, pooled or dropped before: the         *)
(* connection a call uses was asked of the proxy for the call's origin, if *)
(* there is a proxy, was shown that origin's certificate, unless           *)
(* certificates are not checked, and speaks the protocol that ALPN chose   *)
(* from what the profile offers.                                           *)
LeadsToOrigin ==
    \A c \in Calls : Conn(c) # NoConn =>
       LET k == Conn(c) IN
       /\ shown[k].asked = IF config.proxy = NoProxy THEN "none" ELSE Origin(c)
       /\ config.danger \/ shown[k].cert = Origin(c)
       /\ shown[k].alpn \in ToSet(config.profile.alpn) \cup {"none"}
       /\ conns[k].proto = "h2" <=> shown[k].alpn = "h2"

(* Connection set-up is one step of Client, and its timeouts make good     *)
(* what Client assumes: that every set-up ends.                            *)
ClientImplemented == FairSpec
=============================================================================
