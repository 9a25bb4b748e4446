------------------------- MODULE ClientConnectProofs -------------------------
(***************************************************************************)
(* Connection set-up, for any configuration, any answer of a proxy and any *)
(* limit on its length.  Set-up is one step of Client, so what ClientProofs*)
(* shows of Client holds here as well; and the connection it makes is the  *)
(* one that its call asked for.                                            *)
(*                                                                         *)
(* The invariant says of a set-up what its later stages rely on, and of a  *)
(* connection that exists, wherever it is kept, what its set-up saw.       *)
(***************************************************************************)
EXTENDS ClientConnect, ClientProofs, SequenceTheorems

SetupType ==
    [stage: {"none", "tcp", "proxy", "tunnel", "tls", "settings"},
     from: Seq(STRING), rest: Seq(STRING), wire: Seq(STRING), buf: Seq(STRING),
     eof: BOOLEAN, asked: Origins \cup {"none"}, cert: Origins \cup {"proxy", "none"}]

Protocols(g) == ToSet(g.profile.alpn) \cup {"none"}

ShownType(g) ==
    [asked: Origins \cup {"none"}, cert: Origins \cup {"proxy", "none"},
     alpn: Protocols(g)]

(* Whom the proxy is asked for, if there is one. *)
Target(g, o) == IF g.proxy = NoProxy THEN "none" ELSE o

(* What was read is the beginning of the answer and ends where, or before, *)
(* its header does.                                                        *)
Reads(s) ==
    /\ ~s.eof => s.buf \o s.wire \o s.rest = s.from
    /\ \A n \in 0..Len(s.buf) - 1 : ~Complete(SubSeq(s.buf, 1, n))
    /\ Len(s.buf) <= MAX_RESPONSE_HEADER_BYTES

(* The set-up s of a connection to origin o, by a client built as g. *)
SoundSetup(g, s, o) ==
    /\ s.stage = "tcp" => g.proxy = NoProxy /\ s = [NoSetup EXCEPT !.stage = "tcp"]
    /\ s.stage = "proxy" => g.proxy # NoProxy /\ s = [NoSetup EXCEPT !.stage = "proxy"]
    /\ s.stage \in {"tunnel", "tls", "settings"} => s.asked = Target(g, o) /\ Reads(s)
    /\ s.stage = "tunnel" => g.proxy # NoProxy /\ ~Complete(s.buf)
    /\ s.stage \in {"tls", "settings"} /\ g.proxy # NoProxy
          => Complete(s.buf) /\ Head(s.buf) = "200"
    /\ s.stage = "settings" =>
          "h2" \in ToSet(g.profile.alpn) /\ (g.danger \/ s.cert = o)

(* The set-up of the connection r saw w. *)
SoundConn(g, r, w) ==
    /\ w.asked = Target(g, r.origin)
    /\ g.danger \/ w.cert = r.origin
    /\ r.proto = "h2" <=> w.alpn = "h2"

Setups ==
    /\ setup \in [Calls -> SetupType]
    /\ \A c \in Calls :
          /\ setup[c].stage # "none" => calls[c].pc = "connect"
          /\ SoundSetup(config, setup[c], Origin(c))

Sights ==
    /\ shown \in [Conns -> ShownType(config)]
    /\ \A k \in Conns : IF conns[k] = Absent THEN shown[k] = Unseen
                        ELSE SoundConn(config, conns[k], shown[k])

CInv == IInv /\ config \in Configs /\ Setups /\ Sights
-----------------------------------------------------------------------------
(* The header of the proxy's answer *)

LEMMA NothingComplete == ~Complete(<<>>)
<1>1. Len(Reverse(<<"eol", "eol">>)) = 2 /\ Len(Reverse(<<>>)) = 0
  BY DEF Reverse
<1> QED
  BY <1>1 DEF Complete, IsSuffix, IsPrefix

(* A sequence of octets, cut in two. *)
LEMMA Cut ==
  ASSUME NEW S, NEW rest \in Seq(S), NEW n \in 1..Len(rest)
  PROVE  /\ SubSeq(rest, 1, n) \in Seq(S)
         /\ SubSeq(rest, n + 1, Len(rest)) \in Seq(S)
         /\ SubSeq(rest, 1, n) \o SubSeq(rest, n + 1, Len(rest)) = rest
<1>1. \A i \in 1..Len(rest) : rest[i] \in S
  BY ElementOfSeq
<1>2. n \in Int /\ n + 1 \in Int /\ Len(rest) \in Nat
  BY LenProperties
<1>3. (\A i \in 1..n : rest[i] \in S) /\ (\A i \in n + 1..Len(rest) : rest[i] \in S)
  BY <1>1, <1>2
<1>4. SubSeq(rest, 1, n) \in Seq(S)
  BY <1>2, <1>3, SubSeqProperties
<1>5. SubSeq(rest, n + 1, Len(rest)) \in Seq(S)
  BY <1>2, <1>3, SubSeqProperties
<1>6. /\ 1 \in 1..Len(rest) + 1 /\ n \in 1 - 1..Len(rest)
      /\ Len(rest) \in n..Len(rest)
  BY <1>2
<1>7. SubSeq(rest, 1, n) \o SubSeq(rest, n + 1, Len(rest)) = SubSeq(rest, 1, Len(rest))
  BY <1>6, ConcatAdjacentSubSeq
<1> QED
  BY <1>4, <1>5, <1>7, SubSeqFull

(* More of an answer arrives. *)
LEMMA MoreArrives ==
  ASSUME NEW t \in SetupType, Reads(t), NEW n \in 1..Len(t.rest)
  PROVE  LET s == [t EXCEPT !.wire = @ \o SubSeq(t.rest, 1, n),
                            !.rest = SubSeq(@, n + 1, Len(@))]
         IN /\ s \in SetupType /\ Reads(s) /\ s.stage = t.stage
            /\ s.asked = t.asked /\ s.buf = t.buf
<1> DEFINE buf == t.buf
           wire == t.wire
           rest == t.rest
           came == SubSeq(rest, 1, n)
           left == SubSeq(rest, n + 1, Len(rest))
           s == [t EXCEPT !.wire = wire \o came, !.rest = left]
<1>1. buf \in Seq(STRING) /\ wire \in Seq(STRING) /\ rest \in Seq(STRING)
  BY DEF SetupType
<1>2. n \in 1..Len(rest) /\ (~t.eof => buf \o wire \o rest = t.from)
  BY DEF Reads
<1> HIDE DEF buf, wire, rest
<1>3. came \in Seq(STRING) /\ left \in Seq(STRING) /\ came \o left = rest
  BY <1>1, <1>2, Cut
<1> HIDE DEF came, left
<1>4. wire \o came \in Seq(STRING)
  BY <1>1, <1>3, ConcatProperties
<1>5. buf \o (wire \o came) \o left = buf \o wire \o (came \o left)
  <2> DEFINE S == STRING
  <2>1. buf \in Seq(S) /\ wire \in Seq(S) /\ came \in Seq(S) /\ left \in Seq(S)
    BY <1>1, <1>3
  <2> HIDE DEF S
  <2> DEFINE read == buf \o wire
  <2>2. read \in Seq(S)
    BY <2>1, ConcatProperties
  <2>3. read \o came = buf \o (wire \o came)
    BY <2>1, ConcatAssociative
  <2> HIDE DEF read
  <2>4. (read \o came) \o left = read \o (came \o left)
    BY <2>1, <2>2, ConcatAssociative, SMTT(60)
  <2> QED
    BY <2>3, <2>4 DEF read
<1>6. s \in SetupType
  BY <1>3, <1>4 DEF SetupType
<1>7. /\ s.stage = t.stage /\ s.from = t.from /\ s.rest = left /\ s.eof = t.eof
      /\ s.asked = t.asked /\ s.buf = t.buf /\ s.wire = wire \o came
  BY DEF SetupType
<1>8. s = [t EXCEPT !.wire = @ \o SubSeq(t.rest, 1, n),
                    !.rest = SubSeq(@, n + 1, Len(@))]
  BY DEF wire, rest, came, left, SetupType
<1> HIDE DEF s
<1>9. Reads(s)
  BY <1>2, <1>3, <1>5, <1>7 DEF Reads, buf
<1> QED
  BY <1>6, <1>7, <1>8, <1>9

(* One more octet of an answer that was not complete. *)
LEMMA OneMore ==
  ASSUME NEW S, NEW buf \in Seq(S), NEW wire \in Seq(S), wire # <<>>,
         \A n \in 0..Len(buf) - 1 : ~Complete(SubSeq(buf, 1, n)),
         ~Complete(buf)
  PROVE  LET b == Append(buf, Head(wire)) IN
         /\ b \in Seq(S) /\ Tail(wire) \in Seq(S)
         /\ b \o Tail(wire) = buf \o wire
         /\ \A n \in 0..Len(b) - 1 : ~Complete(SubSeq(b, 1, n))
<1> DEFINE e == Head(wire)
           b == Append(buf, e)
<1>1. e \in S /\ Tail(wire) \in Seq(S) /\ wire = <<e>> \o Tail(wire)
  BY HeadTailProperties
<1> HIDE DEF e
<1>2. b \in Seq(S) /\ b = buf \o <<e>> /\ Len(b) = Len(buf) + 1 /\ <<e>> \in Seq(S)
  <2>1. b \in Seq(S) /\ Len(b) = Len(buf) + 1
    BY <1>1, AppendProperties
  <2>2. b = buf \o <<e>>
    <3>1. e \in S
      BY <1>1
    <3> QED
      BY <3>1, AppendIsConcat, Zenon
  <2> QED
    BY <1>1, <2>1, <2>2
<1>3. b \o Tail(wire) = buf \o wire
  <2>1. (buf \o <<e>>) \o Tail(wire) = buf \o (<<e>> \o Tail(wire))
    BY <1>1, <1>2, ConcatAssociative
  <2> QED
    BY <1>1, <1>2, <2>1
<1>4. ASSUME NEW n \in 0..Len(b) - 1
      PROVE  ~Complete(SubSeq(b, 1, n))
  <2>1. Len(buf) \in Nat
    OBVIOUS
  <2>2. SubSeq(b, 1, n) = SubSeq(buf, 1, n)
    <3>1. CASE n = 0
      BY <3>1, SubSeqEmpty
    <3>2. CASE n # 0
      <4>1. 1 \in 1..Len(buf) /\ n \in 1..Len(buf)
        BY <1>2, <2>1, <3>2
      <4>2. SubSeq(buf \o <<e>>, 1, n) = SubSeq(buf, 1, n)
        BY <1>2, <4>1, SubSeqOfConcat1
      <4> QED
        BY <1>2, <4>2
    <3> QED
      BY <3>1, <3>2
  <2>3. CASE n < Len(buf)
    <3>1. n \in 0..Len(buf) - 1
      BY <1>2, <2>1, <2>3
    <3>2. ~Complete(SubSeq(buf, 1, n))
      BY <3>1, Zenon
    <3> QED
      BY <2>2, <3>2, Zenon
  <2>4. CASE n = Len(buf)
    <3>1. SubSeq(buf, 1, n) = buf
      BY <2>4, SubSeqFull
    <3> QED
      BY <2>2, <3>1, Zenon
  <2> QED
    BY <1>2, <2>1, <2>3, <2>4
<1> QED
  BY <1>1, <1>2, <1>3, <1>4 DEF e

-----------------------------------------------------------------------------
(* Values of set-ups *)

LEMMA NoSetupSound ==
  ASSUME NEW g, NEW o, NEW stage \in {"none", "tcp", "proxy"},
         stage = "tcp" => g.proxy = NoProxy, stage = "proxy" => g.proxy # NoProxy
  PROVE  /\ [NoSetup EXCEPT !.stage = stage] \in SetupType
         /\ [NoSetup EXCEPT !.stage = stage].stage = stage
         /\ SoundSetup(g, [NoSetup EXCEPT !.stage = stage], o)
<1>1. <<>> \in Seq(STRING)
  BY EmptySeq
<1>2. [NoSetup EXCEPT !.stage = stage] \in SetupType
  BY <1>1 DEF NoSetup, SetupType
<1> QED
  BY <1>2 DEF NoSetup, SoundSetup

LEMMA IdleSound ==
  ASSUME NEW g, NEW o
  PROVE  /\ NoSetup \in SetupType /\ NoSetup.stage = "none"
         /\ SoundSetup(g, NoSetup, o)
<1>1. <<>> \in Seq(STRING)
  BY EmptySeq
<1>2. NoSetup \in SetupType
  BY <1>1 DEF NoSetup, SetupType
<1> QED
  BY <1>2 DEF NoSetup, SoundSetup

-----------------------------------------------------------------------------
(* Kinds of steps *)

(* A step of call c leaves the set-ups of the others alone. *)
LEMMA SetupsKept ==
  ASSUME CInv, NEW c \in Calls, config' = config,
         calls' \in [Calls -> CallType], setup' \in [Calls -> SetupType],
         \A d \in Calls \ {c} : calls'[d] = calls[d] /\ setup'[d] = setup[d],
         setup'[c].stage # "none" => calls'[c].pc = "connect",
         SoundSetup(config, setup'[c], calls'[c].origin)
  PROVE  Setups'
<1> SUFFICES ASSUME NEW d \in Calls
             PROVE  /\ setup'[d].stage # "none" => calls'[d].pc = "connect"
                    /\ SoundSetup(config, setup'[d], calls'[d].origin)
  BY DEF Setups, Origin
<1>1. CASE d = c
  BY <1>1
<1>2. CASE d # c
  BY <1>2 DEF CInv, Setups, Origin
<1> QED
  BY <1>1, <1>2

LEMMA ProceedsInv ==
  ASSUME CInv, NEW c \in Calls, NEW s \in SetupType, calls[c].pc = "connect",
         SoundSetup(config, s, Origin(c)), Proceeds(c, s)
  PROVE  CInv' /\ UNCHANGED vars
<1>1. /\ setup' = [setup EXCEPT ![c] = s]
      /\ UNCHANGED <<calls, conns, pool, config, shown>>
  BY DEF Proceeds, Enter
<1>2. UNCHANGED vars
  BY <1>1 DEF vars
<1>3. IInv'
  BY <1>2, StutterStep DEF CInv
<1>4. Setups'
  <2>1. setup' \in [Calls -> SetupType] /\ setup'[c] = s
    BY <1>1 DEF CInv, Setups
  <2>2. calls' \in [Calls -> CallType]
    BY <1>1 DEF CInv, IInv, TypeOK
  <2> QED
    BY <1>1, <2>1, <2>2, SetupsKept DEF Origin
<1>5. Sights'
  BY <1>1 DEF CInv, Sights
<1> QED
  BY <1>1, <1>2, <1>3, <1>4, <1>5 DEF CInv

LEMMA FailsInv ==
  ASSUME CInv, NEW c \in Calls, Fails(c)
  PROVE  CInv' /\ Next
<1>1. /\ ConnectFails(c) /\ setup' = [setup EXCEPT ![c] = NoSetup]
      /\ UNCHANGED <<config, shown>>
  BY DEF Fails, Enter
<1>2. Next
  BY <1>1 DEF Next, execute_single_with_method
<1>3. IInv'
  BY <1>2, NextInv DEF CInv
<1>4. calls' = [calls EXCEPT ![c] = Returned("error")] /\ UNCHANGED conns
  BY <1>1 DEF ConnectFails, Set
<1>5. /\ NoSetup \in SetupType /\ NoSetup.stage = "none"
      /\ SoundSetup(config, NoSetup, calls'[c].origin)
  BY IdleSound
<1>6. Setups'
  <2>1. setup' \in [Calls -> SetupType] /\ setup'[c] = NoSetup
    BY <1>1, <1>5 DEF CInv, Setups
  <2>2. calls' \in [Calls -> CallType]
    BY <1>3 DEF IInv, TypeOK
  <2>3. \A d \in Calls \ {c} : calls'[d] = calls[d] /\ setup'[d] = setup[d]
    BY <1>1, <1>4 DEF CInv, IInv, TypeOK, Setups
  <2> QED
    BY <1>1, <1>5, <2>1, <2>2, <2>3, SetupsKept
<1>7. Sights'
  BY <1>1, <1>4 DEF CInv, Sights
<1> QED
  BY <1>1, <1>2, <1>3, <1>6, <1>7 DEF CInv

LEMMA StartTlsInv ==
  ASSUME CInv, NEW c \in Calls, NEW s \in SetupType, calls[c].pc = "connect",
         SoundSetup(config, [s EXCEPT !.stage = "tls"], Origin(c)), StartTls(c, s)
  PROVE  CInv' /\ (Next \/ UNCHANGED vars)
<1>1. [s EXCEPT !.stage = "tls"] \in SetupType
  BY DEF SetupType
<1>2. CASE build_connector(config.profile)
  <2>1. Proceeds(c, [s EXCEPT !.stage = "tls"])
    BY <1>2 DEF StartTls
  <2> QED
    BY <1>1, <2>1, ProceedsInv
<1>3. CASE ~build_connector(config.profile)
  BY <1>3, FailsInv DEF StartTls
<1> QED
  BY <1>2, <1>3

(* The set-up s ends: it has seen what the connection stands for. *)
LEMMA ConnectedInv ==
  ASSUME CInv, NEW c \in Calls, NEW s \in SetupType, NEW alpn \in Protocols(config),
         s.asked = Target(config, Origin(c)), config.danger \/ s.cert = Origin(c),
         Connected(c, alpn, s)
  PROVE  CInv' /\ Next
<1>1. /\ new_connection(c) /\ setup' = [setup EXCEPT ![c] = NoSetup]
      /\ conns'[calls'[c].conn].proto = IF alpn = "h2" THEN "h2" ELSE "h1"
      /\ shown' = [shown EXCEPT ![calls'[c].conn] =
                      [asked |-> s.asked, cert |-> s.cert, alpn |-> alpn]]
      /\ config' = config
  BY DEF Connected, Enter, Conn
<1>2. Next
  BY <1>1 DEF Next, execute_single_with_method
<1>3. IInv'
  BY <1>2, NextInv DEF CInv
<1>4. PICK k \in Conns, proto \in {"h1", "h2"} :
         /\ conns[k] = Absent
         /\ conns' = [conns EXCEPT ![k] =
                        [origin |-> Origin(c), proto |-> proto,
                         busy |-> TRUE, closing |-> FALSE]]
         /\ calls' = [calls EXCEPT ![c] =
                        [calls[c] EXCEPT !.pc = "exchange", !.conn = k,
                           !.pooled = FALSE, !.served = FALSE]]
  BY <1>1 DEF new_connection, Set, Unused
<1> DEFINE r == [origin |-> Origin(c), proto |-> proto, busy |-> TRUE, closing |-> FALSE]
           w == [asked |-> s.asked, cert |-> s.cert, alpn |-> alpn]
<1>5. calls[c] \in CallType /\ calls \in [Calls -> CallType]
  BY DEF CInv, IInv, TypeOK
<1>6. /\ calls'[c].conn = k
      /\ \A d \in Calls \ {c} : calls'[d] = calls[d]
  BY <1>4, <1>5 DEF CallType
<1>7. Setups'
  <2>1. /\ NoSetup \in SetupType /\ NoSetup.stage = "none"
        /\ SoundSetup(config, NoSetup, calls'[c].origin)
    BY IdleSound
  <2>2. setup' \in [Calls -> SetupType] /\ setup'[c] = NoSetup
    BY <1>1, <2>1 DEF CInv, Setups
  <2>3. calls' \in [Calls -> CallType]
    BY <1>3 DEF IInv, TypeOK
  <2>4. \A d \in Calls \ {c} : setup'[d] = setup[d]
    BY <1>1 DEF CInv, Setups
  <2> QED
    BY <1>1, <1>6, <2>1, <2>2, <2>3, <2>4, SetupsKept
<1>8. Sights'
  <2>1. conns \in [Conns -> ConnType \cup {Absent}] /\ shown \in [Conns -> ShownType(config)]
    BY DEF CInv, IInv, TypeOK, Sights
  <2>2. w \in ShownType(config)
    BY DEF ShownType, SetupType
  <2>3. shown' = [shown EXCEPT ![k] = w] /\ conns' = [conns EXCEPT ![k] = r]
    BY <1>1, <1>4, <1>6
  <2>4. r.proto = IF alpn = "h2" THEN "h2" ELSE "h1"
    BY <1>1, <1>6, <2>1, <2>3
  <2>5. SoundConn(config, r, w)
    BY <2>4 DEF SoundConn
  <2>6. r # Absent
    BY DEF Absent
  <2> HIDE DEF r, w
  <2>7. shown' \in [Conns -> ShownType(config)]
    BY <2>1, <2>2, <2>3
  <2>8. ASSUME NEW j \in Conns
        PROVE  IF conns'[j] = Absent THEN shown'[j] = Unseen
               ELSE SoundConn(config, conns'[j], shown'[j])
    <3>1. CASE j = k
      BY <2>1, <2>3, <2>5, <2>6, <3>1
    <3>2. CASE j # k
      BY <2>1, <2>3, <3>2 DEF CInv, Sights
    <3> QED
      BY <3>1, <3>2
  <2> QED
    BY <1>1, <2>7, <2>8 DEF Sights
<1> QED
  BY <1>1, <1>2, <1>3, <1>7, <1>8 DEF CInv

(* What a set-up saw stays with its connection, as long as that exists;    *)
(* the call that steps has no set-up afterwards.                           *)
LEMMA SightsKept ==
  ASSUME CInv, IInv', NEW c \in Calls, config' = config, Forget,
         \A k \in Conns : \/ conns'[k] = Absent
                         \/ /\ conns[k] # Absent /\ conns'[k].origin = conns[k].origin
                            /\ conns'[k].proto = conns[k].proto,
         \A d \in Calls \ {c} : calls'[d] = calls[d] /\ setup'[d] = setup[d],
         setup' \in [Calls -> SetupType], setup'[c].stage = "none"
  PROVE  CInv'
<1>1. calls' \in [Calls -> CallType]
  BY DEF IInv, TypeOK
<1>2. SoundSetup(config, setup'[c], calls'[c].origin)
  BY DEF SoundSetup
<1>3. Setups'
  BY <1>1, <1>2, SetupsKept
<1>4. shown' = [k \in Conns |-> IF conns'[k] = Absent THEN Unseen ELSE shown[k]]
  BY DEF Forget
<1>5. Unseen \in ShownType(config)
  BY DEF Unseen, ShownType, Protocols
<1>6. shown' \in [Conns -> ShownType(config)]
  BY <1>4, <1>5 DEF CInv, Sights
<1>7. ASSUME NEW k \in Conns
      PROVE  IF conns'[k] = Absent THEN shown'[k] = Unseen
             ELSE SoundConn(config, conns'[k], shown'[k])
  BY <1>4 DEF CInv, Sights, SoundConn
<1> QED
  BY <1>3, <1>6, <1>7 DEF CInv, Sights

-----------------------------------------------------------------------------
(* The steps *)

LEMMA SetupFacts ==
  ASSUME CInv, NEW c \in Calls
  PROVE  /\ setup[c] \in SetupType /\ SoundSetup(config, setup[c], Origin(c))
         /\ setup[c].stage # "none" => calls[c].pc = "connect"
  BY DEF CInv, Setups

LEMMA DialSteps ==
  ASSUME CInv, NEW c \in Calls, Dial(c) \/ DialDirect(c) \/ DialProxy(c) \/ DialFails(c)
  PROVE  CInv' /\ (Next \/ UNCHANGED vars)
<1>1. CASE Dial(c)
  <2>1. CASE config.proxy = NoProxy
    <3>1. Proceeds(c, [NoSetup EXCEPT !.stage = "tcp"]) /\ calls[c].pc = "connect"
      BY <1>1, <2>1 DEF Dial
    <3> QED
      BY <2>1, <3>1, NoSetupSound, ProceedsInv
  <2>2. CASE config.proxy # NoProxy /\ parse_proxy_url(proxy(config.proxy))
    <3>1. Proceeds(c, [NoSetup EXCEPT !.stage = "proxy"]) /\ calls[c].pc = "connect"
      BY <1>1, <2>2 DEF Dial
    <3> QED
      BY <2>2, <3>1, NoSetupSound, ProceedsInv
  <2>3. CASE config.proxy # NoProxy /\ ~parse_proxy_url(proxy(config.proxy))
    BY <1>1, <2>3, FailsInv DEF Dial
  <2> QED
    BY <2>1, <2>2, <2>3
<1>2. CASE DialDirect(c)
  <2>1. setup[c].stage = "tcp" /\ StartTls(c, setup[c])
    BY <1>2 DEF DialDirect, Stage
  <2>2. setup[c] = [NoSetup EXCEPT !.stage = "tcp"] /\ config.proxy = NoProxy
    BY <2>1, SetupFacts DEF SoundSetup
  <2> DEFINE s == [setup[c] EXCEPT !.stage = "tls"]
  <2>3. s = [NoSetup EXCEPT !.stage = "tls"]
    BY <2>2 DEF NoSetup
  <2>4. SoundSetup(config, s, Origin(c))
    <3>1. Reads(s)
      <4>1. s.buf = <<>> /\ s.wire = <<>> /\ s.rest = <<>> /\ s.from = <<>>
        BY <2>3 DEF NoSetup
      <4> HIDE DEF s
      <4>2. <<>> \o <<>> \o <<>> = <<>> /\ Len(<<>>) = 0
        BY EmptySeq, ConcatEmptySeq
      <4> QED
        BY <4>1, <4>2, ConnectAssumption DEF Reads
    <3>2. s.asked = "none" /\ s.stage = "tls"
      BY <2>3 DEF NoSetup
    <3> HIDE DEF s
    <3> QED
      BY <2>2, <3>1, <3>2 DEF SoundSetup, Target
  <2> QED
    BY <2>1, <2>4, SetupFacts, StartTlsInv
<1>3. CASE DialProxy(c)
  <2>1. PICK from \in Answers :
           Proceeds(c, [setup[c] EXCEPT !.stage = "tunnel", !.from = from,
                           !.rest = from, !.asked = Origin(c)])
    BY <1>3 DEF DialProxy
  <2>2. setup[c].stage = "proxy" /\ calls[c].pc = "connect"
    BY <1>3, SetupFacts DEF DialProxy, Stage
  <2>3. setup[c] = [NoSetup EXCEPT !.stage = "proxy"] /\ config.proxy # NoProxy
    BY <2>2, SetupFacts DEF SoundSetup
  <2>4. from \in Seq(STRING) /\ Origin(c) \in Origins /\ setup[c] \in SetupType
    BY ConnectAssumption, CallFacts, SetupFacts DEF CInv
  <2> DEFINE s == [setup[c] EXCEPT !.stage = "tunnel", !.from = from,
                      !.rest = from, !.asked = Origin(c)]
  <2>5. s \in SetupType
    BY <2>4 DEF SetupType
  <2>6. /\ s.stage = "tunnel" /\ s.from = from /\ s.rest = from /\ s.asked = Origin(c)
        /\ s.buf = <<>> /\ s.wire = <<>>
    BY <2>3 DEF NoSetup
  <2> HIDE DEF s
  <2>7. Reads(s)
    <3>1. <<>> \o <<>> \o from = from /\ Len(<<>>) = 0
      BY <2>4, EmptySeq, ConcatEmptySeq
    <3> QED
      BY <2>6, <3>1, ConnectAssumption DEF Reads
  <2>8. SoundSetup(config, s, Origin(c))
    BY <2>3, <2>6, <2>7, NothingComplete DEF SoundSetup, Target
  <2> QED
    BY <2>1, <2>2, <2>5, <2>8, ProceedsInv DEF s
<1>4. CASE DialFails(c)
  BY <1>4, FailsInv DEF DialFails
<1> QED
  BY <1>1, <1>2, <1>3, <1>4

LEMMA ReadByteStep ==
  ASSUME CInv, NEW c \in Calls, ReadByte(c)
  PROVE  CInv' /\ (Next \/ UNCHANGED vars)
<1> DEFINE t == setup[c]
<1>1. t.stage = "tunnel" /\ calls[c].pc = "connect" /\ t \in SetupType
  BY SetupFacts DEF ReadByte, Stage
<1>2. /\ config.proxy # NoProxy /\ ~Complete(t.buf)
      /\ t.asked = Target(config, Origin(c)) /\ Reads(t)
  BY <1>1, SetupFacts DEF SoundSetup
<1>3. CASE t.wire = <<>>
  BY <1>3, FailsInv DEF ReadByte
<1>4. CASE t.wire # <<>>
  <2> DEFINE b == Append(t.buf, Head(t.wire))
             s == [t EXCEPT !.buf = b, !.wire = Tail(@)]
  <2>1. Examine(c, s)
    BY <1>4 DEF ReadByte
  <2>2. /\ t.buf \in Seq(STRING) /\ t.wire \in Seq(STRING) /\ t.rest \in Seq(STRING)
        /\ t.asked \in Origins \cup {"none"}
    BY <1>1 DEF SetupType
  <2>3. /\ b \in Seq(STRING) /\ Tail(t.wire) \in Seq(STRING)
        /\ b \o Tail(t.wire) = t.buf \o t.wire
        /\ \A n \in 0..Len(b) - 1 : ~Complete(SubSeq(b, 1, n))
    BY <1>2, <1>4, <2>2, OneMore DEF Reads
  <2> HIDE DEF b, t
  <2>4. s \in SetupType
    BY <1>1, <2>3 DEF SetupType
  <2>5. /\ s.stage = "tunnel" /\ s.from = t.from /\ s.rest = t.rest /\ s.eof = t.eof
        /\ s.asked = t.asked /\ s.buf = b /\ s.wire = Tail(t.wire)
    BY <1>1 DEF SetupType
  <2> HIDE DEF s
  <2>6. CASE Len(b) > MAX_RESPONSE_HEADER_BYTES
    BY <2>1, <2>5, <2>6, FailsInv DEF Examine
  <2>7. CASE ~(Len(b) > MAX_RESPONSE_HEADER_BYTES)
    <3>1. Reads(s)
      <4>1. Len(b) \in Nat
        BY <2>3
      <4>2. Len(b) <= MAX_RESPONSE_HEADER_BYTES
        BY <2>7, <4>1, ConnectAssumption
      <4>3. b \o Tail(t.wire) \o t.rest = t.buf \o t.wire \o t.rest
        BY <2>3
      <4> QED
        BY <1>2, <2>3, <2>5, <4>2, <4>3 DEF Reads
    <3>2. CASE ~Complete(b)
      <4>1. SoundSetup(config, s, Origin(c))
        BY <1>2, <2>5, <3>1, <3>2 DEF SoundSetup
      <4>2. Proceeds(c, s)
        BY <2>1, <2>5, <2>7, <3>2 DEF Examine
      <4> QED
        BY <1>1, <2>4, <4>1, <4>2, ProceedsInv
    <3>3. CASE Complete(b) /\ parse_status_code(b)
      <4> DEFINE u == [s EXCEPT !.stage = "tls"]
      <4>1. /\ u.stage = "tls" /\ u.from = s.from /\ u.rest = s.rest /\ u.eof = s.eof
            /\ u.asked = s.asked /\ u.buf = s.buf /\ u.wire = s.wire
        BY <2>4 DEF SetupType
      <4> HIDE DEF u
      <4>2. Reads(u)
        BY <3>1, <4>1 DEF Reads
      <4>3. SoundSetup(config, u, Origin(c))
        BY <1>2, <2>5, <3>3, <4>1, <4>2 DEF SoundSetup, parse_status_code
      <4>4. StartTls(c, s)
        BY <2>1, <2>5, <2>7, <3>3 DEF Examine
      <4> QED
        BY <1>1, <2>4, <4>3, <4>4, StartTlsInv DEF u
    <3>4. CASE Complete(b) /\ ~parse_status_code(b)
      BY <2>1, <2>5, <2>7, <3>4, FailsInv DEF Examine
    <3> QED
      BY <3>2, <3>3, <3>4
  <2> QED
    BY <2>6, <2>7
<1> QED
  BY <1>3, <1>4

LEMMA TlsSteps ==
  ASSUME CInv, NEW c \in Calls,
         TlsDone(c) \/ Settings(c) \/ HandshakeFails(c) \/ Timeout(c)
  PROVE  CInv' /\ (Next \/ UNCHANGED vars)
<1> DEFINE t == setup[c]
<1>1. /\ t \in SetupType /\ SoundSetup(config, t, Origin(c))
      /\ t.stage # "none" => calls[c].pc = "connect"
  BY SetupFacts
<1>2. CASE TlsDone(c)
  <2>1. PICK cert \in Origins \cup {"proxy"}, alpn \in Protocols(config) :
           /\ Verified(c, cert)
           /\ LET s == [t EXCEPT !.cert = cert] IN
              IF alpn = "h2" THEN Proceeds(c, [s EXCEPT !.stage = "settings"])
              ELSE Connected(c, alpn, s)
    BY <1>2 DEF TlsDone, Protocols
  <2>2. t.stage = "tls"
    BY <1>2 DEF TlsDone, Stage
  <2>3. config.danger \/ cert = Origin(c)
    BY <2>1 DEF Verified
  <2> DEFINE s == [t EXCEPT !.cert = cert]
  <2> HIDE DEF t
  <2>4. s \in SetupType
    BY <1>1 DEF SetupType
  <2>5. /\ s.stage = t.stage /\ s.from = t.from /\ s.rest = t.rest /\ s.eof = t.eof
        /\ s.asked = t.asked /\ s.buf = t.buf /\ s.wire = t.wire /\ s.cert = cert
    BY <1>1 DEF SetupType
  <2>6. CASE alpn = "h2"
    <3> DEFINE u == [s EXCEPT !.stage = "settings"]
    <3>1. Proceeds(c, u)
      BY <2>1, <2>6
    <3> HIDE DEF s
    <3>2. u \in SetupType
      BY <2>4 DEF SetupType
    <3>3. /\ u.stage = "settings" /\ u.from = t.from /\ u.rest = t.rest /\ u.eof = t.eof
          /\ u.asked = t.asked /\ u.buf = t.buf /\ u.wire = t.wire /\ u.cert = cert
      BY <2>4, <2>5 DEF SetupType
    <3> HIDE DEF u
    <3>4. Reads(u)
      BY <1>1, <2>2, <3>3 DEF SoundSetup, Reads
    <3>5. "h2" \in ToSet(config.profile.alpn)
      BY <2>6 DEF Protocols
    <3>6. SoundSetup(config, u, Origin(c))
      BY <1>1, <2>2, <2>3, <3>3, <3>4, <3>5 DEF SoundSetup
    <3> QED
      BY <1>1, <2>2, <3>1, <3>2, <3>6, ProceedsInv
  <2>7. CASE alpn # "h2"
    <3>1. Connected(c, alpn, s)
      BY <2>1, <2>7
    <3> HIDE DEF s
    <3>2. s.asked = Target(config, Origin(c)) /\ (config.danger \/ s.cert = Origin(c))
      BY <1>1, <2>2, <2>3, <2>5 DEF SoundSetup
    <3> QED
      BY <2>4, <3>1, <3>2, ConnectedInv
  <2> QED
    BY <2>6, <2>7
<1>3. CASE Settings(c)
  <2>1. t.stage = "settings" /\ Connected(c, "h2", t)
    BY <1>3 DEF Settings, Stage
  <2> HIDE DEF t
  <2>2. /\ t.asked = Target(config, Origin(c)) /\ (config.danger \/ t.cert = Origin(c))
        /\ "h2" \in Protocols(config)
    BY <1>1, <2>1 DEF SoundSetup, Protocols
  <2> QED
    BY <1>1, <2>1, <2>2, ConnectedInv
<1>4. CASE HandshakeFails(c) \/ Timeout(c)
  BY <1>4, FailsInv DEF HandshakeFails, Timeout
<1> QED
  BY <1>2, <1>3, <1>4

LEMMA ProxySteps ==
  ASSUME CInv, NEW c \in Calls, ProxySends(c) \/ ProxyCloses(c)
  PROVE  CInv' /\ (Next \/ UNCHANGED vars)
<1> DEFINE t == setup[c]
<1>1. /\ t \in SetupType /\ SoundSetup(config, t, Origin(c))
      /\ t.stage \in {"tunnel", "tls"} /\ calls[c].pc = "connect"
  BY SetupFacts DEF ProxySends, ProxyCloses, Stage
<1>2. /\ t.from \in Seq(STRING) /\ t.buf \in Seq(STRING) /\ t.wire \in Seq(STRING)
      /\ t.rest \in Seq(STRING)
  BY <1>1 DEF SetupType
<1>3. Reads(t)
  BY <1>1 DEF SoundSetup
<1>4. CASE ProxySends(c)
  <2>1. PICK n \in 1..Len(t.rest) :
           Proceeds(c, [t EXCEPT !.wire = @ \o SubSeq(t.rest, 1, n),
                                 !.rest = SubSeq(@, n + 1, Len(@))])
    BY <1>4 DEF ProxySends
  <2> DEFINE s == [t EXCEPT !.wire = @ \o SubSeq(t.rest, 1, n),
                            !.rest = SubSeq(@, n + 1, Len(@))]
  <2> HIDE DEF t
  <2>2. /\ s \in SetupType /\ Reads(s) /\ s.stage = t.stage
        /\ s.asked = t.asked /\ s.buf = t.buf
    BY <1>1, <1>3, MoreArrives
  <2>3. Proceeds(c, s)
    BY <2>1
  <2> HIDE DEF s
  <2>4. SoundSetup(config, s, Origin(c))
    BY <1>1, <2>2 DEF SoundSetup
  <2> QED
    BY <1>1, <2>2, <2>3, <2>4, ProceedsInv
<1>5. CASE ProxyCloses(c)
  <2> DEFINE s == [t EXCEPT !.eof = TRUE, !.rest = <<>>]
  <2>1. Proceeds(c, s)
    BY <1>5 DEF ProxyCloses
  <2> HIDE DEF t
  <2>2. s \in SetupType
    BY <1>1, EmptySeq DEF SetupType
  <2>3. s.stage = t.stage /\ s.eof /\ s.asked = t.asked /\ s.buf = t.buf
    BY <1>1 DEF SetupType
  <2> HIDE DEF s
  <2>4. Reads(s)
    BY <1>3, <2>3 DEF Reads
  <2>5. SoundSetup(config, s, Origin(c))
    BY <1>1, <2>3, <2>4 DEF SoundSetup
  <2> QED
    BY <1>1, <2>1, <2>2, <2>5, ProceedsInv
<1> QED
  BY <1>4, <1>5

(* The steps that are Client's own, taken by a call that sets up nothing.  *)
LEMMA OwnSteps ==
  ASSUME CInv, NEW c \in Calls, Progress(c) \/ Served(c)
  PROVE  CInv' /\ Next
<1>1. Forget /\ config' = config /\ setup' = setup
  BY DEF Progress, Served
<1>2. Next
  BY DEF Progress, Served, Next, execute_single_with_method
<1>3. IInv'
  BY <1>2, NextInv DEF CInv
<1>4. /\ calls[c].pc \in {"take", "exchange", "store"}
      /\ \E x : calls' = [calls EXCEPT ![c] = x]
  BY DEF Progress, Served, TakePooled, ExchangeFails, Store, Answered, Apply, Set
<1>5. /\ \A d \in Calls \ {c} : calls'[d] = calls[d] /\ setup'[d] = setup[d]
      /\ setup' \in [Calls -> SetupType] /\ setup'[c].stage = "none"
  BY <1>1, <1>4 DEF CInv, IInv, TypeOK, Setups
<1>6. conns \in [Conns -> ConnType \cup {Absent}]
  BY DEF CInv, IInv, TypeOK
<1>7. ASSUME NEW k \in Conns
      PROVE  \/ conns'[k] = Absent
             \/ /\ conns[k] # Absent /\ conns'[k].origin = conns[k].origin
                /\ conns'[k].proto = conns[k].proto
  <2> DEFINE Same == conns'[k] = Absent \/ (/\ conns[k] # Absent
                        /\ conns'[k].origin = conns[k].origin
                        /\ conns'[k].proto = conns[k].proto)
  <2>1. conns'[k] \in {conns[k], Absent} => Same
    OBVIOUS
  <2>2. CASE TakePooled(c)
    <3>1. CASE pool[Origin(c)] = NoConn
      BY <2>1, <2>2, <3>1 DEF TakePooled
    <3>2. CASE pool[Origin(c)] # NoConn
      <4>1. conns[pool[Origin(c)]] # Absent /\ pool[Origin(c)] \in Conns
        BY <3>2, CallFacts DEF CInv, IInv, TypeOK, PooledIsReady, Unused
      <4>2. conns' = [conns EXCEPT ![pool[Origin(c)]].busy = TRUE]
        BY <2>2, <3>2 DEF TakePooled
      <4> QED
        BY <1>6, <4>1, <4>2 DEF ConnType
    <3> QED
      BY <3>1, <3>2
  <2>3. ASSUME Owns(calls[c])
        PROVE  Conn(c) \in Conns /\ conns[Conn(c)] \in ConnType /\ conns[Conn(c)] # Absent
    BY <2>3, CallFacts DEF CInv, ConnType, Absent
  <2>4. ASSUME NEW resp \in Responses, Answered(c, resp)
        PROVE  Same
    <3>1. Conn(c) \in Conns /\ conns[Conn(c)] \in ConnType /\ conns[Conn(c)] # Absent
      BY <2>3, <2>4 DEF Answered, Owns
    <3>2. CASE Kept(Conn(c))
      <4>1. conns' = [conns EXCEPT ![Conn(c)].busy = FALSE]
        BY <2>4, <3>2 DEF Answered
      <4> QED
        BY <1>6, <3>1, <4>1 DEF ConnType
    <3>3. CASE ~Kept(Conn(c))
      BY <1>6, <2>1, <2>4, <3>1, <3>3 DEF Answered
    <3> QED
      BY <3>2, <3>3
  <2>5. CASE ExchangeFails(c)
    BY <1>6, <2>1, <2>5 DEF ExchangeFails
  <2>6. CASE Store(c)
    BY <1>6, <2>1, <2>6 DEF Store
  <2>7. CASE Apply(c)
    <3>1. Conn(c) \in Conns /\ conns[Conn(c)] \in ConnType /\ conns[Conn(c)] # Absent
      BY <2>3, <2>7 DEF Apply, Owns
    <3>2. PICK closing \in BOOLEAN : conns' = [conns EXCEPT ![Conn(c)].closing = closing]
      BY <2>7 DEF Apply
    <3> QED
      BY <1>6, <3>1, <3>2 DEF ConnType
  <2> QED
    BY <2>2, <2>4, <2>5, <2>6, <2>7 DEF Progress, Served
<1> QED
  BY <1>1, <1>2, <1>3, <1>5, <1>7, SightsKept

LEMMA SentStep ==
  ASSUME CInv, NEW c \in Calls, Sent(c)
  PROVE  CInv' /\ Next
<1>1. /\ send(c) /\ setup' = [setup EXCEPT ![c] = NoSetup] /\ UNCHANGED <<config, shown>>
  BY DEF Sent, Enter
<1>2. Next
  BY <1>1 DEF Next
<1>3. IInv'
  BY <1>2, NextInv DEF CInv
<1>4. /\ conns' = conns /\ \E x : calls' = [calls EXCEPT ![c] = x]
  BY <1>1 DEF send, Set
<1>5. NoSetup \in SetupType /\ NoSetup.stage = "none"
  BY IdleSound
<1>6. /\ \A d \in Calls \ {c} : calls'[d] = calls[d] /\ setup'[d] = setup[d]
      /\ setup' \in [Calls -> SetupType] /\ setup'[c] = NoSetup
  BY <1>1, <1>4, <1>5 DEF CInv, IInv, TypeOK, Setups
<1>7. Setups'
  <2>1. calls' \in [Calls -> CallType]
    BY <1>3 DEF IInv, TypeOK
  <2>2. SoundSetup(config, NoSetup, calls'[c].origin)
    BY IdleSound
  <2> QED
    BY <1>1, <1>5, <1>6, <2>1, <2>2, SetupsKept
<1>8. Sights'
  BY <1>1, <1>4 DEF CInv, Sights
<1> QED
  BY <1>1, <1>2, <1>3, <1>7, <1>8 DEF CInv

LEMMA DroppedStep ==
  ASSUME CInv, NEW c \in Calls, Dropped(c)
  PROVE  CInv' /\ Next
<1>1. /\ Cancel(c) /\ setup' = [setup EXCEPT ![c] = NoSetup]
      /\ Forget /\ config' = config
  BY DEF Dropped, Enter
<1>2. Next
  BY <1>1 DEF Next
<1>3. IInv'
  BY <1>2, NextInv DEF CInv
<1>4. /\ conns' = [k \in Conns |-> IF k = Conn(c) THEN Absent ELSE conns[k]]
      /\ calls' = [calls EXCEPT ![c] = Returned("cancelled")]
  BY <1>1 DEF Cancel, Set
<1>5. NoSetup \in SetupType /\ NoSetup.stage = "none"
  BY IdleSound
<1>6. /\ \A d \in Calls \ {c} : calls'[d] = calls[d] /\ setup'[d] = setup[d]
      /\ setup' \in [Calls -> SetupType] /\ setup'[c].stage = "none"
  BY <1>1, <1>4, <1>5 DEF CInv, IInv, TypeOK, Setups
<1>7. \A k \in Conns : conns'[k] \in {conns[k], Absent}
  BY <1>4
<1> QED
  BY <1>1, <1>2, <1>3, <1>6, <1>7, SightsKept

-----------------------------------------------------------------------------
(* The invariant, and the refinement *)

LEMMA ConnectInitInv ==
  ASSUME ConnectInit
  PROVE  CInv
<1>1. IInv /\ Init
  BY InitInv DEF ConnectInit
<1>2. /\ config \in Configs /\ setup = [c \in Calls |-> NoSetup]
      /\ shown = [k \in Conns |-> Unseen]
  BY DEF ConnectInit
<1>3. Setups
  <2>1. \A o : NoSetup \in SetupType /\ NoSetup.stage = "none" /\ SoundSetup(config, NoSetup, o)
    BY IdleSound
  <2> QED
    BY <1>2, <2>1 DEF Setups
<1>4. Sights
  <2>1. Unseen \in ShownType(config)
    BY DEF Unseen, ShownType, Protocols
  <2> QED
    BY <1>1, <1>2, <2>1 DEF Sights, Init
<1> QED
  BY <1>1, <1>2, <1>3, <1>4 DEF CInv

LEMMA ConnectNextInv ==
  ASSUME CInv, [ConnectNext]_connectVars
  PROVE  CInv' /\ [Next]_vars
<1>1. ASSUME NEW c \in Calls,
             Dial(c) \/ DialDirect(c) \/ DialProxy(c) \/ DialFails(c)
      PROVE  CInv' /\ [Next]_vars
  BY <1>1, DialSteps
<1>2. ASSUME NEW c \in Calls, ReadByte(c)
      PROVE  CInv' /\ [Next]_vars
  BY <1>2, ReadByteStep
<1>3. ASSUME NEW c \in Calls,
             TlsDone(c) \/ Settings(c) \/ HandshakeFails(c) \/ Timeout(c)
      PROVE  CInv' /\ [Next]_vars
  BY <1>3, TlsSteps
<1>4. ASSUME NEW c \in Calls, ProxySends(c) \/ ProxyCloses(c)
      PROVE  CInv' /\ [Next]_vars
  BY <1>4, ProxySteps
<1>5. ASSUME NEW c \in Calls, Progress(c) \/ Served(c)
      PROVE  CInv' /\ [Next]_vars
  BY <1>5, OwnSteps
<1>6. ASSUME NEW c \in Calls, Sent(c)
      PROVE  CInv' /\ [Next]_vars
  BY <1>6, SentStep
<1>7. ASSUME NEW c \in Calls, Dropped(c)
      PROVE  CInv' /\ [Next]_vars
  BY <1>7, DroppedStep
<1>8. CASE UNCHANGED connectVars
  <2>1. UNCHANGED <<calls, conns, pool, config, setup, shown>> /\ UNCHANGED vars
    BY <1>8 DEF connectVars, vars
  <2>2. IInv'
    BY <2>1, StutterStep DEF CInv
  <2>3. Setups' /\ Sights'
    BY <2>1 DEF CInv, Setups, Sights, Origin
  <2> QED
    BY <2>1, <2>2, <2>3 DEF CInv
<1> QED
  BY <1>1, <1>2, <1>3, <1>4, <1>5, <1>6, <1>7, <1>8 DEF ConnectNext

(* The inductive invariant holds of every run of the set-up.               *)
THEOREM ConnectInductive == ConnectSpec => []CInv
<1>1. ConnectInit => CInv
  BY ConnectInitInv
<1>2. CInv /\ [ConnectNext]_connectVars => CInv'
  BY ConnectNextInv
<1> QED
  BY <1>1, <1>2, PTL DEF ConnectSpec

(* Connection set-up implements the one step that Client makes of it:      *)
(* dials, tunnels, handshakes and their timeouts are invisible to the pool *)
(* and to the other calls until a connection is there or the call fails.   *)
THEOREM ImplementsClient == ConnectSpec => Spec
<1>1. ConnectInit => Init
  BY DEF ConnectInit
<1>2. CInv /\ [ConnectNext]_connectVars => [Next]_vars
  BY ConnectNextInv
<1> QED
  BY <1>1, <1>2, ConnectInductive, PTL DEF ConnectSpec, Spec

(* Only a call that connects has a set-up, whatever is cancelled or fails  *)
(* meanwhile; it keeps no more of the proxy's answer than the limit, and   *)
(* nothing is remembered of a connection that is gone.                     *)
THEOREM SetupsTyped == ConnectSpec => []ConnectType
<1>1. CInv => ConnectType
  BY DEF CInv, Setups, Sights, ConnectType, Stage, SetupType, SoundSetup, Reads, Unused
<1> QED
  BY <1>1, ConnectInductive, PTL

(* However the proxy's answer arrives, the client takes exactly its header *)
(* off the stream before TLS begins, and begins TLS only if that says 200. *)
THEOREM NothingLost == ConnectSpec => []NothingSwallowed
<1>1. CInv => NothingSwallowed
  <2> SUFFICES ASSUME CInv, NEW c \in Calls,
                      setup[c].stage \in {"tunnel", "tls", "settings"}
               PROVE  LET s == setup[c] IN
                      /\ ~s.eof => s.buf \o s.wire \o s.rest = s.from
                      /\ \A n \in 0..Len(s.buf) - 1 : ~Complete(SubSeq(s.buf, 1, n))
                      /\ s.stage \in {"tls", "settings"} /\ s.asked # "none"
                            => Complete(s.buf) /\ s.buf[1] = "200"
    BY DEF NothingSwallowed
  <2> DEFINE s == setup[c]
  <2>1. s \in SetupType /\ SoundSetup(config, s, Origin(c))
    BY SetupFacts
  <2> HIDE DEF s
  <2>2. Reads(s)
    BY <2>1 DEF SoundSetup, s
  <2>3. ASSUME s.stage \in {"tls", "settings"}, s.asked # "none"
        PROVE  Complete(s.buf) /\ s.buf[1] = "200"
    <3>1. config.proxy # NoProxy
      BY <2>1, <2>3 DEF SoundSetup, Target
    <3>2. Complete(s.buf) /\ Head(s.buf) = "200" /\ s.buf \in Seq(STRING)
      BY <2>1, <2>3, <3>1 DEF SoundSetup, SetupType
    <3> QED
      BY <3>2
  <2> QED
    BY <2>2, <2>3 DEF Reads, s
<1> QED
  BY <1>1, ConnectInductive, PTL

(* The connection a call uses, however often it was pooled and taken       *)
(* again, was asked of the proxy for the call's origin, was shown that     *)
(* origin's certificate, and speaks what ALPN chose.                       *)
THEOREM SetupLeadsToOrigin == ConnectSpec => []LeadsToOrigin
<1>1. CInv => LeadsToOrigin
  <2> SUFFICES ASSUME CInv, NEW c \in Calls, Conn(c) # NoConn
               PROVE  LET k == Conn(c) IN
                      /\ shown[k].asked = IF config.proxy = NoProxy THEN "none" ELSE Origin(c)
                      /\ config.danger \/ shown[k].cert = Origin(c)
                      /\ shown[k].alpn \in ToSet(config.profile.alpn) \cup {"none"}
                      /\ conns[k].proto = "h2" <=> shown[k].alpn = "h2"
    BY DEF LeadsToOrigin
  <2>1. /\ Conn(c) \in Conns /\ conns[Conn(c)] \in ConnType
        /\ conns[Conn(c)].origin = Origin(c) /\ conns[Conn(c)] # Absent
    BY CallFacts DEF CInv, ConnType, Absent
  <2>2. SoundConn(config, conns[Conn(c)], shown[Conn(c)])
    BY <2>1 DEF CInv, Sights
  <2>3. shown[Conn(c)] \in ShownType(config)
    BY <2>1 DEF CInv, Sights
  <2>4. shown[Conn(c)].alpn \in ToSet(config.profile.alpn) \cup {"none"}
    BY <2>3 DEF ShownType, Protocols
  <2> QED
    BY <2>1, <2>2, <2>4 DEF SoundConn, Target
<1> QED
  BY <1>1, ConnectInductive, PTL

(* With set-up in detail, too, the method of every hop is the one asked    *)
(* for, until a 301, 302 or 303 was followed, and GET ever after; and two  *)
(* calls never share a connection.                                         *)
THEOREM ConnectMethodsKept == ConnectSpec => []MethodKept /\ []Exclusive
  BY ImplementsClient, MethodsKept, ConnectionsExclusive, PTL
=============================================================================
