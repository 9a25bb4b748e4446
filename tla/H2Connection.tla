---------------------------- MODULE H2Connection ----------------------------
(***************************************************************************)
(* The HTTP/2 client connection of crates/h2: one task drives one          *)
(* connection through the handshake and then through one request at a      *)
(* time, reading frames only while it waits for something.                 *)
(*                                                                         *)
(* Every step of the client ends where the code awaits the socket.  What   *)
(* the client writes reaches the server's ledgers at once, because a       *)
(* server may react as late as it likes; what the server writes travels    *)
(* through the queue `inbox' in order.  The server is the environment: it  *)
(* keeps to the credit it was given, and nothing obliges it to answer.     *)
(*                                                                         *)
(* Payloads are abstracted to their sizes, header blocks to their role.    *)
(***************************************************************************)
EXTENDS Integers, Sequences, FiniteSets

CONSTANTS
    InitSendWindow,   \* 65535, the connection send window before any update
    ConnRecvMax,      \* 65535 + CONNECTION_WINDOW_INCREMENT
    StreamWindow,     \* INITIAL_WINDOW_SIZE, both directions of a new stream
    MaxWindow,        \* 0x7FFF_FFFF, the largest legal window
    MinFrame,         \* 16384, the default SETTINGS_MAX_FRAME_SIZE
    MaxFrame,         \* 16777215, the largest legal SETTINGS_MAX_FRAME_SIZE
    MaxBody,          \* max_response_body_size
    MaxHeaderBlock,   \* MAX_HEADER_BLOCK_SIZE, in CONTINUATION frames
    MaxStreamId,      \* 0x7FFF_FFFF, the last stream identifier
    Bodies,           \* request body sizes callers use; 0: no body or empty
    PeerFrameSizes,   \* SETTINGS_MAX_FRAME_SIZE values servers announce
    PeerWindows,      \* SETTINGS_INITIAL_WINDOW_SIZE values servers announce
    Increments,       \* WINDOW_UPDATE increments servers send
    DataSizes,        \* DATA frame sizes servers send
    EarlyResponse,    \* may the server answer before the request has ended?
    Trailers,         \* may a response end with a trailer section?
    LaterFrameSizes,  \* frame sizes a later SETTINGS may announce
    MaxInbox,         \* bound: frames in flight to the client
    MaxSent,          \* bound: response bytes on the connection
    MaxCtl            \* bound: control frames, besides PING, on the connection

NoGoAway == -1

ASSUME WindowAssumption ==
    /\ InitSendWindow \in Nat /\ MaxWindow \in Nat /\ InitSendWindow <= MaxWindow
    /\ ConnRecvMax \in Nat \ {0}
    /\ StreamWindow \in Nat \ {0}
    /\ MinFrame \in Nat \ {0} /\ MaxFrame \in Nat /\ MinFrame <= MaxFrame

ASSUME LimitAssumption ==
    /\ MaxBody \in Nat /\ MaxHeaderBlock \in Nat /\ MaxStreamId \in Nat
    /\ MaxInbox \in Nat /\ MaxSent \in Nat /\ MaxCtl \in Nat

ASSUME PeerAssumption ==
    /\ Bodies \subseteq Nat
    /\ PeerFrameSizes \subseteq Nat /\ LaterFrameSizes \subseteq Nat
    /\ PeerWindows \subseteq Nat
    /\ Increments \subseteq Nat \ {0} /\ DataSizes \subseteq Nat
    /\ EarlyResponse \in BOOLEAN /\ Trailers \in BOOLEAN

VARIABLES
    pc,       \* where the client task awaits
    conn,     \* struct Connection, with the stream id allocator
    strm,     \* struct Stream of the request in progress
    left,     \* request body bytes not yet written
    resp,     \* resp_headers and the length of resp_body
    block,    \* header block being assembled from CONTINUATION frames
    result,   \* what the last call of handshake or send_request returned
    inbox,    \* frames from the server, in order
    srv,      \* the server's protocol state; body: DATA bytes of its answer
    ledger,   \* the server's view of the flow-control credits
    pings,    \* PINGs sent by the server and not acknowledged
    ctl       \* control frames the server has spent

vars == <<pc, conn, strm, left, resp, block, result,
          inbox, srv, ledger, pings, ctl>>

-----------------------------------------------------------------------------
(* Frames *)

FrameTypes == {"settings", "settings_ack", "ping", "goaway", "goaway_error",
               "window_update", "headers", "continuation", "data",
               "rst_stream", "invalid"}
HeaderKinds == {"none", "interim", "final", "trailers", "malformed"}

(* `n' is the payload length, increment, last stream id or frame size.     *)
(* `sent' and `granted' are the server's running totals of DATA bytes and  *)
(* of connection credit, this frame included; only proofs look at them.    *)
FrameSet == [type: FrameTypes, sid: Nat, n: Nat, es: BOOLEAN, eh: BOOLEAN,
             kind: HeaderKinds, sent: Nat, granted: Nat]

Bytes(f) == IF f.type = "data" THEN f.n ELSE 0
Credit(f) == IF f.type = "window_update" /\ f.sid = 0 THEN f.n ELSE 0

(* The frame at the head of the queue is the one read_frame returns. *)
Pending == inbox # <<>>
Frame == Head(inbox)
Ours == Frame.sid = strm.id

(* Frame::decode and the size check of read_frame_with_max accept it. *)
WellFormed == Frame.type # "invalid"

-----------------------------------------------------------------------------
(* The client *)

Fail(e) == pc' = "closed" /\ result' = e

(* The frame leaves the queue.  `lost' counts DATA bytes that left it      *)
(* without being taken off the receive windows.                            *)
Consume(lost) ==
    /\ inbox' = Tail(inbox)
    /\ ledger' = [ledger EXCEPT !.rcvd = @ + Bytes(Frame),
                                !.taken = @ + Credit(Frame),
                                !.lost = @ + lost]

(* Mutant: PINGs are passed over while the upload waits. *)
AnswerPingLater ==
    /\ Frame.type = "ping"
    /\ pings' = IF pc = "upload" THEN pings ELSE pings - 1
    /\ UNCHANGED <<pc, result, conn>>

AnswerPing ==
    /\ Frame.type = "ping"
    /\ pings' = pings - 1
    /\ UNCHANGED <<pc, result, conn>>

(* Mutant: a graceful GOAWAY is not remembered. *)
ForgetGoAway ==
    /\ Frame.type = "goaway"
    /\ UNCHANGED <<pc, result, conn, pings>>

(* Each GOAWAY replaces the one before it. *)
StoreGoAway ==
    /\ Frame.type = "goaway"
    /\ conn' = [conn EXCEPT !.goaway = Frame.n]
    /\ UNCHANGED <<pc, result, pings>>

GoAwayError ==
    /\ Frame.type = "goaway_error"
    /\ conn' = [conn EXCEPT !.goaway = Frame.n]
    /\ Fail("goaway")
    /\ UNCHANGED pings

(* Mutant: without the overflow check. *)
RaiseSendWindowUnchecked ==
    /\ Frame.type = "window_update" /\ Frame.sid = 0
    /\ conn' = [conn EXCEPT !.send_window = @ + Frame.n]
    /\ UNCHANGED <<pc, result, pings>>

RaiseSendWindow ==
    /\ Frame.type = "window_update" /\ Frame.sid = 0
    /\ IF conn.send_window + Frame.n > MaxWindow
       THEN Fail("overflow") /\ UNCHANGED conn
       ELSE /\ conn' = [conn EXCEPT !.send_window = @ + Frame.n]
            /\ UNCHANGED <<pc, result>>
    /\ UNCHANGED pings

(* Everything else is dropped: stream-level WINDOW_UPDATE, SETTINGS after  *)
(* the handshake, and frames of any stream when called from the upload.    *)
Ignore ==
    /\ \/ Frame.type \in {"settings", "settings_ack", "headers",
                          "continuation", "data", "rst_stream"}
       \/ Frame.type = "window_update" /\ Frame.sid # 0
    /\ UNCHANGED <<pc, result, conn, pings>>

handle_frame ==
    /\ AnswerPing \/ StoreGoAway \/ GoAwayError \/ RaiseSendWindow \/ Ignore
    /\ Consume(Bytes(Frame))
    /\ UNCHANGED <<strm, left, resp, block, srv, ctl>>

(* What flow control lets one DATA frame carry. *)
Smallest(S) == CHOOSE x \in S : \A y \in S : x <= y

(* Mutants: without the connection window, without the frame size. *)
AvailableOnStream == Smallest({strm.send_window, conn.peer_max})
AvailableUnframed == Smallest({conn.send_window, strm.send_window})

Available == Smallest({conn.send_window, strm.send_window, conn.peer_max})

(* A frame the codec rejects fails whatever read was waiting for it. *)
RejectFrame ==
    /\ pc \in {"handshake", "upload", "response", "continuation"}
    /\ pc = "upload" => Available = 0
    /\ Pending /\ ~WellFormed
    /\ Fail("protocol")
    /\ Consume(0)
    /\ UNCHANGED <<conn, strm, left, resp, block, srv, pings, ctl>>

(* The preface, our SETTINGS and the WINDOW_UPDATE have been written. *)
handshake ==
    /\ pc = "handshake"
    /\ conn = [next |-> 1, send_window |-> InitSendWindow,
               recv_window |-> ConnRecvMax, peer_max |-> MinFrame,
               goaway |-> NoGoAway]
    /\ strm = [id |-> 0, state |-> "idle", send_window |-> 0, recv_window |-> 0]
    /\ left = 0 /\ resp = [headers |-> "none", body |-> 0]
    /\ block = [len |-> 0, es |-> FALSE, kind |-> "none"]
    /\ result = "none"

ReadSettings ==
    /\ pc = "handshake" /\ Pending /\ Frame.type = "settings"
    /\ conn' = [conn EXCEPT !.peer_max =
                   IF Frame.n \in MinFrame..MaxFrame THEN Frame.n ELSE @]
    /\ pc' = "idle" /\ result' = "connected"
    /\ Consume(0)
    /\ UNCHANGED <<strm, left, resp, block, srv, pings, ctl>>

ReadBeforeSettings ==
    /\ pc = "handshake" /\ Pending /\ WellFormed /\ Frame.type # "settings"
    /\ handle_frame

(* Mutant: the elapsed deadline starts another wait. *)
SettingsTimeoutRetries == pc = "handshake" /\ ~Pending /\ UNCHANGED vars

(* The deadline of the handshake is absolute: frames do not move it. *)
SettingsTimeout ==
    /\ pc = "handshake" /\ ~Pending
    /\ Fail("timeout")
    /\ UNCHANGED <<conn, strm, left, resp, block, inbox, srv, ledger, pings, ctl>>

read_and_ack_settings == ReadSettings \/ ReadBeforeSettings

(* send_request is refused: the next stream lies beyond the GOAWAY, or the *)
(* identifiers are used up.  The caller drops the connection on any error. *)
RefuseRequest ==
    /\ pc = "idle"
    /\ \/ conn.goaway # NoGoAway /\ conn.next > conn.goaway /\ Fail("goaway")
       \/ /\ conn.goaway = NoGoAway \/ conn.next <= conn.goaway
          /\ conn.next > MaxStreamId
          /\ Fail("exhausted")
    /\ UNCHANGED <<conn, strm, left, resp, block, inbox, srv, ledger, pings, ctl>>

(* The stream opens with our own initial window in both directions, and    *)
(* HEADERS is written.  An empty body ends the stream at once.             *)
StartRequest(size) ==
    /\ pc = "idle"
    /\ conn.goaway = NoGoAway \/ conn.next <= conn.goaway
    /\ conn.next <= MaxStreamId
    /\ conn' = [conn EXCEPT !.next = @ + 2]
    /\ strm' = [id |-> conn.next,
                state |-> IF size = 0 THEN "half_closed_local" ELSE "open",
                send_window |-> StreamWindow, recv_window |-> StreamWindow]
    /\ left' = size
    /\ pc' = IF size = 0 THEN "response" ELSE "upload"
    /\ resp' = [headers |-> "none", body |-> 0]
    /\ result' = "none"
    /\ srv' = [srv EXCEPT !.phase = "open", !.ended = (size = 0), !.body = 0]
    /\ ledger' = [ledger EXCEPT !.stream_allow = StreamWindow,
                                !.stream_credit = srv.window]
    /\ UNCHANGED <<block, inbox, pings, ctl>>

UploadChunk ==
    /\ pc = "upload" /\ Available > 0
    /\ LET sent == Smallest({Available, left}) IN
       /\ left' = left - sent
       /\ conn' = [conn EXCEPT !.send_window = @ - sent]
       /\ ledger' = [ledger EXCEPT !.credit = @ - sent,
                                   !.stream_credit = @ - sent]
       /\ strm' = [strm EXCEPT !.send_window = @ - sent,
                      !.state = IF sent = left THEN "half_closed_local" ELSE @]
       /\ pc' = IF sent = left THEN "response" ELSE "upload"
       /\ srv' = [srv EXCEPT !.ended = (sent = left)]
    /\ UNCHANGED <<resp, block, result, inbox, pings, ctl>>

UploadWait ==
    /\ pc = "upload" /\ Available = 0 /\ Pending /\ WellFormed
    /\ handle_frame

(* Mutant: the elapsed timer starts another wait. *)
UploadTimeoutRetries ==
    pc = "upload" /\ Available = 0 /\ ~Pending /\ UNCHANGED vars

UploadTimeout ==
    /\ pc = "upload" /\ Available = 0 /\ ~Pending
    /\ Fail("flow_timeout")
    /\ UNCHANGED <<conn, strm, left, resp, block, inbox, srv, ledger, pings, ctl>>

(* A complete header block of our stream replaces resp_headers. *)
FinishHeaders(kind, es) ==
    IF kind = "malformed"
    THEN Fail("hpack") /\ UNCHANGED <<strm, resp>>
    ELSE /\ resp' = [resp EXCEPT !.headers = kind]
         /\ strm' = IF es THEN [strm EXCEPT !.state = "closed"] ELSE strm
         /\ pc' = IF es THEN "idle" ELSE "response"
         /\ result' = IF es THEN "ok" ELSE result

(* Mutant: END_STREAM ends the header block too. *)
ReadHeadersToEnd ==
    /\ pc = "response" /\ Pending /\ Frame.type = "headers" /\ Ours
    /\ IF Frame.eh \/ Frame.es
       THEN FinishHeaders(Frame.kind, Frame.es) /\ UNCHANGED block
       ELSE /\ block' = [len |-> 1, es |-> Frame.es, kind |-> Frame.kind]
            /\ pc' = "continuation"
            /\ UNCHANGED <<strm, resp, result>>
    /\ Consume(0)
    /\ UNCHANGED <<conn, left, srv, pings, ctl>>

ReadHeaders ==
    /\ pc = "response" /\ Pending /\ Frame.type = "headers" /\ Ours
    /\ IF Frame.eh
       THEN FinishHeaders(Frame.kind, Frame.es) /\ UNCHANGED block
       ELSE /\ block' = [len |-> 1, es |-> Frame.es, kind |-> Frame.kind]
            /\ pc' = "continuation"
            /\ UNCHANGED <<strm, resp, result>>
    /\ Consume(0)
    /\ UNCHANGED <<conn, left, srv, pings, ctl>>

BlockTooLarge ==
    /\ pc = "continuation" /\ block.len > MaxHeaderBlock
    /\ Fail("protocol")
    /\ UNCHANGED <<conn, strm, left, resp, block, inbox, srv, ledger, pings, ctl>>

ReadContinuation ==
    /\ pc = "continuation" /\ block.len <= MaxHeaderBlock /\ Pending /\ WellFormed
    /\ IF Frame.type = "continuation" /\ Ours
       THEN /\ block' = [block EXCEPT !.len = @ + 1]
            /\ IF Frame.eh THEN FinishHeaders(block.kind, block.es)
                           ELSE UNCHANGED <<pc, strm, resp, result>>
       ELSE Fail("protocol") /\ UNCHANGED <<block, strm, resp>>
    /\ Consume(0)
    /\ UNCHANGED <<conn, left, srv, pings, ctl>>

(* Mutant: twice the window instead of half of it. *)
TopUpTooLate(max, window) ==
    IF max - window > 2 * max THEN max - window ELSE 0

(* What a receive window is topped up by: nothing until more than half of  *)
(* it is used, then all that is used.                                      *)
TopUp(max, window) == IF max - window > max \div 2 THEN max - window ELSE 0

(* Mutant: the update is written but the window is not raised. *)
ReplenishedNot(max, window) == window

Replenished(max, window) == window + TopUp(max, window)

(* Mutant: each DATA frame replaces the body. *)
ReceivedLast(n) == n

(* The length of resp_body once n more bytes are appended. *)
Received(n) == resp.body + n

ReadData ==
    /\ pc = "response" /\ Pending /\ Frame.type = "data" /\ Ours
    /\ LET recv == conn.recv_window - Frame.n
           srecv == strm.recv_window - Frame.n
           body == Received(Frame.n)
       IN
       /\ resp' = [resp EXCEPT !.body = body]
       /\ inbox' = Tail(inbox)
       /\ IF body > MaxBody
          THEN /\ Fail("protocol")
               /\ conn' = [conn EXCEPT !.recv_window = recv]
               /\ strm' = [strm EXCEPT !.recv_window = srecv]
               /\ ledger' = [ledger EXCEPT !.rcvd = @ + Frame.n]
          ELSE /\ conn' = [conn EXCEPT !.recv_window = Replenished(ConnRecvMax, recv)]
               /\ strm' = [strm EXCEPT !.recv_window = Replenished(StreamWindow, srecv),
                              !.state = IF Frame.es THEN "closed" ELSE @]
               /\ ledger' = [ledger EXCEPT !.rcvd = @ + Frame.n,
                                           !.conn_allow = @ + TopUp(ConnRecvMax, recv),
                                !.stream_allow = @ + TopUp(StreamWindow, srecv)]
               /\ pc' = IF Frame.es THEN "idle" ELSE "response"
               /\ result' = IF Frame.es THEN "ok" ELSE result
    /\ UNCHANGED <<left, block, srv, pings, ctl>>

ReadReset ==
    /\ pc = "response" /\ Pending /\ Frame.type = "rst_stream" /\ Ours
    /\ Fail("reset")
    /\ Consume(0)
    /\ UNCHANGED <<conn, strm, left, resp, block, srv, pings, ctl>>

ReadOther ==
    /\ pc = "response" /\ Pending /\ WellFormed
    /\ ~(Frame.type \in {"headers", "data", "rst_stream"} /\ Ours)
    /\ handle_frame

(* The timer of a read starts again with every frame. *)
ResponseTimeout ==
    /\ \/ pc = "response"
       \/ pc = "continuation" /\ block.len <= MaxHeaderBlock
    /\ ~Pending
    /\ Fail("timeout")
    /\ UNCHANGED <<conn, strm, left, resp, block, inbox, srv, ledger, pings, ctl>>

(* A read that meets the end of the stream, or a write after the server    *)
(* has closed, returns an I/O error.                                       *)
IoFailure ==
    /\ pc \in {"handshake", "upload", "response", "continuation"}
    /\ ~srv.up
    /\ Fail("io")
    /\ UNCHANGED <<conn, strm, left, resp, block, inbox, srv, ledger, pings, ctl>>

(* What the caller does with an idle connection. *)
send_request == RefuseRequest \/ \E size \in Bodies : StartRequest(size)

(* The steps the task takes by itself once its socket is ready. *)
ClientStep ==
    \/ read_and_ack_settings
    \/ UploadChunk \/ UploadWait
    \/ ReadHeaders \/ ReadContinuation \/ BlockTooLarge
    \/ ReadData \/ ReadReset \/ ReadOther
    \/ RejectFrame \/ IoFailure

-----------------------------------------------------------------------------
(* The server *)

Stamped(type, sid, n, es, eh, kind) ==
    [type |-> type, sid |-> sid, n |-> n, es |-> es, eh |-> eh, kind |-> kind,
     sent |-> ledger.sent + IF type = "data" THEN n ELSE 0,
     granted |-> ledger.granted
                   + IF type = "window_update" /\ sid = 0 THEN n ELSE 0]

Plain(type, sid, n) == Stamped(type, sid, n, FALSE, FALSE, "none")

Deliver(f) ==
    /\ pc # "closed" /\ srv.up /\ Len(inbox) < MaxInbox
    /\ inbox' = Append(inbox, f)
    /\ UNCHANGED <<pc, conn, strm, left, resp, block, result>>

Control(f) ==
    /\ ~srv.split /\ ctl < MaxCtl
    /\ Deliver(f)
    /\ ctl' = ctl + 1

(* The current stream is one the server still serves. *)
Serving == strm.id <= srv.last

SrvSettings ==
    /\ ~srv.settled /\ ~srv.split
    /\ \E size \in PeerFrameSizes, window \in PeerWindows :
          /\ Deliver(Plain("settings", 0, size))
          /\ srv' = [srv EXCEPT !.settled = TRUE, !.window = window,
                !.max = IF size \in MinFrame..MaxFrame THEN size ELSE MinFrame]
    /\ UNCHANGED <<ledger, pings, ctl>>

SrvLaterSettings ==
    /\ srv.settled
    /\ \E size \in LaterFrameSizes :
          /\ Control(Plain("settings", 0, size))
          /\ srv' = [srv EXCEPT !.max = size]
    /\ UNCHANGED <<ledger, pings>>

SrvSettingsAck ==
    /\ Control(Plain("settings_ack", 0, 0))
    /\ UNCHANGED <<srv, ledger, pings>>

SrvPing ==
    /\ ~srv.split
    /\ Deliver(Plain("ping", 0, 0))
    /\ pings' = pings + 1
    /\ UNCHANGED <<srv, ledger, ctl>>

(* A server may lower the last stream it serves, never raise it, and it    *)
(* does not go back on a stream it has begun to answer.                    *)
SrvGoAway ==
    /\ \E last \in {0, strm.id, MaxStreamId} :
          /\ last <= srv.last
          /\ srv.phase \in {"answering", "done"} => last >= strm.id
          /\ \E type \in {"goaway", "goaway_error"} : Control(Plain(type, 0, last))
          /\ srv' = [srv EXCEPT !.last = last]
    /\ UNCHANGED <<ledger, pings>>

SrvWindowUpdate ==
    /\ \E inc \in Increments :
          \/ /\ Control(Plain("window_update", 0, inc))
             /\ ledger' = [ledger EXCEPT !.credit = @ + inc, !.granted = @ + inc]
          \/ /\ srv.phase = "open" /\ ~srv.ended
             /\ Control(Plain("window_update", strm.id, inc))
             /\ ledger' = [ledger EXCEPT !.stream_credit = @ + inc]
    /\ UNCHANGED <<srv, pings>>

SrvInvalid ==
    /\ Control(Plain("invalid", 0, 0))
    /\ UNCHANGED <<srv, ledger, pings>>

MayAnswer == /\ srv.phase \in {"open", "answering"} /\ Serving /\ ~srv.split
             /\ srv.ended \/ EarlyResponse

(* Interim responses, the response header section and the trailers.        *)
SrvHeaders(kind, es, eh) ==
    /\ MayAnswer
    /\ \/ kind \in {"final", "malformed"} /\ srv.phase = "open"
       \/ kind = "interim" /\ srv.phase = "open" /\ ~es
       \/ kind = "trailers" /\ srv.phase = "answering" /\ es /\ Trailers
    /\ kind # "final" => ctl < MaxCtl
    /\ Deliver(Stamped("headers", strm.id, 0, es, eh, kind))
    /\ ctl' = IF kind = "final" THEN ctl ELSE ctl + 1
    /\ srv' = [srv EXCEPT !.split = ~eh,
                  !.phase = IF es THEN "done"
                            ELSE IF kind = "interim" THEN "open" ELSE "answering"]
    /\ UNCHANGED <<ledger, pings>>

SrvContinuation ==
    /\ srv.split
    /\ \E eh \in BOOLEAN :
          /\ ~eh => ctl < MaxCtl
          /\ Deliver(Stamped("continuation", strm.id, 0, FALSE, eh, "none"))
          /\ ctl' = IF eh THEN ctl ELSE ctl + 1
          /\ srv' = [srv EXCEPT !.split = ~eh]
    /\ UNCHANGED <<ledger, pings>>

SrvData(n, es) ==
    /\ MayAnswer /\ srv.phase = "answering"
    /\ n <= ledger.conn_allow /\ n <= ledger.stream_allow
    /\ ledger.sent + n <= MaxSent
    /\ n = 0 => es
    /\ Deliver(Stamped("data", strm.id, n, es, FALSE, "none"))
    /\ ledger' = [ledger EXCEPT !.sent = @ + n, !.conn_allow = @ - n,
                                !.stream_allow = @ - n]
    /\ srv' = [srv EXCEPT !.body = @ + n, !.phase = IF es THEN "done" ELSE @]
    /\ UNCHANGED <<pings, ctl>>

SrvReset ==
    /\ srv.phase \in {"open", "answering"}
    /\ Control(Plain("rst_stream", strm.id, 0))
    /\ srv' = [srv EXCEPT !.phase = "done"]
    /\ UNCHANGED <<ledger, pings>>

SrvClose ==
    /\ pc # "closed" /\ srv.up
    /\ srv' = [srv EXCEPT !.up = FALSE]
    /\ UNCHANGED <<pc, conn, strm, left, resp, block, result,
                   inbox, ledger, pings, ctl>>

ServerStep ==
    \/ SrvSettings \/ SrvLaterSettings \/ SrvSettingsAck
    \/ SrvPing \/ SrvGoAway \/ SrvWindowUpdate \/ SrvInvalid
    \/ \E kind \in HeaderKinds, es, eh \in BOOLEAN : SrvHeaders(kind, es, eh)
    \/ SrvContinuation
    \/ \E n \in DataSizes, es \in BOOLEAN : SrvData(n, es)
    \/ SrvReset \/ SrvClose

-----------------------------------------------------------------------------
Init ==
    /\ handshake
    /\ inbox = <<>>
    /\ srv = [up |-> TRUE, settled |-> FALSE, phase |-> "none", ended |-> FALSE,
              split |-> FALSE, last |-> MaxStreamId, max |-> MinFrame, window |-> 0,
              body |-> 0]
    /\ ledger = [conn_allow |-> ConnRecvMax, stream_allow |-> 0,
                 credit |-> InitSendWindow, stream_credit |-> 0,
                 sent |-> 0, rcvd |-> 0, lost |-> 0, granted |-> 0, taken |-> 0]
    /\ pings = 0 /\ ctl = 0

(* A connection that failed is dropped; nothing more happens on it. *)
Dropped == pc = "closed" /\ UNCHANGED vars

Next ==
    \/ ClientStep \/ SettingsTimeout \/ UploadTimeout \/ ResponseTimeout
    \/ send_request
    \/ ServerStep
    \/ Dropped

(* The executor polls a task whose socket is ready; a timer that stays     *)
(* armed fires.  The handshake deadline stays armed across frames.         *)
Fairness ==
    /\ WF_vars(ClientStep)
    /\ WF_vars(UploadTimeout) /\ WF_vars(ResponseTimeout)
    /\ SF_vars(SettingsTimeout)

Spec == Init /\ [][Next]_vars
FairSpec == Spec /\ Fairness
-----------------------------------------------------------------------------
(* Properties *)

Pcs == {"handshake", "idle", "upload", "response", "continuation", "closed"}
StreamStates == {"idle", "open", "half_closed_local", "closed"}
Results == {"none", "connected", "ok", "goaway", "exhausted", "overflow",
            "protocol", "hpack", "reset", "timeout", "flow_timeout", "io"}

ConnType == [next: Nat, send_window: 0..MaxWindow, recv_window: Int,
             peer_max: MinFrame..MaxFrame, goaway: Nat \cup {NoGoAway}]
StreamType == [id: Nat, state: StreamStates, send_window: 0..StreamWindow,
               recv_window: Int]
RespType == [headers: HeaderKinds, body: Nat]
BlockType == [len: Nat, es: BOOLEAN, kind: HeaderKinds]
ServerType == [up: BOOLEAN, settled: BOOLEAN, ended: BOOLEAN, split: BOOLEAN,
               phase: {"none", "open", "answering", "done"},
               last: Nat, max: Nat, window: Nat, body: Nat]
LedgerType == [conn_allow: Nat, stream_allow: Nat, credit: Int,
               stream_credit: Int, sent: Nat, rcvd: Nat, lost: Nat,
               granted: Nat, taken: Nat]

(* Type correctness.  The send windows never wrap below zero and the       *)
(* connection's never passes 2^31-1; the frame size stays legal.           *)
TypeOK ==
    /\ pc \in Pcs
    /\ conn \in ConnType /\ strm \in StreamType
    /\ left \in Nat
    /\ resp \in RespType /\ block \in BlockType
    /\ result \in Results
    /\ inbox \in Seq(FrameSet)
    /\ srv \in ServerType /\ ledger \in LedgerType
    /\ pings \in Int
    /\ ctl \in Nat

Busy == pc \notin {"idle", "closed"}
Holds(types) == \E i \in DOMAIN inbox : inbox[i].type \in types

(* DATA bytes and connection credit on their way to the client. *)
InFlight == ledger.sent - ledger.rcvd
CreditInFlight == ledger.granted - ledger.taken

(* The receive window the client believes in is what the server may still  *)
(* send, what is on its way, and what the client dropped unread: a window  *)
(* update never grants more or less than the bytes it answers.             *)
ReceiveWindowsAgree ==
    pc # "closed" =>
        conn.recv_window = ledger.conn_allow + InFlight + ledger.lost

(* A client that waits for a response on a drained socket has left the     *)
(* server credit on both levels: they never wait for each other.  It holds *)
(* of servers that answer once the request has ended: DATA an upload drops *)
(* is never given back, and enough of it leaves no credit.                 *)
NoReceiveStall ==
    pc \in {"response", "continuation"} /\ ~Pending =>
        ledger.conn_allow > 0 /\ ledger.stream_allow > 0

(* The upload never exceeds the connection credit the server has granted,  *)
(* however the server's updates and the chunks interleave.                 *)
UploadWithinCredit == pc # "closed" => ledger.credit >= 0

(* Ok is returned only for a whole response: its headers are the response  *)
(* header section, its body has every byte the server sent on this stream  *)
(* and none of an earlier one, and the server has finished.                *)
OkIsWhole ==
    result = "ok" =>
        /\ resp.headers = "final"
        /\ resp.body = srv.body
        /\ srv.phase = "done"

(* Ok is the end of the exchange, also when the server answered early or   *)
(* sent trailers: every frame of the answer is read, and the server has    *)
(* none left to send, so nothing of it meets the next request.             *)
OkEndsExchange ==
    result = "ok" =>
        /\ srv.phase = "done" /\ ~srv.split
        /\ ~Holds({"headers", "continuation", "data"})

(* While the connection is open, a PING the client has not acknowledged    *)
(* is still in the queue: none is skipped, in whatever phase it is read.   *)
PingsAnswered ==
    pc # "closed" =>
        pings = Cardinality({i \in DOMAIN inbox : inbox[i].type = "ping"})

(* Once every GOAWAY is read, no stream opens beyond the last one the      *)
(* server said it would serve.                                             *)
NoStreamBeyondGoAway ==
    [][strm'.id # strm.id /\ ~Holds({"goaway", "goaway_error"})
         => strm'.id <= srv.last]_vars

(* No DATA frame is larger than the server accepts, once the client has    *)
(* read the SETTINGS that says so.                                         *)
UploadFitsFrame ==
    [][left' < left /\ ~Holds({"settings"}) => left - left' <= srv.max]_vars

(* A request and a handshake come back to the caller, if the server does   *)
(* not send PINGs for ever.                                                *)
RequestReturns == <>[][~SrvPing]_vars => (Busy ~> ~Busy)

(* The handshake comes back even under endless PINGs, as long as the queue *)
(* runs empty again and again: its deadline is one for all its reads.      *)
HandshakeReturns == []<>(~Pending) => (pc = "handshake" ~> pc # "handshake")
=============================================================================
