-------------------------- MODULE H2ExchangeProofs --------------------------
(***************************************************************************)
(* The exchange on an HTTP/2 connection, for all windows, sizes and        *)
(* servers: no PING is passed over, no stream opens beyond a GOAWAY that   *)
(* was read, no chunk is larger than the server accepts, Ok stands for a   *)
(* whole response, and it ends the exchange.                               *)
(*                                                                         *)
(* Each invariant says what the frames on their way, and the locals of the *)
(* client that hold what was read of them, tell of the server's state.  A  *)
(* step either reads the head of the queue, appends to it, or leaves it.   *)
(***************************************************************************)
EXTENDS H2ConnectionProofs, FiniteSetTheorems, FunctionTheorems

IsGoAway(f) == f.type \in {"goaway", "goaway_error"}

(* The last GOAWAY that is on its way says how far the server serves; if   *)
(* none is, the client knows.                                              *)
GoAwayLinked ==
    pc # "closed" =>
        /\ \A i \in 1..Len(inbox) :
              IsGoAway(inbox[i]) /\ (\A j \in i + 1..Len(inbox) : ~IsGoAway(inbox[j]))
                 => inbox[i].n = srv.last
        /\ (\A i \in 1..Len(inbox) : ~IsGoAway(inbox[i]))
              => srv.last = IF conn.goaway = NoGoAway THEN MaxStreamId ELSE conn.goaway

Legal(n) == IF n \in MinFrame..MaxFrame THEN n ELSE MinFrame

(* The server sends SETTINGS once, and the client reads it or has read it. *)
SettingsLinked ==
    pc # "closed" =>
        /\ pc = "handshake" => conn.peer_max = MinFrame
        /\ ~srv.settled => pc = "handshake" /\ srv.max = MinFrame
        /\ \A i \in 1..Len(inbox) : inbox[i].type = "settings" =>
              /\ pc = "handshake" /\ srv.settled /\ srv.max = Legal(inbox[i].n)
              /\ \A j \in 1..Len(inbox) : inbox[j].type = "settings" => j = i
        /\ (\A i \in 1..Len(inbox) : inbox[i].type # "settings") => conn.peer_max = srv.max

NothingLeft == pc \in {"handshake", "idle", "response", "continuation"} => left = 0

Carries(f) == f.type \in {"headers", "data"}
EndsHeaders(f) == f.type = "headers" /\ f.kind \in {"final", "malformed"}
Trails(f) == f.type = "headers" /\ f.kind = "trailers"

HeadersRead ==
    \/ pc = "response" /\ resp.headers = "final"
    \/ pc = "continuation" /\ block.kind \in {"final", "malformed", "trailers"}

NoneCarries(q) == \A i \in 1..Len(q) : ~Carries(q[i])
SomeEnds(q) == \E i \in 1..Len(q) : EndsHeaders(q[i])

(* A response is interim header sections, one that ends them, DATA and     *)
(* perhaps trailers; END_STREAM is on its last frame.  `read' says that    *)
(* the header section that ends them has been read from the queue.         *)
InOrder(q, sid, read) ==
    /\ \A i \in 1..Len(q) :
          /\ Carries(q[i]) => q[i].sid = sid
          /\ Trails(q[i]) => Trailers /\ q[i].es
          /\ q[i].type = "headers" /\ q[i].es => EndsHeaders(q[i]) \/ Trails(q[i])
    /\ \A i, j \in 1..Len(q) : i < j =>
          /\ EndsHeaders(q[i]) \/ q[i].type = "data"
                => (q[j].type = "headers" => Trails(q[j]))
          /\ Carries(q[i]) /\ q[i].es => ~Carries(q[j])
    /\ \A j \in 1..Len(q) : q[j].type = "data" \/ Trails(q[j])
          => read \/ \E i \in 1..Len(q) : i < j /\ EndsHeaders(q[i])
    /\ read => \A i \in 1..Len(q) : q[i].type = "headers" => Trails(q[i])

AnswerInOrder ==
    pc # "closed" =>
        /\ InOrder(inbox, strm.id, HeadersRead)
        /\ pc \in {"handshake", "idle", "upload"} => NoneCarries(inbox)
        /\ pc = "upload" => ~srv.ended /\ resp.headers = "none"
        /\ srv.phase = "open" =>
              /\ ~HeadersRead /\ ~SomeEnds(inbox)
              /\ \A i \in 1..Len(inbox) : inbox[i].type # "data"
        /\ srv.phase = "answering" => HeadersRead \/ SomeEnds(inbox)
        /\ pc = "continuation" /\ block.es =>
              block.kind \in {"final", "malformed", "trailers"} /\ NoneCarries(inbox)
        /\ pc = "continuation" /\ block.kind = "trailers" => Trailers /\ block.es

(* The head of a response, or the trailers that have taken its place.      *)
Answered(headers) == headers = "final" \/ (headers = "trailers" /\ Trailers)

(* No byte is dropped, and Ok is what the caller has before the next call. *)
OkIsLast ==
    /\ pc # "closed" => ledger.lost = 0
    /\ result = "ok" => pc = "idle" /\ Answered(resp.headers) /\ srv.phase = "done"

(* The next three say it for every server, also one that answers early or  *)
(* sends trailers.  A frame that ends a header block, or DATA, is followed *)
(* by CONTINUATION only after new HEADERS; `split' says that CONTINUATION  *)
(* is still to come.                                                       *)
WholeBlock(f) ==
    f.type = "data" \/ (f.type \in {"headers", "continuation"} /\ f.eh)

HeadersIn(q, i, j) == \E k \in i..j : q[k].type = "headers"

BlocksWhole(q, split) ==
    \A i \in 1..Len(q) : WholeBlock(q[i]) =>
        /\ split => HeadersIn(q, i + 1, Len(q))
        /\ \A j \in i + 1..Len(q) :
              q[j].type = "continuation" => HeadersIn(q, i + 1, j)

(* The frame that ends the stream is the last of the answer to carry any.  *)
EndOf(f, sid) == Carries(f) /\ f.es /\ f.sid = sid

EndsLast(q, sid) ==
    \A i \in 1..Len(q) : EndOf(q[i], sid) =>
        \A j \in i + 1..Len(q) : ~Carries(q[j])

NoContinuation(q) == \A i \in 1..Len(q) : q[i].type # "continuation"

(* Between requests nothing of an answer is on its way or still to come.   *)
AnswersEnd ==
    /\ pc # "closed" =>
          /\ BlocksWhole(inbox, srv.split) /\ EndsLast(inbox, strm.id)
          /\ pc \in {"handshake", "idle"} =>
                ~srv.split /\ NoneCarries(inbox) /\ NoContinuation(inbox)
          /\ pc = "continuation" /\ block.es => NoneCarries(inbox)
    /\ result = "ok" => pc = "idle" /\ srv.phase = "done"

-----------------------------------------------------------------------------
(* What the server sends *)

(* The frame f says what becomes of the server's state by sending it.      *)
GoAwayFollows(f) == srv'.last = IF IsGoAway(f) THEN f.n ELSE srv.last

SettingsFollow(f) ==
    IF f.type = "settings"
    THEN ~srv.settled /\ srv'.settled /\ srv'.max = Legal(f.n)
    ELSE srv'.settled = srv.settled /\ srv'.max = srv.max

PingFollows(f) == pings' = IF f.type = "ping" THEN pings + 1 ELSE pings

AnswerFollows(f) ==
    /\ srv'.ended = srv.ended
    /\ Carries(f) => f.sid = strm.id /\ srv.ended
    /\ f.type = "headers" /\ ~Trails(f) =>
          /\ srv.phase = "open" /\ (f.es => EndsHeaders(f))
          /\ srv'.phase = IF f.es THEN "done"
                          ELSE IF EndsHeaders(f) THEN "answering" ELSE "open"
    /\ Trails(f) => Trailers /\ f.es /\ srv.phase = "answering" /\ srv'.phase = "done"
    /\ f.type = "data" =>
          srv.phase = "answering" /\ srv'.phase = IF f.es THEN "done" ELSE "answering"
    /\ ~Carries(f) => srv'.phase \in {srv.phase, "done"}

BlockFollows(f) ==
    /\ Carries(f) => srv.phase \in {"open", "answering"}
    /\ f.type = "continuation" => srv.split
    /\ srv'.split => f.type \in {"headers", "continuation"} /\ ~f.eh

LEMMA OneFrame ==
  ASSUME TypeOK, NEW f \in FrameSet, Sends(f), NEW x, Deliver(x)
  PROVE  f = x
<1>1. inbox \in Seq(FrameSet) /\ Append(inbox, f) = Append(inbox, x)
  BY DEF TypeOK, Sends, Deliver
<1> QED
  BY <1>1

LEMMA ServerSays ==
  ASSUME TypeOK, ServerStep, NEW f \in FrameSet, Sends(f)
  PROVE  /\ GoAwayFollows(f) /\ PingFollows(f) /\ BlockFollows(f)
         /\ LaterFrameSizes = {} => SettingsFollow(f)
         /\ ~EarlyResponse => AnswerFollows(f)
<1>1. srv \in ServerType
  BY DEF TypeOK
<1> USE DEF GoAwayFollows, PingFollows, SettingsFollow, AnswerFollows,
            BlockFollows, IsGoAway, Carries, EndsHeaders, Trails
<1>2. CASE SrvSettings
  <2>1. PICK size \in PeerFrameSizes, window \in PeerWindows :
          /\ Deliver(Plain("settings", 0, size))
          /\ srv' = [srv EXCEPT !.settled = TRUE, !.window = window,
                !.max = IF size \in MinFrame..MaxFrame THEN size ELSE MinFrame]
    BY <1>2 DEF SrvSettings
  <2>2. f = Plain("settings", 0, size)
    BY <2>1, OneFrame
  <2>3. f.type = "settings" /\ f.n = size
    BY <2>2 DEF Plain, Stamped
  <2> QED
    BY <1>1, <1>2, <2>1, <2>3 DEF SrvSettings, ServerType, Legal
<1>3. CASE SrvLaterSettings
  <2>1. PICK size \in LaterFrameSizes : Deliver(Plain("settings", 0, size))
                                        /\ srv' = [srv EXCEPT !.max = size]
    BY <1>3 DEF SrvLaterSettings, Control
  <2>2. f = Plain("settings", 0, size)
    BY <2>1, OneFrame
  <2>3. f.type = "settings"
    BY <2>2 DEF Plain, Stamped
  <2> QED
    BY <1>1, <1>3, <2>1, <2>3 DEF SrvLaterSettings, Control, ServerType
<1>4. ASSUME NEW type \in {"settings_ack", "ping", "window_update", "invalid"},
             NEW sid, NEW n, Deliver(Plain(type, sid, n)), srv' = srv, ~srv.split,
             pings' = IF type = "ping" THEN pings + 1 ELSE pings
      PROVE  /\ GoAwayFollows(f) /\ PingFollows(f) /\ SettingsFollow(f)
             /\ AnswerFollows(f) /\ BlockFollows(f)
  <2>1. f = Plain(type, sid, n)
    BY <1>4, OneFrame
  <2>2. f.type = type
    BY <2>1 DEF Plain, Stamped
  <2> QED
    BY <1>4, <2>2
<1>5. CASE SrvSettingsAck
  BY <1>4, <1>5 DEF SrvSettingsAck, Control
<1>6. CASE SrvPing
  BY <1>4, <1>6 DEF SrvPing
<1>7. CASE SrvInvalid
  BY <1>4, <1>7 DEF SrvInvalid, Control
<1>8. CASE SrvWindowUpdate
  <2>1. PICK sid, inc : Deliver(Plain("window_update", sid, inc))
    BY <1>8 DEF SrvWindowUpdate, Control
  <2>2. srv' = srv /\ pings' = pings /\ ~srv.split
    BY <1>8 DEF SrvWindowUpdate, Control
  <2> QED
    BY <1>4, <2>1, <2>2
<1>9. CASE SrvGoAway
  <2>1. PICK last \in {0, strm.id, MaxStreamId}, type \in {"goaway", "goaway_error"} :
          /\ Deliver(Plain(type, 0, last))
          /\ srv' = [srv EXCEPT !.last = last]
    BY <1>9 DEF SrvGoAway, Control
  <2>2. f = Plain(type, 0, last)
    BY <2>1, OneFrame
  <2>3. f.type = type /\ f.n = last
    BY <2>2 DEF Plain, Stamped
  <2> QED
    BY <1>1, <1>9, <2>1, <2>3 DEF SrvGoAway, Control, ServerType
<1>10. CASE SrvReset
  <2>1. f = Plain("rst_stream", strm.id, 0)
    BY <1>10, OneFrame DEF SrvReset, Control
  <2>2. f.type = "rst_stream"
    BY <2>1 DEF Plain, Stamped
  <2> QED
    BY <1>1, <1>10, <2>2 DEF SrvReset, Control, ServerType
<1>11. ASSUME NEW kind \in HeaderKinds, NEW es \in BOOLEAN, NEW eh \in BOOLEAN,
              SrvHeaders(kind, es, eh)
       PROVE  /\ GoAwayFollows(f) /\ PingFollows(f) /\ SettingsFollow(f)
              /\ BlockFollows(f)
              /\ ~EarlyResponse => AnswerFollows(f)
  <2>1. f = Stamped("headers", strm.id, 0, es, eh, kind)
    BY <1>11, OneFrame DEF SrvHeaders
  <2>2. f.type = "headers" /\ f.sid = strm.id /\ f.es = es /\ f.kind = kind
        /\ f.eh = eh
    BY <2>1 DEF Stamped
  <2>3. /\ srv'.phase = IF es THEN "done" ELSE IF kind = "interim" THEN "open" ELSE "answering"
        /\ srv'.last = srv.last /\ srv'.max = srv.max /\ srv'.settled = srv.settled
        /\ srv'.ended = srv.ended /\ srv'.split = ~eh /\ pings' = pings
        /\ srv.phase \in {"open", "answering"}
    BY <1>1, <1>11 DEF SrvHeaders, MayAnswer, ServerType
  <2>4. ASSUME ~EarlyResponse
        PROVE  AnswerFollows(f)
    <3>1. /\ srv.ended
          /\ \/ srv.phase = "open" /\ kind \in {"final", "malformed"}
             \/ srv.phase = "open" /\ kind = "interim" /\ ~es
             \/ srv.phase = "answering" /\ kind = "trailers" /\ es /\ Trailers
      BY <1>11, <2>4 DEF SrvHeaders, MayAnswer
    <3> QED
      BY <2>2, <2>3, <3>1
  <2> QED
    BY <2>2, <2>3, <2>4
<1>12. CASE SrvContinuation
  <2>1. PICK eh \in BOOLEAN :
           /\ Deliver(Stamped("continuation", strm.id, 0, FALSE, eh, "none"))
           /\ srv' = [srv EXCEPT !.split = ~eh]
    BY <1>12 DEF SrvContinuation
  <2>2. f = Stamped("continuation", strm.id, 0, FALSE, eh, "none")
    BY <2>1, OneFrame
  <2>3. f.type = "continuation" /\ f.eh = eh
    BY <2>2 DEF Stamped
  <2>4. pings' = pings /\ srv.split
    BY <1>12 DEF SrvContinuation
  <2> QED
    BY <1>1, <2>1, <2>3, <2>4 DEF ServerType
<1>13. ASSUME NEW n \in DataSizes, NEW es \in BOOLEAN, SrvData(n, es)
       PROVE  /\ GoAwayFollows(f) /\ PingFollows(f) /\ SettingsFollow(f)
              /\ BlockFollows(f)
              /\ ~EarlyResponse => AnswerFollows(f)
  <2>1. f = Stamped("data", strm.id, n, es, FALSE, "none")
    BY <1>13, OneFrame DEF SrvData
  <2>2. f.type = "data" /\ f.sid = strm.id /\ f.es = es
    BY <2>1 DEF Stamped
  <2>3. /\ srv.phase = "answering" /\ srv'.phase = IF es THEN "done" ELSE "answering"
        /\ srv'.last = srv.last /\ srv'.max = srv.max /\ srv'.settled = srv.settled
        /\ srv'.ended = srv.ended /\ srv'.split = srv.split /\ ~srv.split
        /\ pings' = pings
    BY <1>1, <1>13 DEF SrvData, MayAnswer, ServerType
  <2>4. ~EarlyResponse => srv.ended
    BY <1>13 DEF SrvData, MayAnswer
  <2> QED
    BY <2>2, <2>3, <2>4
<1>14. ~SrvClose
  <2>1. inbox \in Seq(FrameSet) /\ inbox' = Append(inbox, f)
    BY DEF Sends, TypeOK
  <2>2. inbox' # inbox
    BY <2>1, QueueAppend
  <2> QED
    BY <2>2 DEF SrvClose
<1> QED
  BY <1>2, <1>3, <1>5, <1>6, <1>7, <1>8, <1>9, <1>10, <1>11, <1>12, <1>13, <1>14
  DEF ServerStep

-----------------------------------------------------------------------------
(* What the client reads *)

(* The head of the queue is read and the connection stays open.            *)
Reads ==
    /\ Pending /\ inbox' = Tail(inbox) /\ srv' = srv /\ left' = left
    /\ strm'.id = strm.id /\ conn'.next = conn.next
    /\ ~(Frame.type = "goaway_error")
    /\ pings' = IF Frame.type = "ping" THEN pings - 1 ELSE pings
    /\ conn'.goaway = IF Frame.type = "goaway" THEN Frame.n ELSE conn.goaway
    /\ conn'.peer_max = IF pc = "handshake" /\ Frame.type = "settings"
                           /\ Frame.n \in MinFrame..MaxFrame
                        THEN Frame.n ELSE conn.peer_max
    /\ pc # "closed" /\ (pc' = "upload" <=> pc = "upload")
    /\ pc' = "handshake" <=> pc = "handshake" /\ Frame.type # "settings"

(* The ways to take a frame. *)
Handled ==
    /\ pc \in {"handshake", "upload", "response"}
    /\ pc = "response" => ~(Carries(Frame) /\ Ours)
    /\ UNCHANGED <<pc, strm, resp, block, result>>
    /\ ledger'.lost = ledger.lost + Bytes(Frame)

Settled ==
    /\ pc = "handshake" /\ Frame.type = "settings" /\ pc' = "idle"
    /\ result' = "connected"
    /\ UNCHANGED <<strm, resp, block>> /\ ledger'.lost = ledger.lost

(* A whole header block is there, or goes on in CONTINUATION frames.       *)
HeadersDone(kind, es) ==
    /\ kind # "malformed" /\ resp'.headers = kind
    /\ pc' = (IF es THEN "idle" ELSE "response")
    /\ result' = (IF es THEN "ok" ELSE result)

HeadersSplit(kind, es) ==
    /\ pc' = "continuation" /\ block'.kind = kind /\ block'.es = es
    /\ UNCHANGED <<resp, result>>

HeadersTaken ==
    /\ pc = "response" /\ Frame.type = "headers" /\ Ours
    /\ \/ Frame.eh /\ HeadersDone(Frame.kind, Frame.es)
       \/ HeadersSplit(Frame.kind, Frame.es)
    /\ ledger'.lost = ledger.lost

ContinuationTaken ==
    /\ pc = "continuation" /\ Frame.type = "continuation"
    /\ \/ Frame.eh /\ HeadersDone(block.kind, block.es)
       \/ HeadersSplit(block.kind, block.es)
    /\ ledger'.lost = ledger.lost

DataTaken ==
    /\ pc = "response" /\ Frame.type = "data" /\ Ours
    /\ resp'.headers = resp.headers
    /\ pc' = (IF Frame.es THEN "idle" ELSE "response")
    /\ result' = (IF Frame.es THEN "ok" ELSE result)
    /\ ledger'.lost = ledger.lost

LEMMA Handles ==
  ASSUME TypeOK, Pending, WellFormed, handle_frame, pc' # "closed",
         pc \in {"handshake", "upload", "response"},
         pc = "handshake" => Frame.type # "settings",
         pc = "response" => ~(Carries(Frame) /\ Ours)
  PROVE  Reads /\ Handled
<1>1. /\ conn \in ConnType /\ ledger \in LedgerType /\ Frame \in FrameSet
      /\ inbox' = Tail(inbox) /\ ledger'.lost = ledger.lost + Bytes(Frame)
  <2>1. Bytes(Frame) \in Nat /\ Frame \in FrameSet
    BY QueueHead DEF Bytes, FrameSet
  <2> QED
    BY <2>1, ConsumeTypes DEF TypeOK, handle_frame, Consume
<1>2. /\ pc' = pc /\ result' = result
      /\ pings' = IF Frame.type = "ping" THEN pings - 1 ELSE pings
      /\ conn'.next = conn.next /\ conn'.peer_max = conn.peer_max
      /\ conn'.goaway = IF Frame.type = "goaway" THEN Frame.n ELSE conn.goaway
      /\ ~(Frame.type = "goaway_error")
  <2>1. CASE AnswerPing
    BY <2>1 DEF AnswerPing
  <2>2. CASE StoreGoAway
    BY <1>1, <2>2 DEF StoreGoAway, ConnType
  <2>3. CASE GoAwayError
    BY <2>3 DEF GoAwayError, Fail
  <2>4. CASE RaiseSendWindow
    BY <1>1, <2>4 DEF RaiseSendWindow, Fail, ConnType
  <2>5. CASE Ignore
    BY <2>5 DEF Ignore
  <2> QED
    BY <2>1, <2>2, <2>3, <2>4, <2>5 DEF handle_frame
<1> QED
  BY <1>1, <1>2 DEF handle_frame, Reads, Handled

LEMMA Finishes ==
  ASSUME TypeOK, NEW kind, NEW es \in BOOLEAN, FinishHeaders(kind, es), pc' # "closed"
  PROVE  HeadersDone(kind, es) /\ strm'.id = strm.id
<1>1. resp \in RespType /\ strm \in StreamType
  BY DEF TypeOK
<1> QED
  BY <1>1 DEF FinishHeaders, Fail, HeadersDone, RespType, StreamType

LEMMA ClientReads ==
  ASSUME TypeOK, ClientStep, ~UploadChunk, pc' # "closed"
  PROVE  /\ Reads
         /\ Handled \/ Settled \/ HeadersTaken \/ ContinuationTaken \/ DataTaken
<1>1. /\ conn \in ConnType /\ ledger \in LedgerType /\ strm \in StreamType
      /\ resp \in RespType /\ block \in BlockType
  BY DEF TypeOK
<1>2. ASSUME Pending, Consume(0)
      PROVE  ledger'.lost = ledger.lost /\ inbox' = Tail(inbox) /\ Frame \in FrameSet
  <2>1. ledger'.lost = ledger.lost + 0
    BY <1>2, ConsumeTypes
  <2>2. ledger.lost \in Int
    BY <1>1 DEF LedgerType
  <2>3. inbox' = Tail(inbox) /\ Frame \in FrameSet
    BY <1>2, QueueHead DEF Consume
  <2> QED
    BY <2>1, <2>2, <2>3
<1>3. CASE ReadSettings
  <2>1. conn'.next = conn.next /\ conn'.goaway = conn.goaway
        /\ conn'.peer_max = IF Frame.n \in MinFrame..MaxFrame THEN Frame.n ELSE conn.peer_max
    BY <1>1, <1>3 DEF ReadSettings, ConnType
  <2> QED
    BY <1>2, <1>3, <2>1 DEF ReadSettings, Reads, Settled
<1>4. CASE ReadBeforeSettings
  BY <1>4, Handles DEF ReadBeforeSettings
<1>5. CASE UploadWait
  BY <1>5, Handles DEF UploadWait
<1>6. CASE ReadOther
  BY <1>6, Handles DEF ReadOther, Carries
<1>7. CASE ReadHeaders
  <2>1. /\ Frame \in FrameSet /\ inbox' = Tail(inbox) /\ ledger'.lost = ledger.lost
        /\ pc = "response" /\ Pending /\ Frame.type = "headers" /\ Ours
        /\ UNCHANGED <<conn, left, srv, pings>>
    BY <1>2, <1>7 DEF ReadHeaders
  <2>2. CASE Frame.eh
    <3>1. FinishHeaders(Frame.kind, Frame.es)
      BY <1>7, <2>2 DEF ReadHeaders
    <3>2. HeadersDone(Frame.kind, Frame.es) /\ strm'.id = strm.id
      BY <2>1, <3>1, Finishes DEF FrameSet
    <3>3. HeadersTaken
      BY <2>1, <2>2, <3>2 DEF HeadersTaken
    <3>4. Reads
      BY <2>1, <3>2 DEF Reads, HeadersDone
    <3> QED
      BY <3>3, <3>4
  <2>3. CASE ~Frame.eh
    <3>1. HeadersSplit(Frame.kind, Frame.es) /\ strm' = strm
      BY <1>7, <2>3 DEF ReadHeaders, HeadersSplit
    <3>2. HeadersTaken
      BY <2>1, <3>1 DEF HeadersTaken
    <3>3. Reads
      BY <2>1, <3>1 DEF Reads, HeadersSplit
    <3> QED
      BY <3>2, <3>3
  <2> QED
    BY <2>2, <2>3
<1>8. CASE ReadContinuation
  <2>1. /\ Frame \in FrameSet /\ inbox' = Tail(inbox) /\ ledger'.lost = ledger.lost
        /\ pc = "continuation" /\ Pending /\ Frame.type = "continuation" /\ Ours
        /\ UNCHANGED <<conn, left, srv, pings>>
    BY <1>2, <1>8 DEF ReadContinuation, Fail
  <2>2. CASE Frame.eh
    <3>1. FinishHeaders(block.kind, block.es)
      BY <1>8, <2>1, <2>2 DEF ReadContinuation
    <3>2. HeadersDone(block.kind, block.es) /\ strm'.id = strm.id
      BY <1>1, <3>1, Finishes DEF BlockType
    <3>3. ContinuationTaken
      BY <2>1, <2>2, <3>2 DEF ContinuationTaken
    <3>4. Reads
      BY <2>1, <3>2 DEF Reads, HeadersDone
    <3> QED
      BY <3>3, <3>4
  <2>3. CASE ~Frame.eh
    <3>1. /\ block' = [block EXCEPT !.len = block.len + 1]
          /\ UNCHANGED <<pc, strm, resp, result>>
      BY <1>8, <2>1, <2>3 DEF ReadContinuation
    <3>2. block'.kind = block.kind /\ block'.es = block.es
      BY <1>1, <3>1 DEF BlockType
    <3>3. HeadersSplit(block.kind, block.es) /\ strm' = strm
      BY <2>1, <3>1, <3>2 DEF HeadersSplit
    <3>4. ContinuationTaken
      BY <2>1, <3>3 DEF ContinuationTaken
    <3>5. Reads
      BY <2>1, <3>3 DEF Reads, HeadersSplit
    <3> QED
      BY <3>4, <3>5
  <2> QED
    BY <2>2, <2>3
<1>9. CASE ReadData
  <2>1. /\ pc = "response" /\ Pending /\ Frame.type = "data" /\ Ours
        /\ inbox' = Tail(inbox) /\ UNCHANGED <<left, srv, pings>>
        /\ resp'.headers = resp.headers
        /\ ~(resp.body + Frame.n > MaxBody)
    BY <1>1, <1>9 DEF ReadData, Received, Fail, RespType
  <2>2. /\ pc' = (IF Frame.es THEN "idle" ELSE "response")
        /\ result' = (IF Frame.es THEN "ok" ELSE result)
    BY <1>9, <2>1 DEF ReadData, Received
  <2>3. conn'.next = conn.next /\ conn'.goaway = conn.goaway /\ conn'.peer_max = conn.peer_max
    BY <1>1, <1>9, <2>1 DEF ReadData, ConnType
  <2>4. strm'.id = strm.id /\ ledger'.lost = ledger.lost
    BY <1>1, <1>9, <2>1 DEF ReadData, StreamType, LedgerType
  <2> QED
    BY <2>1, <2>2, <2>3, <2>4 DEF Reads, DataTaken
<1>10. ~(BlockTooLarge \/ ReadReset \/ RejectFrame \/ IoFailure)
  BY DEF BlockTooLarge, ReadReset, RejectFrame, IoFailure, Fail
<1> QED
  BY <1>3, <1>4, <1>5, <1>6, <1>7, <1>8, <1>9, <1>10 DEF ClientStep, read_and_ack_settings

-----------------------------------------------------------------------------
(* The kinds of steps *)

(* The connection is dropped, and no call has returned Ok for it.          *)
Closes ==
    /\ pc' = "closed" /\ strm'.id = strm.id /\ left' = left
    /\ result' # "ok" \/ UNCHANGED vars

(* The step is the client's own: nothing is read and nothing arrives.      *)
Uploads ==
    /\ UploadChunk
    /\ inbox' = inbox /\ pings' = pings
    /\ conn'.goaway = conn.goaway /\ conn'.peer_max = conn.peer_max
    /\ conn'.next = conn.next /\ strm'.id = strm.id
    /\ srv'.last = srv.last /\ srv'.max = srv.max /\ srv'.settled = srv.settled
    /\ srv'.phase = srv.phase /\ srv'.split = srv.split /\ ledger'.lost = ledger.lost
    /\ resp' = resp /\ block' = block /\ result' = result
    /\ pc = "upload" /\ left \in Nat /\ left' \in Nat
    /\ left' = 0 => pc' = "response" /\ srv'.ended
    /\ left' # 0 => pc' = "upload" /\ ~srv'.ended

Opens ==
    /\ pc = "idle" /\ pc' \in {"upload", "response"}
    /\ pc' = "upload" => ~srv'.ended
    /\ pc' = "response" => srv'.ended /\ left' = 0
    /\ conn.goaway = NoGoAway \/ conn.next <= conn.goaway
    /\ conn.next <= MaxStreamId /\ strm'.id = conn.next
    /\ inbox' = inbox /\ pings' = pings
    /\ conn'.goaway = conn.goaway /\ conn'.peer_max = conn.peer_max
    /\ srv'.last = srv.last /\ srv'.max = srv.max /\ srv'.settled = srv.settled
    /\ srv'.phase = "open" /\ srv'.split = srv.split /\ ledger'.lost = ledger.lost
    /\ resp'.headers = "none" /\ block' = block /\ result' = "none"

Rests ==
    /\ UNCHANGED <<pc, conn, strm, left, resp, block, result, inbox, ledger, pings>>
    /\ \A f \in {"last", "max", "settled", "phase", "ended", "split"} : srv'[f] = srv[f]

LEMMA StepKinds ==
  ASSUME TypeOK, [Next]_vars
  PROVE  \/ Closes
         \/ pc' # "closed" /\ ClientStep /\ ~UploadChunk
         \/ pc' # "closed" /\ ServerStep /\ ~SrvClose
         \/ pc' # "closed" /\ (Uploads \/ Opens \/ Rests)
<1>1. /\ conn \in ConnType /\ strm \in StreamType /\ srv \in ServerType
      /\ ledger \in LedgerType /\ left \in Nat /\ resp \in RespType
  BY DEF TypeOK
<1>2. ASSUME UploadChunk, pc' # "closed"
      PROVE  Uploads
  <2> DEFINE sent == Smallest({Available, left})
  <2>1. sent \in Nat /\ sent <= left
    BY <1>2, ChunkFits DEF UploadChunk
  <2>2. /\ left' = left - sent
        /\ conn' = [conn EXCEPT !.send_window = conn.send_window - sent]
        /\ ledger' = [ledger EXCEPT !.credit = ledger.credit - sent,
                                    !.stream_credit = ledger.stream_credit - sent]
        /\ strm'.id = strm.id
        /\ pc' = (IF sent = left THEN "response" ELSE "upload")
        /\ srv' = [srv EXCEPT !.ended = (sent = left)]
        /\ pc = "upload" /\ UNCHANGED <<resp, block, result, inbox, pings>>
    BY <1>1, <1>2 DEF UploadChunk, StreamType
  <2> HIDE DEF sent
  <2>3. left' \in Nat /\ (left' = 0 <=> sent = left)
    BY <1>1, <2>1, <2>2
  <2>4. /\ conn'.goaway = conn.goaway /\ conn'.peer_max = conn.peer_max
        /\ conn'.next = conn.next /\ ledger'.lost = ledger.lost
        /\ srv'.last = srv.last /\ srv'.max = srv.max /\ srv'.settled = srv.settled
        /\ srv'.phase = srv.phase /\ srv'.ended = (sent = left)
        /\ srv'.split = srv.split
    BY <1>1, <2>2 DEF ConnType, LedgerType, ServerType
  <2> QED
    BY <1>1, <1>2, <2>2, <2>3, <2>4 DEF Uploads
<1>3. ASSUME NEW size \in Bodies, StartRequest(size)
      PROVE  Opens
  <2>1. /\ conn' = [conn EXCEPT !.next = conn.next + 2]
        /\ strm'.id = conn.next
        /\ pc = "idle" /\ pc' = (IF size = 0 THEN "response" ELSE "upload")
        /\ left' = size /\ resp'.headers = "none" /\ result' = "none"
        /\ srv' = [srv EXCEPT !.phase = "open", !.ended = (size = 0), !.body = 0]
        /\ ledger' = [ledger EXCEPT !.stream_allow = StreamWindow,
                                    !.stream_credit = srv.window]
        /\ conn.goaway = NoGoAway \/ conn.next <= conn.goaway
        /\ conn.next <= MaxStreamId
        /\ UNCHANGED <<block, inbox, pings>>
    BY <1>3 DEF StartRequest
  <2>2. /\ conn'.goaway = conn.goaway /\ conn'.peer_max = conn.peer_max
        /\ ledger'.lost = ledger.lost
        /\ srv'.last = srv.last /\ srv'.max = srv.max /\ srv'.settled = srv.settled
        /\ srv'.phase = "open" /\ srv'.ended = (size = 0) /\ srv'.split = srv.split
    BY <1>1, <2>1 DEF ConnType, LedgerType, ServerType
  <2> QED
    BY <2>1, <2>2 DEF Opens
<1>4. CASE RefuseRequest \/ SettingsTimeout \/ UploadTimeout \/ ResponseTimeout
  BY <1>4 DEF RefuseRequest, SettingsTimeout, UploadTimeout, ResponseTimeout, Fail, Closes
<1>5. ASSUME ClientStep, pc' = "closed", ~UploadChunk
      PROVE  Closes
  <2>1. ASSUME NEW kind, NEW es, FinishHeaders(kind, es), pc' = "closed"
        PROVE  strm'.id = strm.id /\ result' # "ok"
    BY <2>1 DEF FinishHeaders, Fail
  <2>2. ASSUME handle_frame, pc # "closed"
        PROVE  strm'.id = strm.id /\ left' = left /\ result' # "ok"
    <3>1. CASE AnswerPing \/ StoreGoAway \/ Ignore
      BY <1>5, <2>2, <3>1 DEF AnswerPing, StoreGoAway, Ignore, handle_frame
    <3>2. CASE GoAwayError \/ RaiseSendWindow
      BY <1>5, <2>2, <3>2 DEF GoAwayError, RaiseSendWindow, Fail, handle_frame
    <3> QED
      BY <2>2, <3>1, <3>2 DEF handle_frame
  <2>3. CASE read_and_ack_settings
    BY <1>5, <2>2, <2>3 DEF read_and_ack_settings, ReadSettings, ReadBeforeSettings, Closes
  <2>4. CASE UploadWait \/ ReadOther
    BY <2>2, <2>4, <1>5 DEF UploadWait, ReadOther, Closes
  <2>5. CASE ReadHeaders
    <3>1. Frame.eh
      BY <1>5, <2>5 DEF ReadHeaders
    <3> QED
      BY <1>5, <2>1, <2>5, <3>1 DEF ReadHeaders, Closes
  <2>6. CASE ReadContinuation
    <3>1. CASE Frame.type = "continuation" /\ Ours
      <4>1. Frame.eh
        BY <1>5, <2>6, <3>1 DEF ReadContinuation
      <4> QED
        BY <1>5, <2>1, <2>6, <3>1, <4>1 DEF ReadContinuation, Closes
    <3>2. CASE ~(Frame.type = "continuation" /\ Ours)
      BY <1>5, <2>6, <3>2 DEF ReadContinuation, Fail, Closes
    <3> QED
      BY <3>1, <3>2
  <2>7. CASE ReadData
    <3>1. resp.body + Frame.n > MaxBody
      BY <1>5, <2>7 DEF ReadData, Received
    <3>2. pc' = "closed" /\ result' = "protocol" /\ left' = left
      BY <2>7, <3>1 DEF ReadData, Received, Fail
    <3>3. strm' = [strm EXCEPT !.recv_window = strm.recv_window - Frame.n]
      BY <2>7, <3>1 DEF ReadData, Received
    <3>4. strm'.id = strm.id
      BY <1>1, <3>3 DEF StreamType
    <3> QED
      BY <3>2, <3>4 DEF Closes
  <2>8. CASE BlockTooLarge \/ ReadReset \/ RejectFrame \/ IoFailure
    BY <1>5, <2>8 DEF BlockTooLarge, ReadReset, RejectFrame, IoFailure, Fail, Closes
  <2> QED
    BY <1>5, <2>3, <2>4, <2>5, <2>6, <2>7, <2>8 DEF ClientStep
<1>6. ~(ServerStep /\ pc' = "closed")
  BY DEF ServerStep, SrvSettings, SrvLaterSettings, SrvSettingsAck, SrvPing, SrvGoAway,
         SrvWindowUpdate, SrvInvalid, SrvHeaders, SrvContinuation, SrvData, SrvReset,
         SrvClose, Control, Deliver
<1>7. CASE SrvClose
  <2>1. /\ srv' = [srv EXCEPT !.up = FALSE]
        /\ UNCHANGED <<pc, conn, strm, left, resp, block, result, inbox, ledger, pings>>
    BY <1>7 DEF SrvClose
  <2>2. \A f \in {"last", "max", "settled", "phase", "ended", "split"} : srv'[f] = srv[f]
    BY <1>1, <2>1 DEF ServerType
  <2> QED
    BY <1>6, <1>7, <2>1, <2>2 DEF Rests, ServerStep
<1>8. CASE UNCHANGED vars
  BY <1>8 DEF vars, Closes, Rests
<1>9. ASSUME UploadChunk, pc' = "closed"
      PROVE  FALSE
  BY <1>9 DEF UploadChunk
<1>10. Opens => pc' # "closed"
  BY DEF Opens
<1> QED
  BY <1>2, <1>3, <1>4, <1>5, <1>6, <1>7, <1>8, <1>9, <1>10 DEF Next, send_request, Dropped

-----------------------------------------------------------------------------
(* GOAWAY *)

LEMMA GoAwayRead ==
  ASSUME TypeOK, GoAwayLinked, Reads
  PROVE  GoAwayLinked'
<1>1. /\ Frame \in FrameSet /\ Frame = inbox[1] /\ Len(inbox) \in Nat \ {0}
      /\ Len(Tail(inbox)) = Len(inbox) - 1
      /\ \A i \in 1..Len(inbox) - 1 : Tail(inbox)[i] = inbox[i + 1]
  BY QueueHead DEF Reads
<1>2. /\ inbox' = Tail(inbox) /\ srv' = srv /\ pc # "closed"
      /\ conn'.goaway = IF Frame.type = "goaway" THEN Frame.n ELSE conn.goaway
      /\ Frame.type # "goaway_error"
  BY DEF Reads
<1> DEFINE q == inbox
           r == Tail(inbox)
<1>3. /\ \A i \in 1..Len(q) :
            IsGoAway(q[i]) /\ (\A j \in i + 1..Len(q) : ~IsGoAway(q[j]))
               => q[i].n = srv.last
      /\ (\A i \in 1..Len(q) : ~IsGoAway(q[i]))
            => srv.last = IF conn.goaway = NoGoAway THEN MaxStreamId ELSE conn.goaway
  BY <1>2 DEF GoAwayLinked
<1>4. Frame = q[1] /\ Len(q) \in Nat \ {0} /\ Len(r) = Len(q) - 1
      /\ \A i \in 1..Len(r) : r[i] = q[i + 1]
  BY <1>1
<1> HIDE DEF q, r
<1>5. ASSUME NEW i \in 1..Len(r), IsGoAway(r[i]),
             \A j \in i + 1..Len(r) : ~IsGoAway(r[j])
      PROVE  r[i].n = srv.last
  <2>1. i + 1 \in 1..Len(q) /\ r[i] = q[i + 1]
    BY <1>4
  <2>2. ASSUME NEW j \in i + 2..Len(q)
        PROVE  ~IsGoAway(q[j])
    <3>1. j - 1 \in i + 1..Len(r) /\ j - 1 \in 1..Len(r) /\ (j - 1) + 1 = j
      BY <1>4
    <3> QED
      BY <1>4, <1>5, <3>1
  <2>3. \A j \in (i + 1) + 1..Len(q) : ~IsGoAway(q[j])
    BY <2>2
  <2> QED
    BY <1>3, <1>5, <2>1, <2>3
<1>6. ASSUME \A i \in 1..Len(r) : ~IsGoAway(r[i])
      PROVE  srv.last = IF conn'.goaway = NoGoAway THEN MaxStreamId ELSE conn'.goaway
  <2>1. ASSUME NEW i \in 2..Len(q)
        PROVE  ~IsGoAway(q[i])
    <3>1. i - 1 \in 1..Len(r) /\ (i - 1) + 1 = i
      BY <1>4
    <3> QED
      BY <1>4, <1>6, <3>1
  <2>2. CASE Frame.type = "goaway"
    <3>1. 1 \in 1..Len(q) /\ IsGoAway(q[1])
      BY <1>4, <2>2 DEF IsGoAway
    <3>2. q[1].n = srv.last
      BY <1>3, <2>1, <3>1
    <3>3. Frame.n \in Nat
      BY <1>1 DEF FrameSet
    <3> QED
      BY <1>2, <1>4, <2>2, <3>2, <3>3 DEF NoGoAway
  <2>3. CASE Frame.type # "goaway"
    <3>1. ~IsGoAway(q[1])
      BY <1>2, <1>4, <2>3 DEF IsGoAway
    <3>2. \A i \in 1..Len(q) : ~IsGoAway(q[i])
      BY <1>4, <2>1, <3>1
    <3> QED
      BY <1>2, <1>3, <2>3, <3>2
  <2> QED
    BY <2>2, <2>3
<1> QED
  BY <1>2, <1>5, <1>6 DEF GoAwayLinked, r

LEMMA GoAwaySent ==
  ASSUME TypeOK, GoAwayLinked, NEW f \in FrameSet, Sends(f), GoAwayFollows(f)
  PROVE  GoAwayLinked'
<1> DEFINE q == inbox
           r == Append(inbox, f)
<1>1. /\ Len(q) \in Nat /\ Len(r) = Len(q) + 1 /\ r[Len(q) + 1] = f
      /\ \A i \in 1..Len(q) : r[i] = q[i]
  BY QueueAppend
<1>2. inbox' = r /\ pc # "closed" /\ conn' = conn /\ pc' = pc
  BY DEF Sends
<1>3. /\ \A i \in 1..Len(q) :
            IsGoAway(q[i]) /\ (\A j \in i + 1..Len(q) : ~IsGoAway(q[j]))
               => q[i].n = srv.last
      /\ (\A i \in 1..Len(q) : ~IsGoAway(q[i]))
            => srv.last = IF conn.goaway = NoGoAway THEN MaxStreamId ELSE conn.goaway
  BY <1>2 DEF GoAwayLinked
<1>4. srv'.last = IF IsGoAway(f) THEN f.n ELSE srv.last
  BY DEF GoAwayFollows
<1> HIDE DEF q, r
<1>5. Len(r) \in 1..Len(r)
  BY <1>1
<1>6. ASSUME NEW i \in 1..Len(r), IsGoAway(r[i]),
             \A j \in i + 1..Len(r) : ~IsGoAway(r[j])
      PROVE  r[i].n = srv'.last
  <2>1. CASE i = Len(q) + 1
    BY <1>1, <1>4, <1>6, <2>1
  <2>2. CASE i # Len(q) + 1
    <3>1. i \in 1..Len(q) /\ Len(q) + 1 \in i + 1..Len(r)
      BY <1>1, <2>2
    <3>2. ~IsGoAway(f) /\ \A j \in i + 1..Len(q) : ~IsGoAway(q[j])
      <4>1. ASSUME NEW j \in i + 1..Len(q)
            PROVE  ~IsGoAway(q[j])
        <5>1. j \in i + 1..Len(r) /\ j \in 1..Len(q)
          BY <1>1, <3>1
        <5> QED
          BY <1>1, <1>6, <5>1
      <4> QED
        BY <1>1, <1>6, <3>1, <4>1
    <3> QED
      BY <1>1, <1>3, <1>4, <1>6, <3>1, <3>2
  <2> QED
    BY <2>1, <2>2
<1>7. ASSUME \A i \in 1..Len(r) : ~IsGoAway(r[i])
      PROVE  srv'.last = IF conn.goaway = NoGoAway THEN MaxStreamId ELSE conn.goaway
  <2>1. ~IsGoAway(f)
    BY <1>1, <1>5, <1>7
  <2>2. \A i \in 1..Len(q) : ~IsGoAway(q[i])
    BY <1>1, <1>7
  <2> QED
    BY <1>3, <1>4, <2>1, <2>2
<1> QED
  BY <1>2, <1>6, <1>7 DEF GoAwayLinked

-----------------------------------------------------------------------------
(* PING *)

PingsIn(q) == {i \in DOMAIN q : q[i].type = "ping"}

(* The queue without its head holds the same PINGs, save that one.         *)
LEMMA PingsBehind ==
  ASSUME TypeOK, Pending
  PROVE  /\ Cardinality(PingsIn(inbox)) \in Nat
         /\ Cardinality(PingsIn(Tail(inbox)))
              = IF Frame.type = "ping" THEN Cardinality(PingsIn(inbox)) - 1
                ELSE Cardinality(PingsIn(inbox))
<1> DEFINE q == inbox
           r == Tail(inbox)
           rest == PingsIn(q) \ {1}
           shift == [i \in PingsIn(r) |-> i + 1]
<1>1. /\ Frame = q[1] /\ Len(q) \in Nat \ {0} /\ Len(r) = Len(q) - 1
      /\ \A i \in 1..Len(r) : r[i] = q[i + 1]
      /\ DOMAIN q = 1..Len(q) /\ DOMAIN r = 1..Len(r)
  BY QueueHead DEF TypeOK
<1> HIDE DEF q, r
<1>2. PingsIn(q) \subseteq 1..Len(q) /\ PingsIn(r) \subseteq 1..Len(r)
  BY <1>1 DEF PingsIn
<1>3. IsFiniteSet(PingsIn(q)) /\ IsFiniteSet(PingsIn(r))
  <2>1. IsFiniteSet(1..Len(q)) /\ IsFiniteSet(1..Len(r))
    BY <1>1, FS_Interval
  <2> QED
    BY <1>2, <2>1, FS_Subset
<1>4. shift \in Bijection(PingsIn(r), rest)
  <2>1. ASSUME NEW i \in PingsIn(r)
        PROVE  i + 1 \in rest
    BY <1>1, <1>2, <2>1 DEF PingsIn
  <2>2. ASSUME NEW k \in rest
        PROVE  k - 1 \in PingsIn(r) /\ shift[k - 1] = k
    <3>1. k \in 2..Len(q) /\ q[k].type = "ping"
      BY <1>1, <1>2, <2>2 DEF PingsIn
    <3>2. k - 1 \in 1..Len(r) /\ (k - 1) + 1 = k
      BY <1>1, <3>1
    <3> QED
      BY <1>1, <3>1, <3>2 DEF PingsIn
  <2>3. shift \in [PingsIn(r) -> rest]
    BY <2>1
  <2>4. \A a, b \in PingsIn(r) : shift[a] = shift[b] => a = b
    BY <1>2
  <2> HIDE DEF shift, rest
  <2> QED
    BY <2>2, <2>3, <2>4, Fun_IsBij
<1>5. Cardinality(rest) = Cardinality(PingsIn(r))
  <2> HIDE DEF rest, shift
  <2>1. ExistsBijection(PingsIn(r), rest)
    BY <1>4, Fun_ExistsBij
  <2> QED
    BY <1>3, <2>1, FS_Bijection
<1>6. Cardinality(rest) = IF 1 \in PingsIn(q) THEN Cardinality(PingsIn(q)) - 1
                          ELSE Cardinality(PingsIn(q))
  BY <1>3, FS_RemoveElement
<1>7. 1 \in PingsIn(q) <=> Frame.type = "ping"
  BY <1>1 DEF PingsIn
<1>8. Cardinality(PingsIn(q)) \in Nat
  BY <1>3, FS_CardinalityType
<1> HIDE DEF rest
<1> QED
  BY <1>5, <1>6, <1>7, <1>8 DEF q, r

LEMMA PingsAhead ==
  ASSUME TypeOK, NEW f \in FrameSet
  PROVE  Cardinality(PingsIn(Append(inbox, f)))
            = IF f.type = "ping" THEN Cardinality(PingsIn(inbox)) + 1
              ELSE Cardinality(PingsIn(inbox))
<1> DEFINE q == inbox
           r == Append(inbox, f)
<1>1. /\ Len(q) \in Nat /\ Len(r) = Len(q) + 1 /\ r[Len(q) + 1] = f
      /\ \A i \in 1..Len(q) : r[i] = q[i]
      /\ DOMAIN q = 1..Len(q) /\ DOMAIN r = 1..Len(r)
  BY QueueAppend DEF TypeOK
<1> HIDE DEF q, r
<1>2. PingsIn(q) \subseteq 1..Len(q)
  BY <1>1 DEF PingsIn
<1>3. IsFiniteSet(PingsIn(q))
  <2>1. IsFiniteSet(1..Len(q))
    BY <1>1, FS_Interval
  <2> QED
    BY <1>2, <2>1, FS_Subset
<1>4. Len(q) + 1 \notin PingsIn(q)
  BY <1>1, <1>2
<1>5. CASE f.type = "ping"
  <2>1. PingsIn(r) = PingsIn(q) \cup {Len(q) + 1}
    BY <1>1, <1>5 DEF PingsIn
  <2> QED
    BY <1>3, <1>4, <1>5, <2>1, FS_AddElement DEF q, r
<1>6. CASE f.type # "ping"
  <2>1. PingsIn(r) = PingsIn(q)
    BY <1>1, <1>6 DEF PingsIn
  <2> QED
    BY <1>6, <2>1 DEF q, r
<1> QED
  BY <1>5, <1>6

LEMMA ReadsOrCloses ==
  ASSUME TypeOK, IInv, [Next]_vars
  PROVE  \/ Closes
         \/ /\ Reads
            /\ Handled \/ Settled \/ HeadersTaken \/ ContinuationTaken \/ DataTaken
         \/ /\ ServerStep
            /\ \E f \in FrameSet : Sends(f) /\ LedgerFollows(f) /\ PhaseFollows(f)
         \/ Uploads \/ Opens \/ Rests
<1>1. ASSUME ServerStep, ~SrvClose
      PROVE  \E f \in FrameSet : Sends(f) /\ LedgerFollows(f) /\ PhaseFollows(f)
  <2>1. StreamsInOrder
    BY DEF IInv
  <2> QED
    BY <1>1, <2>1, ServerShape
<1> QED
  BY <1>1, StepKinds, ClientReads

-----------------------------------------------------------------------------
(* Every step keeps track of GOAWAY and PING. *)

Answering == GoAwayLinked /\ PingsAnswered

LEMMA InitAnswering == Init => Answering
<1> SUFFICES ASSUME Init
             PROVE  Answering
  OBVIOUS
<1>1. /\ inbox = <<>> /\ conn.goaway = NoGoAway /\ srv.last = MaxStreamId
      /\ pings = 0
  BY DEF Init, handshake
<1>2. GoAwayLinked
  BY <1>1 DEF GoAwayLinked
<1>3. {i \in DOMAIN inbox : inbox[i].type = "ping"} = {}
  BY <1>1
<1>4. PingsAnswered
  BY <1>1, <1>3, FS_EmptySet DEF PingsAnswered
<1> QED
  BY <1>2, <1>4 DEF Answering

LEMMA NextAnswering ==
  ASSUME TypeOK, IInv, Answering, [Next]_vars
  PROVE  Answering'
<1>1. CASE Closes
  BY <1>1 DEF Closes, Answering, GoAwayLinked, PingsAnswered
<1>2. CASE Reads
  <2>1. pings = Cardinality(PingsIn(inbox)) /\ Pending
    BY <1>2 DEF Answering, PingsAnswered, PingsIn, Reads
  <2>2. pings' = Cardinality(PingsIn(Tail(inbox)))
    BY <1>2, <2>1, PingsBehind DEF Reads
  <2>3. PingsAnswered'
    BY <1>2, <2>2 DEF PingsAnswered, PingsIn, Reads
  <2> QED
    BY <1>2, <2>3, GoAwayRead DEF Answering
<1>3. ASSUME ServerStep, NEW f \in FrameSet, Sends(f)
      PROVE  Answering'
  <2>1. GoAwayFollows(f) /\ PingFollows(f)
    BY <1>3, ServerSays
  <2>2. pings = Cardinality(PingsIn(inbox))
    BY <1>3 DEF Answering, PingsAnswered, PingsIn, Sends
  <2>3. pings' = Cardinality(PingsIn(Append(inbox, f)))
    BY <2>1, <2>2, PingsAhead DEF PingFollows
  <2>4. PingsAnswered'
    BY <1>3, <2>3 DEF PingsAnswered, PingsIn, Sends
  <2> QED
    BY <1>3, <2>1, <2>4, GoAwaySent DEF Answering
<1>4. CASE Uploads \/ Opens
  <2>1. /\ inbox' = inbox /\ pings' = pings /\ conn'.goaway = conn.goaway
        /\ srv'.last = srv.last /\ pc # "closed"
    BY <1>4 DEF Uploads, Opens
  <2> QED
    BY <2>1 DEF Answering, GoAwayLinked, PingsAnswered
<1>5. CASE Rests
  <2>1. UNCHANGED <<inbox, pings, conn, pc>> /\ srv'.last = srv.last
    BY <1>5 DEF Rests
  <2> QED
    BY <2>1 DEF Answering, GoAwayLinked, PingsAnswered
<1> QED
  BY <1>1, <1>2, <1>3, <1>4, <1>5, ReadsOrCloses

(* An open connection owes an acknowledgement for every PING it has read,  *)
(* and pays it with the read: the PINGs without one are those still in the *)
(* queue, whichever loop reads them (connection.rs:170-187).               *)
THEOREM NoPingSkipped == Spec => []PingsAnswered
<1>1. Init => TypeOK /\ IInv /\ Answering
  BY InitInv, InitAnswering
<1>2. TypeOK /\ IInv /\ Answering /\ [Next]_vars => (TypeOK /\ IInv /\ Answering)'
  BY NextInv, NextAnswering
<1>3. TypeOK /\ IInv /\ Answering => PingsAnswered
  BY DEF Answering
<1> QED
  BY <1>1, <1>2, <1>3, PTL DEF Spec

(* Once every GOAWAY is read, a stream opens only if the server serves it: *)
(* send_request looks at the last one stored, and none is on its way       *)
(* (connection.rs:189-199).                                                *)
THEOREM GoAwayIsKept == Spec => NoStreamBeyondGoAway
<1>1. Init => TypeOK /\ IInv /\ Answering
  BY InitInv, InitAnswering
<1>2. TypeOK /\ IInv /\ Answering /\ [Next]_vars => (TypeOK /\ IInv /\ Answering)'
  BY NextInv, NextAnswering
<1> DEFINE Kept == strm'.id # strm.id /\ ~Holds({"goaway", "goaway_error"})
                      => strm'.id <= srv.last
<1>3. TypeOK /\ IInv /\ Answering /\ [Next]_vars => [Kept]_vars
  <2> SUFFICES ASSUME TypeOK, IInv, Answering, [Next]_vars, strm'.id # strm.id,
                      ~Holds({"goaway", "goaway_error"})
               PROVE  strm'.id <= srv.last
    OBVIOUS
  <2>1. Opens
    <3>1. ~Reads /\ ~Uploads /\ ~Rests
      BY DEF Reads, Uploads, Rests
    <3>2. \A f \in FrameSet : ~Sends(f)
      BY DEF Sends
    <3>3. ~Closes
      BY DEF Closes
    <3> QED
      BY <3>1, <3>2, <3>3, ReadsOrCloses
  <2>2. /\ conn.goaway = NoGoAway \/ conn.next <= conn.goaway
        /\ conn.next <= MaxStreamId /\ strm'.id = conn.next /\ pc # "closed"
    BY <2>1 DEF Opens
  <2>3. \A i \in 1..Len(inbox) : ~IsGoAway(inbox[i])
    <3>1. DOMAIN inbox = 1..Len(inbox)
      BY DEF TypeOK
    <3> QED
      BY <3>1 DEF Holds, IsGoAway
  <2>4. srv.last = IF conn.goaway = NoGoAway THEN MaxStreamId ELSE conn.goaway
    BY <2>2, <2>3 DEF Answering, GoAwayLinked
  <2> QED
    BY <2>2, <2>4
<1> QED
  BY <1>1, <1>2, <1>3, PTL DEF Spec, NoStreamBeyondGoAway

-----------------------------------------------------------------------------
(* SETTINGS and the size of a chunk *)

LEMMA SettingsRead ==
  ASSUME TypeOK, SettingsLinked, Reads
  PROVE  SettingsLinked'
<1> DEFINE q == inbox
           r == Tail(inbox)
<1>1. /\ Frame = q[1] /\ Len(q) \in Nat \ {0} /\ Len(r) = Len(q) - 1
      /\ \A i \in 1..Len(r) : r[i] = q[i + 1]
  BY QueueHead DEF Reads
<1>2. /\ inbox' = r /\ srv' = srv /\ pc # "closed"
      /\ conn'.peer_max = IF pc = "handshake" /\ Frame.type = "settings"
                             /\ Frame.n \in MinFrame..MaxFrame
                          THEN Frame.n ELSE conn.peer_max
      /\ pc' = "handshake" <=> pc = "handshake" /\ Frame.type # "settings"
  BY DEF Reads
<1>3. /\ pc = "handshake" => conn.peer_max = MinFrame
      /\ ~srv.settled => pc = "handshake" /\ srv.max = MinFrame
      /\ \A i \in 1..Len(q) : q[i].type = "settings" =>
            /\ pc = "handshake" /\ srv.settled /\ srv.max = Legal(q[i].n)
            /\ \A j \in 1..Len(q) : q[j].type = "settings" => j = i
      /\ (\A i \in 1..Len(q) : q[i].type # "settings") => conn.peer_max = srv.max
  BY <1>2 DEF SettingsLinked
<1> HIDE DEF q, r
<1>4. \A i \in 1..Len(r) : i + 1 \in 1..Len(q)
  BY <1>1
<1>5. 1 \in 1..Len(q)
  BY <1>1
<1>6. CASE Frame.type = "settings"
  <2>1. /\ pc = "handshake" /\ srv.settled /\ srv.max = Legal(Frame.n)
        /\ conn'.peer_max = srv.max /\ pc' # "handshake"
    BY <1>1, <1>2, <1>3, <1>5, <1>6 DEF Legal
  <2>2. \A i \in 1..Len(r) : r[i].type # "settings"
    <3>1. ASSUME NEW i \in 1..Len(r), r[i].type = "settings"
          PROVE  FALSE
      <4>1. i + 1 = 1
        BY <1>1, <1>3, <1>4, <1>5, <1>6, <3>1
      <4> QED
        BY <4>1
    <3> QED
      BY <3>1
  <2> QED
    BY <1>2, <2>1, <2>2 DEF SettingsLinked
<1>7. CASE Frame.type # "settings"
  <2>1. conn'.peer_max = conn.peer_max /\ (pc' = "handshake" <=> pc = "handshake")
    BY <1>2, <1>7
  <2>2. ASSUME NEW i \in 1..Len(r), r[i].type = "settings"
        PROVE  /\ pc = "handshake" /\ srv.settled /\ srv.max = Legal(r[i].n)
               /\ \A j \in 1..Len(r) : r[j].type = "settings" => j = i
    <3>1. i + 1 \in 1..Len(q) /\ q[i + 1].type = "settings" /\ r[i] = q[i + 1]
      BY <1>1, <1>4, <2>2
    <3>2. ASSUME NEW j \in 1..Len(r), r[j].type = "settings"
          PROVE  j = i
      <4>1. j + 1 \in 1..Len(q) /\ q[j + 1].type = "settings"
        BY <1>1, <1>4, <3>2
      <4>2. j + 1 = i + 1
        BY <1>3, <3>1, <4>1
      <4> QED
        BY <4>2
    <3> QED
      BY <1>3, <3>1, <3>2
  <2>3. ASSUME \A i \in 1..Len(r) : r[i].type # "settings"
        PROVE  conn.peer_max = srv.max
    <3>1. ASSUME NEW i \in 1..Len(q)
          PROVE  q[i].type # "settings"
      <4>1. CASE i = 1
        BY <1>1, <1>7, <4>1
      <4>2. CASE i # 1
        <5>1. i - 1 \in 1..Len(r) /\ (i - 1) + 1 = i
          BY <1>1, <4>2
        <5> QED
          BY <1>1, <2>3, <5>1
      <4> QED
        BY <4>1, <4>2
    <3> QED
      BY <1>3, <3>1
  <2> QED
    BY <1>2, <1>3, <2>1, <2>2, <2>3 DEF SettingsLinked
<1> QED
  BY <1>6, <1>7

LEMMA SettingsSent ==
  ASSUME TypeOK, SettingsLinked, NEW f \in FrameSet, Sends(f), SettingsFollow(f)
  PROVE  SettingsLinked'
<1> DEFINE q == inbox
           r == Append(inbox, f)
<1>1. /\ Len(q) \in Nat /\ Len(r) = Len(q) + 1 /\ r[Len(q) + 1] = f
      /\ \A i \in 1..Len(q) : r[i] = q[i]
  BY QueueAppend
<1>2. inbox' = r /\ pc # "closed" /\ conn' = conn /\ pc' = pc
  BY DEF Sends
<1>3. /\ pc = "handshake" => conn.peer_max = MinFrame
      /\ ~srv.settled => pc = "handshake" /\ srv.max = MinFrame
      /\ \A i \in 1..Len(q) : q[i].type = "settings" =>
            /\ pc = "handshake" /\ srv.settled /\ srv.max = Legal(q[i].n)
            /\ \A j \in 1..Len(q) : q[j].type = "settings" => j = i
      /\ (\A i \in 1..Len(q) : q[i].type # "settings") => conn.peer_max = srv.max
  BY <1>2 DEF SettingsLinked
<1>4. IF f.type = "settings"
      THEN ~srv.settled /\ srv'.settled /\ srv'.max = Legal(f.n)
      ELSE srv'.settled = srv.settled /\ srv'.max = srv.max
  BY DEF SettingsFollow
<1> HIDE DEF q, r
<1>5. \A i \in 1..Len(r) : i \in 1..Len(q) \/ i = Len(q) + 1
  BY <1>1
<1>6. Len(q) + 1 \in 1..Len(r) /\ \A i \in 1..Len(q) : i \in 1..Len(r)
  BY <1>1
<1>7. CASE f.type = "settings"
  <2>1. pc = "handshake" /\ \A i \in 1..Len(q) : q[i].type # "settings"
    BY <1>3, <1>4, <1>7
  <2>2. \A i \in 1..Len(r) : r[i].type = "settings" => i = Len(q) + 1
    BY <1>1, <1>5, <2>1
  <2> HIDE DEF r
  <2>3. r[Len(q) + 1].type = "settings" /\ r[Len(q) + 1].n = f.n
    BY <1>1, <1>7
  <2>4. \A i \in 1..Len(r) : r[i].type = "settings" =>
            /\ pc = "handshake" /\ srv'.settled /\ srv'.max = Legal(r[i].n)
            /\ \A j \in 1..Len(r) : r[j].type = "settings" => j = i
    BY <1>4, <1>7, <2>1, <2>2, <2>3
  <2> QED
    BY <1>2, <1>3, <1>4, <1>6, <1>7, <2>1, <2>3, <2>4 DEF SettingsLinked
<1>8. CASE f.type # "settings"
  <2>1. \A i \in 1..Len(r) : r[i].type = "settings" => i \in 1..Len(q) /\ r[i] = q[i]
    BY <1>1, <1>5, <1>8
  <2>2. (\A i \in 1..Len(r) : r[i].type # "settings")
           => \A i \in 1..Len(q) : q[i].type # "settings"
    BY <1>1, <1>6
  <2>3. \A i \in 1..Len(r) : r[i].type = "settings" =>
            /\ pc = "handshake" /\ srv.settled /\ srv.max = Legal(r[i].n)
            /\ \A j \in 1..Len(r) : r[j].type = "settings" => j = i
    BY <1>3, <2>1
  <2>4. srv'.settled = srv.settled /\ srv'.max = srv.max
    BY <1>4, <1>8
  <2> QED
    BY <1>2, <1>3, <2>2, <2>3, <2>4 DEF SettingsLinked
<1> QED
  BY <1>7, <1>8

LEMMA InitSettings == Init => SettingsLinked /\ NothingLeft
BY DEF Init, handshake, SettingsLinked, NothingLeft

LEMMA NextSettings ==
  ASSUME TypeOK, IInv, SettingsLinked, NothingLeft, [Next]_vars, LaterFrameSizes = {}
  PROVE  (SettingsLinked /\ NothingLeft)'
<1>1. CASE Closes
  BY <1>1 DEF Closes, SettingsLinked, NothingLeft
<1>2. CASE Reads
  <2>1. /\ left' = left /\ pc # "closed" /\ (pc' = "upload" <=> pc = "upload")
        /\ pc \in Pcs
    BY <1>2 DEF Reads, TypeOK
  <2>2. NothingLeft'
    BY <2>1 DEF NothingLeft, Pcs
  <2> QED
    BY <1>2, <2>2, SettingsRead
<1>3. ASSUME ServerStep, NEW f \in FrameSet, Sends(f)
      PROVE  (SettingsLinked /\ NothingLeft)'
  <2>1. SettingsFollow(f)
    BY <1>3, ServerSays
  <2>2. SettingsLinked'
    BY <1>3, <2>1, SettingsSent
  <2>3. NothingLeft'
    BY <1>3 DEF Sends, NothingLeft
  <2> QED
    BY <2>2, <2>3
<1>4. CASE Uploads \/ Opens
  <2>1. /\ inbox' = inbox /\ conn'.peer_max = conn.peer_max
        /\ srv'.max = srv.max /\ srv'.settled = srv.settled
        /\ pc \in {"idle", "upload"} /\ pc' \in {"upload", "response"}
        /\ pc' = "response" => left' = 0
    BY <1>4 DEF Uploads, Opens
  <2> QED
    BY <2>1 DEF SettingsLinked, NothingLeft
<1>5. CASE Rests
  <2>1. UNCHANGED <<inbox, left, conn, pc>> /\ srv'.max = srv.max
        /\ srv'.settled = srv.settled
    BY <1>5 DEF Rests
  <2> QED
    BY <2>1 DEF SettingsLinked, NothingLeft
<1> QED
  BY <1>1, <1>2, <1>3, <1>4, <1>5, ReadsOrCloses

(* Where servers send SETTINGS once, no DATA frame is larger than the      *)
(* server accepts once the client has read them, for every body and every  *)
(* frame size the server announces, legal or not (connection.rs:144-153,   *)
(* 206-240).                                                               *)
THEOREM ChunksFitFrame ==
  ASSUME LaterFrameSizes = {}
  PROVE  Spec => UploadFitsFrame
<1> DEFINE Sent == SettingsLinked /\ NothingLeft
           Fits == left' < left /\ ~Holds({"settings"}) => left - left' <= srv.max
<1>1. Init => TypeOK /\ IInv /\ Sent
  BY InitInv, InitSettings
<1>2. TypeOK /\ IInv /\ Sent /\ [Next]_vars => (TypeOK /\ IInv /\ Sent)'
  BY NextInv, NextSettings
<1>3. TypeOK /\ IInv /\ Sent /\ [Next]_vars => [Fits]_vars
  <2> SUFFICES ASSUME TypeOK, IInv, SettingsLinked, NothingLeft, [Next]_vars,
                      left' < left, ~Holds({"settings"})
               PROVE  left - left' <= srv.max
    OBVIOUS
  <2>1. left \in Nat
    BY DEF TypeOK
  <2>2. CASE UploadChunk
    <3> DEFINE sent == Smallest({Available, left})
    <3>1. sent \in Nat /\ sent <= conn.peer_max /\ left' = left - sent /\ pc = "upload"
      BY <2>2, ChunkFits DEF UploadChunk
    <3> HIDE DEF sent
    <3>2. \A i \in 1..Len(inbox) : inbox[i].type # "settings"
      <4>1. DOMAIN inbox = 1..Len(inbox)
        BY DEF TypeOK
      <4> QED
        BY <4>1 DEF Holds
    <3>3. conn.peer_max = srv.max
      BY <3>1, <3>2 DEF SettingsLinked
    <3>4. conn.peer_max \in Nat
      BY WindowAssumption DEF TypeOK, ConnType
    <3> QED
      BY <2>1, <3>1, <3>3, <3>4
  <2>3. CASE ~UploadChunk
    <3>1. ~Uploads /\ ~Reads /\ ~Rests
      BY <2>1, <2>3 DEF Uploads, Reads, Rests
    <3>2. \A f \in FrameSet : ~Sends(f)
      BY <2>1 DEF Sends
    <3>3. ~Opens
      <4>1. SUFFICES ASSUME Opens PROVE FALSE
        OBVIOUS
      <4>2. left = 0
        BY <4>1 DEF Opens, NothingLeft
      <4>3. left' \in Nat
        BY NextInv DEF TypeOK
      <4> QED
        BY <4>2, <4>3
    <3>4. ~Closes
      BY <2>1 DEF Closes
    <3> QED
      BY <3>1, <3>2, <3>3, <3>4, ReadsOrCloses
  <2> QED
    BY <2>2, <2>3
<1> QED
  BY <1>1, <1>2, <1>3, PTL DEF Spec, UploadFitsFrame

-----------------------------------------------------------------------------
(* The order of a response *)

LEMMA OrderAtRead ==
  ASSUME NEW q, NEW r, NEW sid, NEW read \in BOOLEAN, NEW now \in BOOLEAN,
         Len(q) \in Nat \ {0}, Len(r) = Len(q) - 1,
         \A i \in 1..Len(r) : r[i] = q[i + 1],
         InOrder(q, sid, read), now <=> read \/ EndsHeaders(q[1])
  PROVE  InOrder(r, sid, now)
<1>1. 1 \in 1..Len(q) /\ \A i \in 1..Len(r) : i + 1 \in 1..Len(q)
  OBVIOUS
<1>2. ASSUME NEW i \in 1..Len(r)
      PROVE  /\ Carries(r[i]) => r[i].sid = sid
             /\ Trails(r[i]) => Trailers /\ r[i].es
             /\ r[i].type = "headers" /\ r[i].es => EndsHeaders(r[i]) \/ Trails(r[i])
  BY <1>1 DEF InOrder
<1>3. ASSUME NEW i \in 1..Len(r), NEW j \in 1..Len(r), i < j
      PROVE  /\ EndsHeaders(r[i]) \/ r[i].type = "data"
                   => (r[j].type = "headers" => Trails(r[j]))
             /\ Carries(r[i]) /\ r[i].es => ~Carries(r[j])
  <2>1. i + 1 < j + 1
    BY <1>3
  <2> QED
    BY <1>1, <2>1 DEF InOrder
<1>4. ASSUME NEW j \in 1..Len(r), r[j].type = "data" \/ Trails(r[j])
      PROVE  now \/ \E i \in 1..Len(r) : i < j /\ EndsHeaders(r[i])
  <2>1. CASE read
    BY <2>1
  <2>2. CASE ~read
    <3>1. PICK i \in 1..Len(q) : i < j + 1 /\ EndsHeaders(q[i])
      BY <1>1, <1>4, <2>2 DEF InOrder
    <3>2. CASE i = 1
      BY <3>1, <3>2
    <3>3. CASE i # 1
      <4>1. i - 1 \in 1..Len(r) /\ i - 1 < j /\ (i - 1) + 1 = i
        BY <3>1, <3>3
      <4> QED
        BY <3>1, <4>1
    <3> QED
      BY <3>2, <3>3
  <2> QED
    BY <2>1, <2>2
<1>5. ASSUME now, NEW i \in 1..Len(r), r[i].type = "headers"
      PROVE  Trails(r[i])
  <2>1. 1 < i + 1
    OBVIOUS
  <2> QED
    BY <1>1, <1>5, <2>1 DEF InOrder
<1> QED
  BY <1>2, <1>3, <1>4, <1>5 DEF InOrder

LEMMA OrderOfNone ==
  ASSUME NEW q, NEW sid, NEW read, NoneCarries(q)
  PROVE  InOrder(q, sid, read)
BY DEF InOrder, NoneCarries, Carries, EndsHeaders, Trails

LEMMA OrderAtSend ==
  ASSUME NEW q, NEW r, NEW f, NEW sid, NEW read \in BOOLEAN, Len(q) \in Nat,
         Len(r) = Len(q) + 1, r[Len(q) + 1] = f,
         \A i \in 1..Len(q) : r[i] = q[i],
         InOrder(q, sid, read),
         Carries(f) => f.sid = sid /\ \A i \in 1..Len(q) : ~(Carries(q[i]) /\ q[i].es),
         f.type = "headers" /\ ~Trails(f) =>
            /\ f.es => EndsHeaders(f)
            /\ ~read /\ ~SomeEnds(q) /\ \A i \in 1..Len(q) : q[i].type # "data",
         Trails(f) => Trailers /\ f.es,
         f.type = "data" \/ Trails(f) => read \/ SomeEnds(q)
  PROVE  InOrder(r, sid, read)
<1>1. \A i \in 1..Len(r) : (i \in 1..Len(q) /\ r[i] = q[i]) \/ (i = Len(q) + 1 /\ r[i] = f)
  OBVIOUS
<1>2. ASSUME NEW i \in 1..Len(r)
      PROVE  /\ Carries(r[i]) => r[i].sid = sid
             /\ Trails(r[i]) => Trailers /\ r[i].es
             /\ r[i].type = "headers" /\ r[i].es => EndsHeaders(r[i]) \/ Trails(r[i])
             /\ read => (r[i].type = "headers" => Trails(r[i]))
  <2>1. CASE i \in 1..Len(q) /\ r[i] = q[i]
    BY <2>1 DEF InOrder
  <2>2. CASE r[i] = f
    BY <2>2 DEF Trails
  <2> QED
    BY <1>1, <2>1, <2>2
<1>3. ASSUME NEW i \in 1..Len(r), NEW j \in 1..Len(r), i < j
      PROVE  /\ EndsHeaders(r[i]) \/ r[i].type = "data"
                   => (r[j].type = "headers" => Trails(r[j]))
             /\ Carries(r[i]) /\ r[i].es => ~Carries(r[j])
  <2>1. i \in 1..Len(q) /\ r[i] = q[i]
    BY <1>1, <1>3
  <2>2. CASE j \in 1..Len(q)
    BY <1>3, <2>1, <2>2 DEF InOrder
  <2>3. CASE r[j] = f
    BY <2>1, <2>3 DEF SomeEnds, Carries
  <2> QED
    BY <1>1, <2>2, <2>3
<1>4. ASSUME NEW j \in 1..Len(r), r[j].type = "data" \/ Trails(r[j])
      PROVE  read \/ \E i \in 1..Len(r) : i < j /\ EndsHeaders(r[i])
  <2>1. CASE j \in 1..Len(q)
    BY <1>4, <2>1 DEF InOrder
  <2>2. CASE j = Len(q) + 1
    <3>1. read \/ SomeEnds(q)
      BY <1>4, <2>2
    <3> QED
      BY <2>2, <3>1 DEF SomeEnds
  <2> QED
    BY <1>1, <2>1, <2>2
<1> QED
  BY <1>2, <1>3, <1>4 DEF InOrder

(* What is behind the head carries no more than the whole queue.           *)
LEMMA Behind ==
  ASSUME NEW q, NEW r, Len(q) \in Nat \ {0}, Len(r) = Len(q) - 1,
         \A i \in 1..Len(r) : r[i] = q[i + 1]
  PROVE  /\ NoneCarries(q) => NoneCarries(r) /\ ~Carries(q[1])
         /\ SomeEnds(r) => SomeEnds(q)
         /\ SomeEnds(q) => EndsHeaders(q[1]) \/ SomeEnds(r)
         /\ (\A i \in 1..Len(q) : q[i].type # "data")
               => q[1].type # "data" /\ \A i \in 1..Len(r) : r[i].type # "data"
         /\ \A sid, read : InOrder(q, sid, read) /\ Carries(q[1]) /\ q[1].es
               => NoneCarries(r)
<1>1. 1 \in 1..Len(q) /\ \A i \in 1..Len(r) : i + 1 \in 1..Len(q) /\ 1 < i + 1
  OBVIOUS
<1>2. SomeEnds(q) => EndsHeaders(q[1]) \/ SomeEnds(r)
  <2>1. ASSUME NEW i \in 1..Len(q), EndsHeaders(q[i]), i # 1
        PROVE  SomeEnds(r)
    <3>1. i - 1 \in 1..Len(r) /\ (i - 1) + 1 = i
      BY <2>1
    <3> QED
      BY <2>1, <3>1 DEF SomeEnds
  <2> QED
    BY <2>1 DEF SomeEnds
<1>3. NoneCarries(q) => NoneCarries(r) /\ ~Carries(q[1])
  BY <1>1 DEF NoneCarries
<1>4. SomeEnds(r) => SomeEnds(q)
  BY <1>1 DEF SomeEnds
<1>5. (\A i \in 1..Len(q) : q[i].type # "data")
         => q[1].type # "data" /\ \A i \in 1..Len(r) : r[i].type # "data"
  BY <1>1
<1>6. ASSUME NEW sid, NEW read, InOrder(q, sid, read), Carries(q[1]), q[1].es
      PROVE  NoneCarries(r)
  BY <1>1, <1>6 DEF InOrder, NoneCarries
<1> QED
  BY <1>2, <1>3, <1>4, <1>5, <1>6

-----------------------------------------------------------------------------
(* What a read means for the answer *)

(* The call goes on, knowing whether the header section has ended.         *)
GoesOn ==
    /\ pc' # "idle" /\ result' # "ok"
    /\ HeadersRead' <=> HeadersRead \/ EndsHeaders(Frame)
    /\ pc' = "continuation" /\ block'.es =>
          block'.kind \in {"final", "malformed", "trailers"} /\ NoneCarries(Tail(inbox))
    /\ pc' = "continuation" /\ block'.kind = "trailers" => Trailers /\ block'.es
    /\ pc' \in {"handshake", "upload"} => pc' = pc /\ resp' = resp

(* The call returns: nothing of the response is left in the queue.         *)
Returns ==
    /\ pc' = "idle" /\ NoneCarries(Tail(inbox)) /\ srv.phase \in {"none", "done"}
    /\ result' = "ok" => Answered(resp'.headers) /\ srv.phase = "done"

LEMMA AnswerTaken ==
  ASSUME TypeOK, IInv, AnswerInOrder, OkIsLast, Reads,
         Handled \/ Settled \/ HeadersTaken \/ ContinuationTaken \/ DataTaken
  PROVE  ledger'.lost = 0 /\ (GoesOn \/ Returns)
<1> DEFINE q == inbox
           r == Tail(inbox)
<1>1. /\ Frame = q[1] /\ Len(q) \in Nat \ {0} /\ Len(r) = Len(q) - 1
      /\ \A i \in 1..Len(r) : r[i] = q[i + 1]
      /\ Frame \in FrameSet
  BY QueueHead DEF Reads
<1>2. /\ InOrder(q, strm.id, HeadersRead)
      /\ pc \in {"handshake", "idle", "upload"} => NoneCarries(q)
      /\ pc = "continuation" /\ block.es =>
            block.kind \in {"final", "malformed", "trailers"} /\ NoneCarries(q)
      /\ pc = "continuation" /\ block.kind = "trailers" => Trailers /\ block.es
      /\ srv' = srv /\ pc # "closed"
  BY DEF AnswerInOrder, Reads
<1>3. 1 \in 1..Len(q) /\ HeadersRead \in BOOLEAN
  BY <1>1 DEF HeadersRead
<1>4. ledger.lost = 0 /\ (result = "ok" => pc = "idle")
  BY <1>2 DEF OkIsLast
<1> HIDE DEF q, r
<1>5. /\ NoneCarries(q) => NoneCarries(r) /\ ~Carries(Frame)
      /\ Carries(Frame) /\ Frame.es => NoneCarries(r)
  BY <1>1, <1>2, Behind
<1>6. /\ Frame.type = "headers" /\ ~Trails(Frame)
            => ~HeadersRead /\ (Frame.es => EndsHeaders(Frame))
      /\ Trails(Frame) => Trailers /\ Frame.es
  BY <1>1, <1>2, <1>3 DEF InOrder
<1>7. Frame.type = "data" \/ Trails(Frame) => HeadersRead
  <2>1. ~(\E i \in 1..Len(q) : i < 1 /\ EndsHeaders(q[i]))
    OBVIOUS
  <2> QED
    BY <1>1, <1>2, <1>3, <2>1 DEF InOrder
<1>8. CASE Handled
  <2>1. ~Carries(Frame)
    <3>1. CASE pc = "response"
      <4>1. Carries(Frame) => Frame.sid = strm.id
        BY <1>1, <1>2, <1>3 DEF InOrder
      <4> QED
        BY <1>8, <3>1, <4>1 DEF Handled, Ours
    <3>2. CASE pc # "response"
      BY <1>2, <1>5, <1>8, <3>2 DEF Handled
    <3> QED
      BY <3>1, <3>2
  <2>2. Bytes(Frame) = 0 /\ ~EndsHeaders(Frame)
    BY <2>1 DEF Bytes, Carries, EndsHeaders
  <2>3. GoesOn
    BY <1>4, <1>8, <2>2 DEF Handled, GoesOn, HeadersRead
  <2> QED
    BY <1>4, <1>8, <2>2, <2>3 DEF Handled
<1>9. CASE Settled
  <2>1. pc = "handshake" /\ pc' = "idle" /\ result' = "connected"
    BY <1>9 DEF Settled
  <2>2. srv.phase \in {"none", "done"}
    BY <2>1 DEF IInv, Quiet
  <2> QED
    BY <1>2, <1>4, <1>5, <1>9, <2>1, <2>2 DEF Settled, Returns, r
<1>10. CASE HeadersTaken
  <2>1. /\ pc = "response" /\ Frame.type = "headers" /\ Ours /\ result # "ok"
        /\ ledger'.lost = 0
        /\ Frame.es => NoneCarries(r)
    BY <1>4, <1>5, <1>10 DEF HeadersTaken, Carries
  <2>2. Frame.es => srv.phase = "done"
    BY <1>1, <1>3, <2>1 DEF IInv, StreamsInOrder, EndsStream, Ours, q
  <2>3. Frame.es => \/ Frame.kind \in {"final", "malformed"}
                    \/ Frame.kind = "trailers" /\ Trailers
    BY <1>6, <2>1 DEF EndsHeaders, Trails
  <2>4. CASE HeadersDone(Frame.kind, Frame.es)
    <3>1. CASE Frame.es
      <4>1. Answered(Frame.kind)
        BY <2>3, <2>4, <3>1 DEF HeadersDone, Answered
      <4> QED
        BY <2>1, <2>2, <2>4, <3>1, <4>1 DEF HeadersDone, Returns, r
    <3>2. CASE ~Frame.es
      <4>1. /\ pc' = "response" /\ result' = result /\ resp'.headers = Frame.kind
            /\ Frame.kind # "malformed"
        BY <2>4, <3>2 DEF HeadersDone
      <4>2. ~HeadersRead
        BY <1>6, <2>1, <3>2
      <4>3. HeadersRead' <=> EndsHeaders(Frame)
        BY <2>1, <4>1 DEF HeadersRead, EndsHeaders
      <4> QED
        BY <2>1, <4>1, <4>2, <4>3 DEF GoesOn
    <3> QED
      BY <3>1, <3>2
  <2>5. CASE HeadersSplit(Frame.kind, Frame.es)
    <3>1. /\ pc' = "continuation" /\ block'.kind = Frame.kind /\ block'.es = Frame.es
          /\ result' = result
      BY <2>5 DEF HeadersSplit
    <3>2. HeadersRead' <=> EndsHeaders(Frame) \/ Trails(Frame)
      BY <2>1, <3>1 DEF HeadersRead, EndsHeaders, Trails
    <3>3. HeadersRead' <=> HeadersRead \/ EndsHeaders(Frame)
      BY <1>6, <1>7, <2>1, <3>2
    <3>4. /\ block'.es => /\ block'.kind \in {"final", "malformed", "trailers"}
                          /\ NoneCarries(r)
          /\ block'.kind = "trailers" => Trailers /\ block'.es
      BY <1>6, <2>1, <2>3, <3>1 DEF Trails
    <3> QED
      BY <2>1, <3>1, <3>3, <3>4 DEF GoesOn, r
  <2> QED
    BY <1>10, <2>4, <2>5 DEF HeadersTaken
<1>11. CASE ContinuationTaken
  <2>1. /\ pc = "continuation" /\ ~EndsHeaders(Frame) /\ ledger'.lost = 0
        /\ result # "ok"
    BY <1>4, <1>11 DEF ContinuationTaken, EndsHeaders
  <2>2. HeadersRead <=> block.kind \in {"final", "malformed", "trailers"}
    BY <2>1 DEF HeadersRead
  <2>3. /\ block.es => block.kind \in {"final", "malformed", "trailers"}
                       /\ NoneCarries(r) /\ srv.phase = "done"
        /\ block.kind = "trailers" => Trailers /\ block.es
    BY <1>2, <1>5, <2>1 DEF IInv, Quiet
  <2>4. CASE HeadersDone(block.kind, block.es)
    <3>1. CASE block.es
      <4>1. Answered(block.kind)
        BY <2>3, <2>4, <3>1 DEF HeadersDone, Answered
      <4> QED
        BY <2>1, <2>3, <2>4, <3>1, <4>1 DEF HeadersDone, Returns, r
    <3>2. CASE ~block.es
      <4>1. /\ pc' = "response" /\ result' = result /\ resp'.headers = block.kind
            /\ block.kind # "malformed"
        BY <2>4, <3>2 DEF HeadersDone
      <4>2. HeadersRead' <=> HeadersRead
        BY <2>2, <2>3, <3>2, <4>1 DEF HeadersRead
      <4> QED
        BY <2>1, <4>1, <4>2 DEF GoesOn
    <3> QED
      BY <3>1, <3>2
  <2>5. CASE HeadersSplit(block.kind, block.es)
    <3>1. /\ pc' = "continuation" /\ block'.kind = block.kind /\ block'.es = block.es
          /\ result' = result
      BY <2>5 DEF HeadersSplit
    <3>2. HeadersRead' <=> HeadersRead
      BY <2>2, <3>1 DEF HeadersRead
    <3>3. /\ block'.es => /\ block'.kind \in {"final", "malformed", "trailers"}
                          /\ NoneCarries(r)
          /\ block'.kind = "trailers" => Trailers /\ block'.es
      BY <2>3, <3>1
    <3> QED
      BY <2>1, <3>1, <3>2, <3>3 DEF GoesOn, r
  <2> QED
    BY <1>11, <2>4, <2>5 DEF ContinuationTaken
<1>12. CASE DataTaken
  <2>1. /\ pc = "response" /\ Frame.type = "data" /\ Ours /\ ledger'.lost = 0
        /\ resp'.headers = resp.headers /\ resp.headers = "final" /\ result # "ok"
        /\ HeadersRead
    BY <1>4, <1>7, <1>12 DEF DataTaken, HeadersRead
  <2>2. CASE Frame.es
    <3>1. srv.phase = "done"
      BY <1>1, <1>3, <2>1, <2>2 DEF IInv, StreamsInOrder, EndsStream, Ours, q
    <3>2. NoneCarries(r) /\ pc' = "idle"
      BY <1>5, <1>12, <2>1, <2>2 DEF Carries, DataTaken
    <3> QED
      BY <2>1, <3>1, <3>2 DEF Returns, Answered, r
  <2>3. CASE ~Frame.es
    <3>1. pc' = "response" /\ result' = result
      BY <1>12, <2>3 DEF DataTaken
    <3>2. HeadersRead'
      BY <2>1, <3>1 DEF HeadersRead
    <3> QED
      BY <2>1, <3>1, <3>2 DEF GoesOn
  <2> QED
    BY <2>2, <2>3
<1> QED
  BY <1>8, <1>9, <1>10, <1>11, <1>12

LEMMA AnswerRead ==
  ASSUME TypeOK, IInv, AnswerInOrder, OkIsLast, Reads,
         Handled \/ Settled \/ HeadersTaken \/ ContinuationTaken \/ DataTaken
  PROVE  (AnswerInOrder /\ OkIsLast)'
<1> DEFINE q == inbox
           r == Tail(inbox)
<1>1. /\ Frame = q[1] /\ Len(q) \in Nat \ {0} /\ Len(r) = Len(q) - 1
      /\ \A i \in 1..Len(r) : r[i] = q[i + 1]
  BY QueueHead DEF Reads
<1>2. /\ InOrder(q, strm.id, HeadersRead)
      /\ pc \in {"handshake", "idle", "upload"} => NoneCarries(q)
      /\ pc = "upload" => ~srv.ended /\ resp.headers = "none"
      /\ srv.phase = "open" =>
            /\ ~HeadersRead /\ ~SomeEnds(q)
            /\ \A i \in 1..Len(q) : q[i].type # "data"
      /\ srv.phase = "answering" => HeadersRead \/ SomeEnds(q)
  BY DEF AnswerInOrder, Reads
<1>3. inbox' = r /\ srv' = srv /\ strm'.id = strm.id
  BY DEF Reads
<1>4. HeadersRead \in BOOLEAN /\ HeadersRead' \in BOOLEAN
  BY DEF HeadersRead
<1>5. ledger'.lost = 0 /\ (GoesOn \/ Returns)
  BY AnswerTaken
<1> HIDE DEF q, r
<1>6. /\ NoneCarries(q) => NoneCarries(r)
      /\ SomeEnds(r) => SomeEnds(q)
      /\ SomeEnds(q) => EndsHeaders(Frame) \/ SomeEnds(r)
      /\ (\A i \in 1..Len(q) : q[i].type # "data")
            => \A i \in 1..Len(r) : r[i].type # "data"
  BY <1>1, Behind
<1>7. CASE GoesOn
  <2>1. /\ pc' # "idle" /\ result' # "ok"
        /\ HeadersRead' <=> HeadersRead \/ EndsHeaders(Frame)
        /\ pc' = "continuation" /\ block'.es =>
              block'.kind \in {"final", "malformed", "trailers"} /\ NoneCarries(r)
        /\ pc' = "continuation" /\ block'.kind = "trailers" => Trailers /\ block'.es
        /\ pc' \in {"handshake", "upload"} => pc' = pc /\ resp' = resp
    BY <1>7 DEF GoesOn, r
  <2>2. InOrder(r, strm.id, HeadersRead')
    <3> DEFINE read == HeadersRead
               now == HeadersRead'
    <3>1. read \in BOOLEAN /\ now \in BOOLEAN /\ InOrder(q, strm.id, read)
      BY <1>2, <1>4
    <3>2. now <=> read \/ EndsHeaders(q[1])
      BY <1>1, <2>1
    <3> HIDE DEF read, now
    <3>3. InOrder(r, strm.id, now)
      BY <1>1, <3>1, <3>2, OrderAtRead
    <3> QED
      BY <3>3 DEF now
  <2>3. EndsHeaders(Frame) => SomeEnds(q)
    BY <1>1 DEF SomeEnds
  <2>4. srv.phase = "open" =>
            /\ ~HeadersRead' /\ ~SomeEnds(r)
            /\ \A i \in 1..Len(r) : r[i].type # "data"
    BY <1>2, <1>6, <2>1, <2>3
  <2>5. srv.phase = "answering" => HeadersRead' \/ SomeEnds(r)
    BY <1>2, <1>6, <2>1
  <2>6. AnswerInOrder'
    BY <1>2, <1>3, <1>6, <2>1, <2>2, <2>4, <2>5 DEF AnswerInOrder
  <2> QED
    BY <1>5, <2>1, <2>6 DEF OkIsLast
<1>8. CASE Returns
  <2>1. /\ pc' = "idle" /\ NoneCarries(r) /\ srv.phase \in {"none", "done"}
        /\ result' = "ok" => Answered(resp'.headers) /\ srv.phase = "done"
    BY <1>8 DEF Returns, r
  <2>2. InOrder(r, strm.id, HeadersRead')
    BY <2>1, OrderOfNone
  <2> QED
    BY <1>3, <1>5, <2>1, <2>2 DEF AnswerInOrder, OkIsLast
<1> QED
  BY <1>5, <1>7, <1>8

LEMMA AnswerSent ==
  ASSUME TypeOK, IInv, AnswerInOrder, OkIsLast, NEW f \in FrameSet,
         Sends(f), LedgerFollows(f), PhaseFollows(f), AnswerFollows(f)
  PROVE  (AnswerInOrder /\ OkIsLast)'
<1> DEFINE q == inbox
           r == Append(inbox, f)
<1>1. /\ Len(q) \in Nat /\ Len(r) = Len(q) + 1 /\ r[Len(q) + 1] = f
      /\ \A i \in 1..Len(q) : r[i] = q[i]
  BY QueueAppend
<1>2. /\ InOrder(q, strm.id, HeadersRead)
      /\ pc \in {"handshake", "idle", "upload"} => NoneCarries(q)
      /\ pc = "upload" => ~srv.ended /\ resp.headers = "none"
      /\ srv.phase = "open" =>
            /\ ~HeadersRead /\ ~SomeEnds(q)
            /\ \A i \in 1..Len(q) : q[i].type # "data"
      /\ srv.phase = "answering" => HeadersRead \/ SomeEnds(q)
      /\ pc = "continuation" /\ block.es =>
            block.kind \in {"final", "malformed", "trailers"} /\ NoneCarries(q)
      /\ pc = "continuation" /\ block.kind = "trailers" => Trailers /\ block.es
  BY DEF AnswerInOrder, Sends
<1>3. inbox' = r /\ UNCHANGED <<pc, conn, strm, left, resp, block, result>>
  BY DEF Sends
<1>4. /\ srv'.ended = srv.ended
      /\ Carries(f) => f.sid = strm.id /\ srv.ended
      /\ f.type = "headers" /\ ~Trails(f) =>
            /\ srv.phase = "open" /\ (f.es => EndsHeaders(f))
            /\ srv'.phase = IF f.es THEN "done"
                            ELSE IF EndsHeaders(f) THEN "answering" ELSE "open"
      /\ Trails(f) => Trailers /\ f.es /\ srv.phase = "answering" /\ srv'.phase = "done"
      /\ f.type = "data" =>
            srv.phase = "answering" /\ srv'.phase = IF f.es THEN "done" ELSE "answering"
      /\ ~Carries(f) => srv'.phase \in {srv.phase, "done"}
  BY DEF AnswerFollows
<1>5. HeadersRead \in BOOLEAN /\ HeadersRead' = HeadersRead
  BY <1>3 DEF HeadersRead
<1>6. Carries(f) => srv.phase \in {"open", "answering"}
  BY <1>4 DEF Carries, Trails
<1>7. Carries(f) => /\ pc \notin {"handshake", "idle", "upload"}
                    /\ ~(pc = "continuation" /\ block.es)
  BY <1>2, <1>4, <1>6 DEF IInv, Quiet
<1>8. Carries(f) => \A i \in 1..Len(q) : ~(Carries(q[i]) /\ q[i].es)
  <2>1. ASSUME NEW i \in 1..Len(q), Carries(q[i]), q[i].es
        PROVE  srv.phase = "done"
    <3>1. q[i].sid = strm.id
      BY <1>2, <2>1 DEF InOrder
    <3>2. EndsStream(inbox[i])
      BY <2>1, <3>1 DEF EndsStream, Carries
    <3> QED
      BY <3>2 DEF IInv, StreamsInOrder
  <2> QED
    BY <1>6, <2>1
<1> HIDE DEF q, r
<1>9. InOrder(r, strm.id, HeadersRead)
  BY <1>1, <1>2, <1>4, <1>5, <1>8, OrderAtSend
<1>10. \A i \in 1..Len(r) : (i \in 1..Len(q) /\ r[i] = q[i]) \/ r[i] = f
  BY <1>1
<1>11. SomeEnds(q) \/ EndsHeaders(f) <=> SomeEnds(r)
  BY <1>1, <1>10 DEF SomeEnds
<1>12. NoneCarries(q) /\ ~Carries(f) => NoneCarries(r)
  BY <1>10 DEF NoneCarries
<1>13. EndsHeaders(f) => f.type = "headers" /\ ~Trails(f)
  BY DEF EndsHeaders, Trails
<1>14. srv'.phase = "open" =>
            /\ ~HeadersRead /\ ~SomeEnds(r)
            /\ \A i \in 1..Len(r) : r[i].type # "data"
  <2>1. srv'.phase = "open" => srv.phase = "open" /\ ~EndsHeaders(f) /\ f.type # "data"
    BY <1>4, <1>13 DEF Carries
  <2> QED
    BY <1>2, <1>10, <1>11, <2>1
<1>15. srv'.phase = "answering" => HeadersRead \/ SomeEnds(r)
  BY <1>2, <1>4, <1>11, <1>13 DEF Carries
<1>16. AnswerInOrder'
  BY <1>2, <1>3, <1>4, <1>5, <1>7, <1>9, <1>12, <1>14, <1>15 DEF AnswerInOrder
<1>17. ledger'.lost = 0
  BY DEF LedgerFollows, OkIsLast, Sends
<1>18. srv.phase = "done" => srv'.phase = "done"
  BY DEF PhaseFollows
<1> QED
  BY <1>3, <1>16, <1>17, <1>18 DEF OkIsLast

LEMMA InitAnswer == Init => AnswerInOrder /\ OkIsLast
BY DEF Init, handshake, AnswerInOrder, OkIsLast, InOrder, NoneCarries, SomeEnds

LEMMA NextAnswer ==
  ASSUME TypeOK, IInv, AnswerInOrder, OkIsLast, [Next]_vars, ~EarlyResponse
  PROVE  (AnswerInOrder /\ OkIsLast)'
<1>1. CASE Closes
  BY <1>1 DEF Closes, AnswerInOrder, OkIsLast, vars
<1>2. CASE Reads /\ (Handled \/ Settled \/ HeadersTaken \/ ContinuationTaken \/ DataTaken)
  BY <1>2, AnswerRead
<1>3. ASSUME ServerStep, NEW f \in FrameSet, Sends(f), LedgerFollows(f), PhaseFollows(f)
      PROVE  (AnswerInOrder /\ OkIsLast)'
  <2>1. AnswerFollows(f)
    BY <1>3, ServerSays
  <2> QED
    BY <1>3, <2>1, AnswerSent
<1>4. CASE Uploads
  <2>1. pc' # "closed" /\ pc = "upload" /\ pc' \in {"upload", "response"}
        /\ (pc' = "upload" => ~srv'.ended)
    BY <1>4 DEF Uploads
  <2>2. NoneCarries(inbox) /\ resp.headers = "none" /\ srv.phase # "answering"
    BY <2>1 DEF AnswerInOrder, SomeEnds, NoneCarries, EndsHeaders, Carries, HeadersRead
  <2>3. /\ inbox' = inbox /\ resp' = resp /\ srv'.phase = srv.phase
        /\ ledger'.lost = ledger.lost /\ result' = result /\ strm'.id = strm.id
    BY <1>4 DEF Uploads
  <2>4. AnswerInOrder'
    <3>1. InOrder(inbox, strm.id, HeadersRead')
      BY <2>2, OrderOfNone
    <3>2. ~HeadersRead'
      BY <2>1, <2>2, <2>3 DEF HeadersRead
    <3>3. ~SomeEnds(inbox) /\ \A i \in 1..Len(inbox) : inbox[i].type # "data"
      BY <2>2 DEF NoneCarries, SomeEnds, EndsHeaders, Carries
    <3> QED
      BY <2>1, <2>2, <2>3, <3>1, <3>2, <3>3 DEF AnswerInOrder
  <2> QED
    BY <2>1, <2>3, <2>4 DEF OkIsLast
<1>5. CASE Opens
  <2>1. /\ pc = "idle" /\ pc' \in {"upload", "response"} /\ inbox' = inbox
        /\ pc' = "upload" => ~srv'.ended
        /\ resp'.headers = "none" /\ srv'.phase = "open"
        /\ ledger'.lost = ledger.lost /\ result' = "none"
    BY <1>5 DEF Opens
  <2>2. NoneCarries(inbox)
    BY <2>1 DEF AnswerInOrder
  <2>3. AnswerInOrder'
    <3>1. InOrder(inbox, strm'.id, HeadersRead')
      BY <2>2, OrderOfNone
    <3>2. ~HeadersRead'
      BY <2>1 DEF HeadersRead
    <3>3. ~SomeEnds(inbox) /\ \A i \in 1..Len(inbox) : inbox[i].type # "data"
      BY <2>2 DEF NoneCarries, SomeEnds, EndsHeaders, Carries
    <3> QED
      BY <2>1, <2>2, <3>1, <3>2, <3>3 DEF AnswerInOrder
  <2> QED
    BY <2>1, <2>3 DEF OkIsLast
<1>6. CASE Rests
  <2>1. /\ UNCHANGED <<pc, strm, resp, block, result, inbox, ledger>>
        /\ srv'.phase = srv.phase /\ srv'.ended = srv.ended
    BY <1>6 DEF Rests
  <2> QED
    BY <2>1 DEF AnswerInOrder, OkIsLast, HeadersRead
<1> QED
  BY <1>1, <1>2, <1>3, <1>4, <1>5, <1>6, ReadsOrCloses

LEMMA Ordered ==
  ASSUME ~EarlyResponse
  PROVE  Spec => [](TypeOK /\ IInv /\ AnswerInOrder /\ OkIsLast)
<1>1. Init => TypeOK /\ IInv /\ AnswerInOrder /\ OkIsLast
  BY InitInv, InitAnswer
<1>2. TypeOK /\ IInv /\ AnswerInOrder /\ OkIsLast /\ [Next]_vars
         => (TypeOK /\ IInv /\ AnswerInOrder /\ OkIsLast)'
  BY NextInv, NextAnswer
<1> QED
  BY <1>1, <1>2, PTL DEF Spec

-----------------------------------------------------------------------------
(* The body *)

(* What the client has of the body is what the server sent of it, less     *)
(* what is on its way.                                                     *)
BodyCounted ==
    pc # "closed" => resp.body + ledger.sent = srv.body + ledger.rcvd

LEMMA HandledCounts ==
  ASSUME TypeOK, Pending, handle_frame, ledger'.lost = ledger.lost
  PROVE  ledger'.sent = ledger.sent /\ ledger'.rcvd = ledger.rcvd
<1>1. Bytes(Frame) \in Nat
  BY QueueHead DEF Bytes, FrameSet
<1>2. /\ ledger'.rcvd = ledger.rcvd + Bytes(Frame)
      /\ ledger'.lost = ledger.lost + Bytes(Frame)
      /\ ledger'.sent = ledger.sent
  BY <1>1, ConsumeTypes DEF handle_frame
<1>3. ledger.lost \in Nat /\ ledger.rcvd \in Nat
  BY DEF TypeOK, LedgerType
<1> QED
  BY <1>1, <1>2, <1>3

(* A step of the client that drops no DATA adds what it reads to the body. *)
LEMMA ClientCounts ==
  ASSUME TypeOK, ClientStep, pc' # "closed", ledger'.lost = ledger.lost
  PROVE  /\ srv'.body = srv.body /\ ledger'.sent = ledger.sent
         /\ resp'.body - resp.body = ledger'.rcvd - ledger.rcvd
<1>1. /\ resp \in RespType /\ srv \in ServerType /\ ledger \in LedgerType
      /\ resp.body \in Nat /\ ledger.rcvd \in Nat
  BY DEF TypeOK, RespType, LedgerType
<1>2. ASSUME Pending, Consume(0), Frame.type # "data"
      PROVE  ledger'.sent = ledger.sent /\ ledger'.rcvd = ledger.rcvd
  BY <1>1, <1>2, ConsumeTypes DEF Bytes
<1>3. ASSUME NEW kind, NEW es, FinishHeaders(kind, es)
      PROVE  resp'.body = resp.body
  BY <1>1, <1>3 DEF FinishHeaders, RespType
<1>4. CASE ReadSettings
  BY <1>1, <1>2, <1>4 DEF ReadSettings
<1>5. CASE ReadBeforeSettings \/ UploadWait \/ ReadOther
  <2>1. handle_frame /\ Pending /\ UNCHANGED <<resp, srv>>
    BY <1>5 DEF ReadBeforeSettings, UploadWait, ReadOther, handle_frame
  <2> QED
    BY <1>1, <2>1, HandledCounts
<1>6. CASE UploadChunk
  <2> DEFINE sent == Smallest({Available, left})
             done == sent = left
  <2>1. /\ srv' = [srv EXCEPT !.ended = done] /\ resp' = resp
        /\ ledger' = [ledger EXCEPT !.credit = ledger.credit - sent,
                                    !.stream_credit = ledger.stream_credit - sent]
    BY <1>6 DEF UploadChunk
  <2> HIDE DEF sent, done
  <2> QED
    BY <1>1, <2>1 DEF ServerType, LedgerType
<1>7. CASE ReadHeaders
  <2>1. Pending /\ Consume(0) /\ Frame.type # "data" /\ srv' = srv
    BY <1>7 DEF ReadHeaders
  <2>2. resp'.body = resp.body
    BY <1>3, <1>7 DEF ReadHeaders
  <2> QED
    BY <1>1, <1>2, <2>1, <2>2
<1>8. CASE ReadContinuation
  <2>1. Pending /\ Consume(0) /\ Frame.type # "data" /\ srv' = srv
    BY <1>8 DEF ReadContinuation, Fail
  <2>2. resp'.body = resp.body
    BY <1>3, <1>8 DEF ReadContinuation
  <2> QED
    BY <1>1, <1>2, <2>1, <2>2
<1>9. CASE ReadData
  <2> DEFINE recv == conn.recv_window - Frame.n
             srecv == strm.recv_window - Frame.n
             onConn == ledger.conn_allow + TopUp(ConnRecvMax, recv)
             onStream == ledger.stream_allow + TopUp(StreamWindow, srecv)
  <2>1. Frame.n \in Nat
    BY <1>9, QueueHead DEF ReadData, FrameSet
  <2>2. ~(resp.body + Frame.n > MaxBody)
    BY <1>9 DEF ReadData, Received, Fail
  <2>3. /\ resp' = [resp EXCEPT !.body = resp.body + Frame.n] /\ srv' = srv
        /\ ledger' = [ledger EXCEPT !.rcvd = ledger.rcvd + Frame.n,
                                    !.conn_allow = onConn, !.stream_allow = onStream]
    BY <1>9, <2>2 DEF ReadData, Received
  <2> HIDE DEF onConn, onStream
  <2>4. resp'.body = resp.body + Frame.n
    BY <1>1, <2>3 DEF RespType
  <2>5. ledger'.rcvd = ledger.rcvd + Frame.n /\ ledger'.sent = ledger.sent
    BY <1>1, <2>3 DEF LedgerType
  <2> QED
    BY <1>1, <2>1, <2>3, <2>4, <2>5
<1>10. ~(BlockTooLarge \/ ReadReset \/ RejectFrame \/ IoFailure)
  BY DEF BlockTooLarge, ReadReset, RejectFrame, IoFailure, Fail
<1> QED
  BY <1>4, <1>5, <1>6, <1>7, <1>8, <1>9, <1>10 DEF ClientStep, read_and_ack_settings

(* The server counts a byte of DATA for the stream and for the connection. *)
LEMMA ServerCounts ==
  ASSUME TypeOK, ServerStep
  PROVE  /\ resp' = resp /\ ledger'.rcvd = ledger.rcvd
         /\ srv'.body - srv.body = ledger'.sent - ledger.sent
<1> USE PeerAssumption
<1>1. /\ srv \in ServerType /\ ledger \in LedgerType
      /\ srv.body \in Nat /\ ledger.sent \in Nat
  BY DEF TypeOK, ServerType, LedgerType
<1>2. ASSUME UNCHANGED <<resp, ledger>>, srv'.body = srv.body
      PROVE  /\ resp' = resp /\ ledger'.rcvd = ledger.rcvd
             /\ srv'.body - srv.body = ledger'.sent - ledger.sent
  BY <1>1, <1>2
<1>3. CASE SrvSettings
  <2>1. PICK size, window :
          srv' = [srv EXCEPT !.settled = TRUE, !.window = window,
                !.max = IF size \in MinFrame..MaxFrame THEN size ELSE MinFrame]
    BY <1>3 DEF SrvSettings
  <2> QED
    BY <1>1, <1>2, <1>3, <2>1 DEF SrvSettings, Deliver, ServerType
<1>4. CASE SrvLaterSettings
  BY <1>1, <1>2, <1>4 DEF SrvLaterSettings, Control, Deliver, ServerType
<1>5. CASE SrvSettingsAck \/ SrvPing \/ SrvInvalid
  BY <1>1, <1>2, <1>5 DEF SrvSettingsAck, SrvPing, SrvInvalid, Control, Deliver
<1>6. CASE SrvGoAway
  BY <1>1, <1>2, <1>6 DEF SrvGoAway, Control, Deliver, ServerType
<1>7. CASE SrvWindowUpdate
  <2>1. /\ resp' = resp /\ srv' = srv
        /\ \E inc \in Increments :
              \/ ledger' = [ledger EXCEPT !.credit = ledger.credit + inc,
                                          !.granted = ledger.granted + inc]
              \/ ledger' = [ledger EXCEPT !.stream_credit = ledger.stream_credit + inc]
    BY <1>7 DEF SrvWindowUpdate, Control, Deliver
  <2>2. ledger'.sent = ledger.sent /\ ledger'.rcvd = ledger.rcvd
    BY <1>1, <2>1 DEF LedgerType
  <2> QED
    BY <1>1, <2>1, <2>2
<1>8. ASSUME NEW kind \in HeaderKinds, NEW es \in BOOLEAN, NEW eh \in BOOLEAN,
             SrvHeaders(kind, es, eh)
      PROVE  /\ resp' = resp /\ ledger'.rcvd = ledger.rcvd
             /\ srv'.body - srv.body = ledger'.sent - ledger.sent
  BY <1>1, <1>2, <1>8 DEF SrvHeaders, Deliver, ServerType
<1>9. CASE SrvContinuation
  BY <1>1, <1>2, <1>9 DEF SrvContinuation, Deliver, ServerType
<1>10. ASSUME NEW n \in DataSizes, NEW es \in BOOLEAN, SrvData(n, es)
       PROVE  /\ resp' = resp /\ ledger'.rcvd = ledger.rcvd
              /\ srv'.body - srv.body = ledger'.sent - ledger.sent
  <2> DEFINE phase == IF es THEN "done" ELSE srv.phase
  <2>1. /\ resp' = resp /\ n \in Nat
        /\ srv' = [srv EXCEPT !.body = srv.body + n, !.phase = phase]
        /\ ledger' = [ledger EXCEPT !.sent = ledger.sent + n,
                                    !.conn_allow = ledger.conn_allow - n,
                                    !.stream_allow = ledger.stream_allow - n]
    BY <1>10 DEF SrvData, Deliver
  <2> HIDE DEF phase
  <2>2. srv'.body = srv.body + n
    BY <1>1, <2>1 DEF ServerType
  <2>3. ledger'.sent = ledger.sent + n /\ ledger'.rcvd = ledger.rcvd
    BY <1>1, <2>1 DEF LedgerType
  <2> QED
    BY <1>1, <2>1, <2>2, <2>3
<1>11. CASE SrvReset
  BY <1>1, <1>2, <1>11 DEF SrvReset, Control, Deliver, ServerType
<1>12. CASE SrvClose
  BY <1>1, <1>2, <1>12 DEF SrvClose, ServerType
<1> QED
  BY <1>3, <1>4, <1>5, <1>6, <1>7, <1>8, <1>9, <1>10, <1>11, <1>12 DEF ServerStep

LEMMA NextCounts ==
  ASSUME TypeOK, TypeOK', IInv, OkIsLast, OkIsLast', BodyCounted, [Next]_vars
  PROVE  BodyCounted'
<1> SUFFICES ASSUME pc' # "closed"
             PROVE  resp'.body + ledger'.sent = srv'.body + ledger'.rcvd
  BY DEF BodyCounted
<1>1. /\ resp.body \in Nat /\ srv.body \in Nat /\ ledger.sent \in Nat /\ ledger.rcvd \in Nat
      /\ resp'.body \in Nat /\ srv'.body \in Nat /\ ledger'.sent \in Nat
      /\ ledger'.rcvd \in Nat
  BY DEF TypeOK, RespType, ServerType, LedgerType
<1>2. CASE ClientStep
  <2>1. pc # "closed"
    BY <1>2 DEF ClientStep, read_and_ack_settings, ReadSettings, ReadBeforeSettings,
      UploadChunk, UploadWait, ReadHeaders, ReadContinuation, BlockTooLarge,
      ReadData, ReadReset, ReadOther, RejectFrame, IoFailure
  <2>2. ledger'.lost = ledger.lost
    BY <2>1 DEF OkIsLast
  <2>3. resp.body + ledger.sent = srv.body + ledger.rcvd
    BY <2>1 DEF BodyCounted
  <2>4. /\ srv'.body = srv.body /\ ledger'.sent = ledger.sent
        /\ resp'.body - resp.body = ledger'.rcvd - ledger.rcvd
    BY <1>2, <2>2, ClientCounts
  <2> QED
    BY <1>1, <2>3, <2>4
<1>3. CASE ServerStep
  <2>1. pc # "closed"
    BY <1>3 DEF ServerStep, SrvSettings, SrvLaterSettings, SrvSettingsAck, SrvPing,
      SrvGoAway, SrvWindowUpdate, SrvInvalid, SrvHeaders, SrvContinuation, SrvData,
      SrvReset, SrvClose, Control, Deliver
  <2>2. resp.body + ledger.sent = srv.body + ledger.rcvd
    BY <2>1 DEF BodyCounted
  <2>3. /\ resp'.body = resp.body /\ ledger'.rcvd = ledger.rcvd
        /\ srv'.body - srv.body = ledger'.sent - ledger.sent
    BY <1>3, ServerCounts
  <2> QED
    BY <1>1, <2>2, <2>3
<1>4. ASSUME NEW size \in Bodies, StartRequest(size)
      PROVE  resp'.body + ledger'.sent = srv'.body + ledger'.rcvd
  <2> DEFINE empty == size = 0
  <2>1. /\ resp' = [headers |-> "none", body |-> 0] /\ pc = "idle"
        /\ srv' = [srv EXCEPT !.phase = "open", !.ended = empty, !.body = 0]
        /\ ledger' = [ledger EXCEPT !.stream_allow = StreamWindow,
                                    !.stream_credit = srv.window]
    BY <1>4 DEF StartRequest
  <2> HIDE DEF empty
  <2>2. ledger \in LedgerType /\ srv \in ServerType
    BY DEF TypeOK
  <2>3. ledger'.sent = ledger.sent /\ ledger'.rcvd = ledger.rcvd
    BY <2>1, <2>2 DEF LedgerType
  <2>4. resp'.body = 0 /\ srv'.body = 0
    BY <2>1, <2>2 DEF ServerType
  <2>5. ledger.rcvd = ledger.sent
    BY <2>1 DEF IInv, Quiet
  <2> QED
    BY <1>1, <2>3, <2>4, <2>5
<1>5. CASE UNCHANGED vars
  BY <1>5 DEF vars, BodyCounted
<1>6. ~(SettingsTimeout \/ UploadTimeout \/ ResponseTimeout \/ RefuseRequest)
  BY DEF SettingsTimeout, UploadTimeout, ResponseTimeout, RefuseRequest, Fail
<1> QED
  BY <1>2, <1>3, <1>4, <1>5, <1>6 DEF Next, send_request, Dropped

LEMMA Counted ==
  ASSUME ~EarlyResponse
  PROVE  Spec => [](TypeOK /\ IInv /\ OkIsLast /\ BodyCounted)
<1>1. Init => BodyCounted
  BY DEF Init, handshake, BodyCounted
<1>2. TypeOK /\ TypeOK' /\ IInv /\ OkIsLast /\ OkIsLast' /\ BodyCounted /\ [Next]_vars
         => BodyCounted'
  BY NextCounts
<1> QED
  BY <1>1, <1>2, Ordered, PTL DEF Spec

-----------------------------------------------------------------------------
(* What Ok stands for *)

OkIsWholeOrTrailed ==
    result = "ok" =>
        /\ Answered(resp.headers)
        /\ resp.body = srv.body
        /\ srv.phase = "done"

LEMMA AllTaken == TypeOK /\ IInv /\ OkIsLast /\ BodyCounted => OkIsWholeOrTrailed
<1> SUFFICES ASSUME TypeOK, IInv, OkIsLast, BodyCounted, result = "ok"
             PROVE  /\ Answered(resp.headers) /\ srv.phase = "done"
                    /\ resp.body = srv.body
  BY DEF OkIsWholeOrTrailed
<1>1. /\ Answered(resp.headers) /\ srv.phase = "done" /\ pc = "idle"
      /\ ledger.rcvd = ledger.sent
  BY DEF OkIsLast, IInv, Quiet
<1>2. resp.body + ledger.sent = srv.body + ledger.rcvd
  BY <1>1 DEF BodyCounted
<1>3. resp.body \in Nat /\ srv.body \in Nat /\ ledger.sent \in Nat
  BY DEF TypeOK, RespType, ServerType, LedgerType
<1> QED
  BY <1>1, <1>2, <1>3

(* Where servers answer once the request has ended, the body Ok returns is *)
(* all that the server sent on this stream and nothing of another, and the *)
(* server has finished; only the headers may be those of the trailers, if  *)
(* there are any (connection.rs:243-341).                                  *)
THEOREM OkStandsForAllButTrailed ==
  ASSUME ~EarlyResponse
  PROVE  Spec => []OkIsWholeOrTrailed
BY Counted, AllTaken, PTL

(* Without trailers the headers are the response's own                     *)
(* (connection.rs:243-341).                                                *)
THEOREM OkStandsForAll ==
  ASSUME ~EarlyResponse, ~Trailers
  PROVE  Spec => []OkIsWhole
<1>1. OkIsWholeOrTrailed => OkIsWhole
  BY DEF OkIsWholeOrTrailed, OkIsWhole, Answered
<1> QED
  BY <1>1, OkStandsForAllButTrailed, PTL

NothingDropped == pc # "closed" => ledger.lost = 0

(* Where servers wait for the end of the request, also with trailers and   *)
(* later SETTINGS, no byte of a response is dropped, and a client that     *)
(* waits on a drained socket has left the server credit on both levels     *)
(* (connection.rs:219, 291-318).                                           *)
THEOREM WaitsWithCredit ==
  ASSUME ~EarlyResponse
  PROVE  Spec => [](NothingDropped /\ NoReceiveStall)
<1>1. TypeOK /\ IInv /\ OkIsLast => NothingDropped /\ NoReceiveStall
  BY CreditIsLeft DEF OkIsLast, NothingDropped
<1> QED
  BY <1>1, Ordered, PTL

-----------------------------------------------------------------------------
(* The end of an exchange *)

LEMMA BlocksAtRead ==
  ASSUME NEW q, NEW r, NEW split, Len(q) \in Nat \ {0}, Len(r) = Len(q) - 1,
         \A i \in 1..Len(r) : r[i] = q[i + 1],
         BlocksWhole(q, split)
  PROVE  /\ BlocksWhole(r, split)
         /\ WholeBlock(q[1]) /\ NoneCarries(r) => ~split /\ NoContinuation(r)
<1>1. ASSUME NEW i \in 1..Len(r), WholeBlock(r[i])
      PROVE  /\ split => HeadersIn(r, i + 1, Len(r))
             /\ \A j \in i + 1..Len(r) :
                   r[j].type = "continuation" => HeadersIn(r, i + 1, j)
  <2>1. /\ i + 1 \in 1..Len(q) /\ WholeBlock(q[i + 1])
        /\ Len(q) = Len(r) + 1
    BY <1>1
  <2>2. ASSUME split
        PROVE  HeadersIn(r, i + 1, Len(r))
    <3>1. PICK k \in (i + 1) + 1..Len(q) : q[k].type = "headers"
      BY <2>1, <2>2 DEF BlocksWhole, HeadersIn
    <3>2. k - 1 \in i + 1..Len(r) /\ k - 1 \in 1..Len(r) /\ (k - 1) + 1 = k
      BY <2>1
    <3> QED
      BY <3>1, <3>2 DEF HeadersIn
  <2>3. ASSUME NEW j \in i + 1..Len(r), r[j].type = "continuation"
        PROVE  HeadersIn(r, i + 1, j)
    <3>1. j + 1 \in (i + 1) + 1..Len(q) /\ j \in 1..Len(r)
      BY <2>1
    <3>2. PICK k \in (i + 1) + 1..j + 1 : q[k].type = "headers"
      BY <2>1, <2>3, <3>1 DEF BlocksWhole, HeadersIn
    <3>3. k - 1 \in i + 1..j /\ k - 1 \in 1..Len(r) /\ (k - 1) + 1 = k
      OBVIOUS
    <3> QED
      BY <3>2, <3>3 DEF HeadersIn
  <2> QED
    BY <2>2, <2>3
<1>2. ASSUME WholeBlock(q[1]), NoneCarries(r)
      PROVE  ~split /\ NoContinuation(r)
  <2>1. \A k \in 2..Len(q) : q[k].type # "headers"
    <3>1. ASSUME NEW k \in 2..Len(q)
          PROVE  q[k].type # "headers"
      <4>1. k - 1 \in 1..Len(r) /\ (k - 1) + 1 = k
        OBVIOUS
      <4> QED
        BY <1>2, <4>1 DEF NoneCarries, Carries
    <3> QED
      BY <3>1
  <2>2. 1 \in 1..Len(q)
    OBVIOUS
  <2>3. \A j \in 1..Len(q) : ~HeadersIn(q, 1 + 1, j)
    BY <2>1 DEF HeadersIn
  <2>4. Len(q) \in 1..Len(q)
    OBVIOUS
  <2>5. ~split
    BY <1>2, <2>2, <2>3, <2>4 DEF BlocksWhole
  <2>6. ASSUME NEW i \in 1..Len(r)
        PROVE  r[i].type # "continuation"
    <3>1. i + 1 \in 1 + 1..Len(q) /\ i + 1 \in 1..Len(q)
      OBVIOUS
    <3> QED
      BY <1>2, <2>2, <2>3, <3>1 DEF BlocksWhole
  <2> QED
    BY <2>5, <2>6 DEF NoContinuation
<1> QED
  BY <1>1, <1>2 DEF BlocksWhole

LEMMA BlocksAtSend ==
  ASSUME NEW q, NEW r, NEW f, NEW split, NEW now, Len(q) \in Nat,
         Len(r) = Len(q) + 1, r[Len(q) + 1] = f,
         \A i \in 1..Len(q) : r[i] = q[i],
         BlocksWhole(q, split),
         f.type = "continuation" => split,
         now => f.type \in {"headers", "continuation"} /\ ~f.eh
  PROVE  BlocksWhole(r, now)
<1>1. ASSUME NEW i \in 1..Len(q), NEW j \in 1..Len(q), HeadersIn(q, i + 1, j)
      PROVE  HeadersIn(r, i + 1, j) /\ HeadersIn(r, i + 1, Len(r))
  <2>1. PICK k \in i + 1..j : q[k].type = "headers"
    BY <1>1 DEF HeadersIn
  <2>2. k \in 1..Len(q) /\ k \in i + 1..Len(r)
    OBVIOUS
  <2> QED
    BY <2>1, <2>2 DEF HeadersIn
<1>2. ASSUME NEW i \in 1..Len(q), WholeBlock(q[i]), split
      PROVE  HeadersIn(r, i + 1, Len(r))
  <2>1. Len(q) \in 1..Len(q)
    OBVIOUS
  <2> QED
    BY <1>1, <1>2, <2>1 DEF BlocksWhole
<1>3. ASSUME NEW i \in 1..Len(r), WholeBlock(r[i])
      PROVE  /\ now => HeadersIn(r, i + 1, Len(r))
             /\ \A j \in i + 1..Len(r) :
                   r[j].type = "continuation" => HeadersIn(r, i + 1, j)
  <2>1. CASE i = Len(q) + 1
    <3>1. ~now
      BY <1>3, <2>1 DEF WholeBlock
    <3>2. ~\E j \in i + 1..Len(r) : TRUE
      BY <2>1
    <3> QED
      BY <3>1, <3>2
  <2>2. CASE i \in 1..Len(q)
    <3>1. WholeBlock(q[i])
      BY <1>3, <2>2
    <3>2. ASSUME now
          PROVE  HeadersIn(r, i + 1, Len(r))
      <4>1. CASE f.type = "headers"
        <5>1. Len(r) \in i + 1..Len(r) /\ r[Len(r)] = f
          BY <2>2
        <5> QED
          BY <4>1, <5>1 DEF HeadersIn
      <4>2. CASE f.type = "continuation"
        BY <1>2, <2>2, <3>1, <4>2
      <4> QED
        BY <3>2, <4>1, <4>2
    <3>3. ASSUME NEW j \in i + 1..Len(r), r[j].type = "continuation"
          PROVE  HeadersIn(r, i + 1, j)
      <4>1. CASE j = Len(r)
        BY <1>2, <2>2, <3>1, <3>3, <4>1
      <4>2. CASE j # Len(r)
        <5>1. j \in 1..Len(q) /\ j \in i + 1..Len(q) /\ q[j].type = "continuation"
          BY <3>3, <4>2
        <5> QED
          BY <1>1, <2>2, <3>1, <5>1 DEF BlocksWhole
      <4> QED
        BY <4>1, <4>2
    <3> QED
      BY <3>2, <3>3
  <2> QED
    BY <2>1, <2>2
<1> QED
  BY <1>3 DEF BlocksWhole

LEMMA EndsAtRead ==
  ASSUME NEW q, NEW r, NEW sid, Len(q) \in Nat \ {0}, Len(r) = Len(q) - 1,
         \A i \in 1..Len(r) : r[i] = q[i + 1],
         EndsLast(q, sid)
  PROVE  EndsLast(r, sid) /\ (EndOf(q[1], sid) => NoneCarries(r))
<1>1. ASSUME NEW i \in 1..Len(r), EndOf(r[i], sid), NEW j \in i + 1..Len(r)
      PROVE  ~Carries(r[j])
  <2>1. /\ i + 1 \in 1..Len(q) /\ j + 1 \in (i + 1) + 1..Len(q)
        /\ j \in 1..Len(r)
    OBVIOUS
  <2> QED
    BY <1>1, <2>1 DEF EndsLast
<1>2. ASSUME EndOf(q[1], sid), NEW i \in 1..Len(r)
      PROVE  ~Carries(r[i])
  <2>1. 1 \in 1..Len(q) /\ i + 1 \in 1 + 1..Len(q)
    OBVIOUS
  <2> QED
    BY <1>2, <2>1 DEF EndsLast
<1> QED
  BY <1>1, <1>2 DEF EndsLast, NoneCarries

LEMMA EndsAtSend ==
  ASSUME NEW q, NEW r, NEW f, NEW sid, Len(q) \in Nat,
         Len(r) = Len(q) + 1, r[Len(q) + 1] = f,
         \A i \in 1..Len(q) : r[i] = q[i],
         EndsLast(q, sid),
         Carries(f) => \A i \in 1..Len(q) : ~EndOf(q[i], sid)
  PROVE  EndsLast(r, sid)
<1>1. ASSUME NEW i \in 1..Len(r), EndOf(r[i], sid), NEW j \in i + 1..Len(r)
      PROVE  ~Carries(r[j])
  <2>1. i \in 1..Len(q) /\ EndOf(q[i], sid)
    BY <1>1
  <2>2. CASE j = Len(r)
    BY <2>1, <2>2
  <2>3. CASE j # Len(r)
    <3>1. j \in 1..Len(q) /\ j \in i + 1..Len(q)
      BY <2>3
    <3> QED
      BY <2>1, <3>1 DEF EndsLast
  <2> QED
    BY <2>2, <2>3
<1> QED
  BY <1>1 DEF EndsLast

(* A frame of the answer leaves the call waiting, or ends the exchange.    *)
Waits ==
    /\ pc' # "idle" /\ result' # "ok" /\ (pc' = "handshake" => pc = "handshake")
    /\ pc' = "continuation" /\ block'.es => NoneCarries(Tail(inbox))

Ends ==
    /\ pc' = "idle" /\ NoneCarries(Tail(inbox))
    /\ ~srv.split /\ NoContinuation(Tail(inbox))
    /\ result' = "ok" => srv.phase = "done"

LEMMA EndTaken ==
  ASSUME TypeOK, IInv, AnswersEnd, Reads,
         Handled \/ Settled \/ HeadersTaken \/ ContinuationTaken \/ DataTaken
  PROVE  Waits \/ Ends
<1> DEFINE q == inbox
           r == Tail(inbox)
<1>1. /\ Frame = q[1] /\ Len(q) \in Nat \ {0} /\ Len(r) = Len(q) - 1
      /\ \A i \in 1..Len(r) : r[i] = q[i + 1]
  BY QueueHead DEF Reads
<1>2. /\ BlocksWhole(q, srv.split) /\ EndsLast(q, strm.id)
      /\ pc \in {"handshake", "idle"} => ~srv.split /\ NoneCarries(q) /\ NoContinuation(q)
      /\ pc = "continuation" /\ block.es => NoneCarries(q)
      /\ result = "ok" => pc = "idle"
      /\ pc # "closed"
  BY DEF AnswersEnd, Reads
<1>3. 1 \in 1..Len(q)
  BY <1>1
<1> HIDE DEF q, r
<1>4. NoneCarries(q) => NoneCarries(r)
  BY <1>1, Behind
<1>5. WholeBlock(Frame) /\ NoneCarries(r) => ~srv.split /\ NoContinuation(r)
  BY <1>1, <1>2, BlocksAtRead
<1>6. EndOf(Frame, strm.id) => NoneCarries(r) /\ srv.phase = "done"
  <2>1. EndOf(Frame, strm.id) => EndsStream(inbox[1])
    BY <1>1 DEF EndOf, EndsStream, Carries, q
  <2>2. 1 \in 1..Len(inbox)
    BY <1>3 DEF q
  <2> QED
    BY <1>1, <1>2, <2>1, <2>2, EndsAtRead DEF IInv, StreamsInOrder
<1>7. CASE Handled
  <2>1. /\ pc \in {"handshake", "upload", "response"}
        /\ UNCHANGED <<pc, block, result>>
    BY <1>7 DEF Handled
  <2> QED
    BY <1>2, <2>1 DEF Waits
<1>8. CASE Settled
  <2>1. pc = "handshake" /\ pc' = "idle" /\ result' = "connected"
    BY <1>8 DEF Settled
  <2>2. ~srv.split /\ NoneCarries(q) /\ NoContinuation(q)
    BY <1>2, <2>1
  <2>3. NoContinuation(r)
    BY <1>1, <2>2 DEF NoContinuation
  <2> QED
    BY <1>4, <2>1, <2>2, <2>3 DEF Ends, r
<1>9. CASE HeadersTaken
  <2>1. /\ pc = "response" /\ Frame.type = "headers" /\ Frame.sid = strm.id
        /\ result # "ok"
    BY <1>2, <1>9 DEF HeadersTaken, Ours
  <2>2. Frame.es => NoneCarries(r) /\ srv.phase = "done"
    BY <1>6, <2>1 DEF EndOf, Carries
  <2>3. CASE Frame.eh /\ HeadersDone(Frame.kind, Frame.es)
    <3>1. WholeBlock(Frame)
      BY <2>1, <2>3 DEF WholeBlock
    <3>2. CASE Frame.es
      BY <1>5, <2>2, <2>3, <3>1, <3>2 DEF HeadersDone, Ends, r
    <3>3. CASE ~Frame.es
      BY <2>1, <2>3, <3>3 DEF HeadersDone, Waits
    <3> QED
      BY <3>2, <3>3
  <2>4. CASE HeadersSplit(Frame.kind, Frame.es)
    BY <2>1, <2>2, <2>4 DEF HeadersSplit, Waits, r
  <2> QED
    BY <1>9, <2>3, <2>4 DEF HeadersTaken
<1>10. CASE ContinuationTaken
  <2>1. /\ pc = "continuation" /\ Frame.type = "continuation" /\ result # "ok"
    BY <1>2, <1>10 DEF ContinuationTaken
  <2>2. block.es => NoneCarries(r) /\ srv.phase = "done"
    BY <1>2, <1>4, <2>1 DEF IInv, Quiet
  <2>3. CASE Frame.eh /\ HeadersDone(block.kind, block.es)
    <3>1. WholeBlock(Frame)
      BY <2>1, <2>3 DEF WholeBlock
    <3>2. CASE block.es
      BY <1>5, <2>2, <2>3, <3>1, <3>2 DEF HeadersDone, Ends, r
    <3>3. CASE ~block.es
      BY <2>1, <2>3, <3>3 DEF HeadersDone, Waits
    <3> QED
      BY <3>2, <3>3
  <2>4. CASE HeadersSplit(block.kind, block.es)
    BY <2>1, <2>2, <2>4 DEF HeadersSplit, Waits, r
  <2> QED
    BY <1>10, <2>3, <2>4 DEF ContinuationTaken
<1>11. CASE DataTaken
  <2>1. /\ pc = "response" /\ Frame.type = "data" /\ Frame.sid = strm.id
        /\ result # "ok"
        /\ pc' = (IF Frame.es THEN "idle" ELSE "response")
        /\ result' = (IF Frame.es THEN "ok" ELSE result)
    BY <1>2, <1>11 DEF DataTaken, Ours
  <2>2. CASE Frame.es
    <3>1. NoneCarries(r) /\ srv.phase = "done"
      BY <1>6, <2>1, <2>2 DEF EndOf, Carries
    <3>2. WholeBlock(Frame)
      BY <2>1 DEF WholeBlock
    <3> QED
      BY <1>5, <2>1, <2>2, <3>1, <3>2 DEF Ends, r
  <2>3. CASE ~Frame.es
    BY <2>1, <2>3 DEF Waits
  <2> QED
    BY <2>2, <2>3
<1> QED
  BY <1>7, <1>8, <1>9, <1>10, <1>11

LEMMA EndRead ==
  ASSUME TypeOK, IInv, AnswersEnd, Reads,
         Handled \/ Settled \/ HeadersTaken \/ ContinuationTaken \/ DataTaken
  PROVE  AnswersEnd'
<1> DEFINE q == inbox
           r == Tail(inbox)
<1>1. /\ Len(q) \in Nat \ {0} /\ Len(r) = Len(q) - 1
      /\ \A i \in 1..Len(r) : r[i] = q[i + 1]
  BY QueueHead DEF Reads
<1>2. /\ BlocksWhole(q, srv.split) /\ EndsLast(q, strm.id)
      /\ pc = "handshake" => ~srv.split /\ NoneCarries(q) /\ NoContinuation(q)
  BY DEF AnswersEnd, Reads
<1>3. inbox' = r /\ srv' = srv /\ strm'.id = strm.id
  BY DEF Reads
<1>4. Waits \/ Ends
  BY EndTaken
<1> HIDE DEF q
<1>5. BlocksWhole(r, srv.split) /\ EndsLast(r, strm.id)
  BY <1>1, <1>2, BlocksAtRead, EndsAtRead
<1>6. pc = "handshake" => NoneCarries(r) /\ NoContinuation(r)
  BY <1>1, <1>2 DEF NoneCarries, NoContinuation
<1> QED
  BY <1>2, <1>3, <1>4, <1>5, <1>6 DEF AnswersEnd, Waits, Ends

LEMMA EndSent ==
  ASSUME TypeOK, IInv, AnswersEnd, NEW f \in FrameSet,
         Sends(f), PhaseFollows(f), BlockFollows(f)
  PROVE  AnswersEnd'
<1> DEFINE q == inbox
           r == Append(inbox, f)
<1>1. /\ Len(q) \in Nat /\ Len(r) = Len(q) + 1 /\ r[Len(q) + 1] = f
      /\ \A i \in 1..Len(q) : r[i] = q[i]
  BY QueueAppend
<1>2. inbox' = r /\ UNCHANGED <<pc, strm, block, result>> /\ pc # "closed"
  BY DEF Sends
<1>3. /\ BlocksWhole(q, srv.split) /\ EndsLast(q, strm.id)
      /\ pc \in {"handshake", "idle"} => ~srv.split /\ NoneCarries(q) /\ NoContinuation(q)
      /\ pc = "continuation" /\ block.es => NoneCarries(q)
      /\ result = "ok" => pc = "idle" /\ srv.phase = "done"
  BY <1>2 DEF AnswersEnd
<1>4. /\ Carries(f) => srv.phase \in {"open", "answering"}
      /\ f.type = "continuation" => srv.split
      /\ srv'.split => f.type \in {"headers", "continuation"} /\ ~f.eh
  BY DEF BlockFollows
<1>5. Carries(f) => \A i \in 1..Len(q) : ~EndOf(q[i], strm.id)
  BY <1>4 DEF IInv, StreamsInOrder, EndsStream, EndOf, Carries
<1>6. /\ pc \in {"handshake", "idle"} => srv.phase \in {"none", "done"}
      /\ pc = "continuation" /\ block.es => srv.phase = "done"
  BY DEF IInv, Quiet
<1>7. srv.phase = "done" => srv'.phase = "done"
  BY DEF PhaseFollows
<1> HIDE DEF q, r
<1>8. BlocksWhole(r, srv'.split)
  BY <1>1, <1>3, <1>4, BlocksAtSend
<1>9. EndsLast(r, strm.id)
  BY <1>1, <1>3, <1>5, EndsAtSend
<1>10. \A i \in 1..Len(r) : (i \in 1..Len(q) /\ r[i] = q[i]) \/ r[i] = f
  BY <1>1
<1>11. /\ NoneCarries(q) /\ ~Carries(f) => NoneCarries(r)
       /\ NoContinuation(q) /\ f.type # "continuation" => NoContinuation(r)
  BY <1>10 DEF NoneCarries, NoContinuation
<1>12. pc \in {"handshake", "idle"} =>
          ~srv'.split /\ NoneCarries(r) /\ NoContinuation(r)
  <2>1. ~Carries(f) /\ f.type # "continuation" => ~srv'.split
    BY <1>4 DEF Carries
  <2> QED
    BY <1>3, <1>4, <1>6, <1>11, <2>1
<1>13. pc = "continuation" /\ block.es => NoneCarries(r)
  BY <1>3, <1>4, <1>6, <1>11
<1> QED
  BY <1>2, <1>3, <1>7, <1>8, <1>9, <1>12, <1>13 DEF AnswersEnd

LEMMA InitEnd == Init => AnswersEnd
BY DEF Init, handshake, AnswersEnd, BlocksWhole, EndsLast, NoneCarries, NoContinuation

LEMMA NextEnd ==
  ASSUME TypeOK, IInv, AnswersEnd, [Next]_vars
  PROVE  AnswersEnd'
<1>1. CASE Closes
  BY <1>1 DEF Closes, AnswersEnd, vars
<1>2. CASE Reads /\ (Handled \/ Settled \/ HeadersTaken \/ ContinuationTaken \/ DataTaken)
  BY <1>2, EndRead
<1>3. ASSUME ServerStep, NEW f \in FrameSet, Sends(f), PhaseFollows(f)
      PROVE  AnswersEnd'
  BY <1>3, ServerSays, EndSent
<1>4. CASE Uploads
  <2>1. /\ pc = "upload" /\ pc' \in {"upload", "response"} /\ inbox' = inbox
        /\ strm'.id = strm.id /\ srv'.split = srv.split /\ result' = result
    BY <1>4 DEF Uploads
  <2> QED
    BY <2>1 DEF AnswersEnd
<1>5. CASE Opens
  <2>1. /\ pc = "idle" /\ pc' \in {"upload", "response"} /\ inbox' = inbox
        /\ srv'.split = srv.split /\ result' = "none"
    BY <1>5 DEF Opens
  <2>2. BlocksWhole(inbox, srv.split) /\ NoneCarries(inbox)
    BY <2>1 DEF AnswersEnd
  <2>3. EndsLast(inbox, strm'.id)
    BY <2>2 DEF NoneCarries, EndsLast, EndOf
  <2> QED
    BY <2>1, <2>2, <2>3 DEF AnswersEnd
<1>6. CASE Rests
  <2>1. /\ UNCHANGED <<pc, strm, block, result, inbox>>
        /\ srv'.phase = srv.phase /\ srv'.split = srv.split
    BY <1>6 DEF Rests
  <2> QED
    BY <2>1 DEF AnswersEnd
<1> QED
  BY <1>1, <1>2, <1>3, <1>4, <1>5, <1>6, ReadsOrCloses

(* Whatever the server does, Ok ends the exchange: no frame of the answer  *)
(* is left in the queue or with the server, so that the next request on    *)
(* the connection starts clean (connection.rs:243-341).                    *)
THEOREM NextRequestStartsClean == Spec => []OkEndsExchange
<1>1. Init => TypeOK /\ IInv /\ AnswersEnd
  BY InitInv, InitEnd
<1>2. TypeOK /\ IInv /\ AnswersEnd /\ [Next]_vars => (TypeOK /\ IInv /\ AnswersEnd)'
  BY NextInv, NextEnd
<1>3. TypeOK /\ AnswersEnd => OkEndsExchange
  <2> SUFFICES ASSUME TypeOK, AnswersEnd, result = "ok"
               PROVE  /\ srv.phase = "done" /\ ~srv.split
                      /\ ~Holds({"headers", "continuation", "data"})
    BY DEF OkEndsExchange
  <2>1. /\ srv.phase = "done" /\ ~srv.split
        /\ NoneCarries(inbox) /\ NoContinuation(inbox)
    BY DEF AnswersEnd
  <2>2. DOMAIN inbox = 1..Len(inbox)
    BY DEF TypeOK
  <2> QED
    BY <2>1, <2>2 DEF Holds, NoneCarries, NoContinuation, Carries
<1> QED
  BY <1>1, <1>2, <1>3, PTL DEF Spec
=============================================================================
