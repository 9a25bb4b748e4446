------------------------- MODULE H2ConnectionProofs -------------------------
(***************************************************************************)
(* Flow control of the HTTP/2 connection, for all windows and all servers: *)
(* the receive windows of the two sides agree, client and server never     *)
(* wait for each other, and the upload stays within the granted credit.    *)
(*                                                                         *)
(* The properties themselves are not inductive, because they speak of the  *)
(* frames in flight only through totals.  Linked ties the totals to the    *)
(* queue: every frame carries the totals the server had reached with it,   *)
(* so each frame picks up where the one before it stopped, the first where *)
(* the client stopped reading and the last where the server stopped        *)
(* sending.  That avoids summing over the queue, hence any induction.      *)
(***************************************************************************)
EXTENDS H2Connection, SequenceTheorems, TLAPS

USE DEF FrameTypes, HeaderKinds, Received

SentBefore(f) == f.sent - Bytes(f)
GrantedBefore(f) == f.granted - Credit(f)

Linked ==
    /\ inbox = <<>> => /\ ledger.rcvd = ledger.sent
                       /\ ledger.taken = ledger.granted
    /\ inbox # <<>> => /\ SentBefore(inbox[1]) = ledger.rcvd
                       /\ GrantedBefore(inbox[1]) = ledger.taken
                       /\ inbox[Len(inbox)].sent = ledger.sent
                       /\ inbox[Len(inbox)].granted = ledger.granted
    /\ \A i \in 1..Len(inbox) - 1 :
          /\ SentBefore(inbox[i + 1]) = inbox[i].sent
          /\ GrantedBefore(inbox[i + 1]) = inbox[i].granted
    /\ \A i \in 1..Len(inbox) : /\ inbox[i].sent <= ledger.sent
                                /\ inbox[i].granted <= ledger.granted
    /\ ledger.taken <= ledger.granted

(* Frames belong to the current stream or to an earlier one, and a frame   *)
(* that ends the current stream is the last to carry bytes.                *)
EndsStream(f) == f.type \in {"headers", "data"} /\ f.es /\ f.sid = strm.id

StreamsInOrder ==
    /\ strm.id < conn.next
    /\ srv.phase # "none" => strm.id > 0
    /\ \A i \in 1..Len(inbox) :
          /\ inbox[i].sid <= strm.id
          /\ EndsStream(inbox[i]) =>
                srv.phase = "done" /\ inbox[i].sent = ledger.sent

(* Between requests, and once a response has ended, nothing is in flight.  *)
Quiet ==
    /\ pc \in {"handshake", "idle"} =>
          ledger.rcvd = ledger.sent /\ srv.phase \in {"none", "done"}
    /\ pc = "continuation" /\ block.es =>
          ledger.rcvd = ledger.sent /\ srv.phase = "done"

(* The two ends' windows, and how far the client lets its own run down.    *)
Windows ==
    pc # "closed" =>
        /\ conn.recv_window + ledger.rcvd
              = ledger.conn_allow + ledger.sent + ledger.lost
        /\ conn.send_window + ledger.granted = ledger.credit + ledger.taken
        /\ ConnRecvMax - conn.recv_window <= ConnRecvMax \div 2

StreamWindows ==
    pc \in {"upload", "response", "continuation"} =>
        /\ StreamWindow - strm.recv_window <= StreamWindow \div 2
        /\ ledger.lost = 0 =>
              strm.recv_window + ledger.rcvd = ledger.stream_allow + ledger.sent

IInv == Linked /\ StreamsInOrder /\ Quiet /\ Windows /\ StreamWindows

-----------------------------------------------------------------------------
(* The queue *)

(* Reading: the head is a frame and the rest is the queue shifted by one.  *)
LEMMA QueueHead ==
    ASSUME TypeOK, Pending
    PROVE  /\ Frame \in FrameSet /\ Frame = inbox[1]
           /\ Tail(inbox) \in Seq(FrameSet)
           /\ Len(inbox) \in Nat \ {0}
           /\ Len(Tail(inbox)) = Len(inbox) - 1
           /\ \A i \in 1..Len(inbox) : inbox[i] \in FrameSet
           /\ \A i \in 1..Len(inbox) - 1 : Tail(inbox)[i] = inbox[i + 1]
           /\ Tail(inbox) = <<>> <=> Len(inbox) = 1
<1>1. inbox \in Seq(FrameSet) /\ inbox # <<>>
  BY DEF TypeOK, Pending
<1>2. /\ Frame \in FrameSet /\ Tail(inbox) \in Seq(FrameSet)
      /\ Len(Tail(inbox)) = Len(inbox) - 1
      /\ \A i \in 1..Len(inbox) - 1 : Tail(inbox)[i] = inbox[i + 1]
  BY <1>1, HeadTailProperties, Zenon DEF Frame
<1>3. Len(inbox) \in Nat \ {0}
  BY <1>1, EmptySeq
<1>4. Frame = inbox[1]
  BY <1>1 DEF Frame
<1>5. \A i \in 1..Len(inbox) : inbox[i] \in FrameSet
  BY <1>1, ElementOfSeq
<1>6. Tail(inbox) = <<>> <=> Len(Tail(inbox)) = 0
  BY <1>2, EmptySeq
<1> QED
  BY <1>2, <1>3, <1>4, <1>5, <1>6

(* Sending: the queue is kept and the new frame is its last.               *)
LEMMA QueueAppend ==
    ASSUME TypeOK, NEW f \in FrameSet
    PROVE  /\ Append(inbox, f) \in Seq(FrameSet)
           /\ Len(inbox) \in Nat
           /\ Len(Append(inbox, f)) = Len(inbox) + 1
           /\ Append(inbox, f) # <<>>
           /\ Append(inbox, f)[Len(inbox) + 1] = f
           /\ \A i \in 1..Len(inbox) : Append(inbox, f)[i] = inbox[i]
           /\ \A i \in 1..Len(inbox) : inbox[i] \in FrameSet
           /\ inbox = <<>> <=> Len(inbox) = 0
<1>1. inbox \in Seq(FrameSet)
  BY DEF TypeOK
<1>2. Len(inbox) \in Nat /\ (inbox = <<>> <=> Len(inbox) = 0)
  BY <1>1, EmptySeq, LenProperties
<1>3. \A i \in 1..Len(inbox) : inbox[i] \in FrameSet
  BY <1>1, ElementOfSeq
<1>4. /\ Append(inbox, f) \in Seq(FrameSet)
      /\ Len(Append(inbox, f)) = Len(inbox) + 1
      /\ Append(inbox, f)[Len(inbox) + 1] = f
      /\ \A i \in 1..Len(inbox) : Append(inbox, f)[i] = inbox[i]
  BY <1>1, <1>2
<1>5. Append(inbox, f) # <<>>
  BY <1>2, <1>4, EmptySeq
<1> QED
  BY <1>2, <1>3, <1>4, <1>5

-----------------------------------------------------------------------------
(* Chunks and window updates *)

LEMMA SmallestOfTwo ==
    ASSUME NEW a \in Int, NEW b \in Int
    PROVE  /\ Smallest({a, b}) \in {a, b}
           /\ Smallest({a, b}) <= a /\ Smallest({a, b}) <= b
<1>1. \E x \in {a, b} : \A y \in {a, b} : x <= y
  OBVIOUS
<1> QED
  BY <1>1 DEF Smallest

LEMMA SmallestOfThree ==
    ASSUME NEW a \in Int, NEW b \in Int, NEW c \in Int
    PROVE  /\ Smallest({a, b, c}) \in {a, b, c}
           /\ Smallest({a, b, c}) <= a /\ Smallest({a, b, c}) <= b
           /\ Smallest({a, b, c}) <= c
<1>1. \E x \in {a, b, c} : \A y \in {a, b, c} : x <= y
  <2>1. CASE a <= b /\ a <= c
    BY <2>1
  <2>2. CASE b <= a /\ b <= c
    BY <2>2
  <2>3. CASE c <= a /\ c <= b
    BY <2>3
  <2> QED
    BY <2>1, <2>2, <2>3
<1> QED
  BY <1>1 DEF Smallest

(* A chunk fits the connection window, the stream window, the peer's frame *)
(* size and what is left.                                                  *)
LEMMA ChunkFits ==
    ASSUME TypeOK, Available > 0
    PROVE  LET sent == Smallest({Available, left}) IN
           /\ sent \in Nat /\ sent <= left
           /\ sent <= conn.send_window /\ sent <= strm.send_window
           /\ sent <= conn.peer_max
<1>1. /\ conn.send_window \in Int /\ strm.send_window \in Int
      /\ conn.peer_max \in Int /\ left \in Nat /\ left \in Int
  BY WindowAssumption DEF TypeOK, ConnType, StreamType
<1>2. /\ Available \in Int
      /\ Available <= conn.send_window /\ Available <= strm.send_window
      /\ Available <= conn.peer_max
  BY <1>1, SmallestOfThree DEF Available
<1>3. /\ Smallest({Available, left}) \in {Available, left}
      /\ Smallest({Available, left}) <= Available
      /\ Smallest({Available, left}) <= left
  BY <1>1, <1>2, SmallestOfTwo, Zenon
<1> QED
  BY <1>1, <1>2, <1>3

(* Topping up never takes a window beyond its maximum and always leaves at *)
(* least half of it.                                                       *)
LEMMA TopUpBounds ==
    ASSUME NEW max \in Nat, NEW w \in Int
    PROVE  /\ TopUp(max, w) \in Nat
           /\ Replenished(max, w) \in Int
           /\ Replenished(max, w) = w + TopUp(max, w)
           /\ max - Replenished(max, w) <= max \div 2
<1>1. max \div 2 \in Nat /\ max \div 2 <= max
  OBVIOUS
<1> QED
  BY <1>1 DEF TopUp, Replenished

-----------------------------------------------------------------------------
(* Type correctness *)

(* What a read does to the queue and the ledger.                           *)
LEMMA ConsumeTypes ==
    ASSUME TypeOK, Pending, NEW k \in Nat, Consume(k)
    PROVE  /\ inbox' \in Seq(FrameSet) /\ ledger' \in LedgerType
           /\ ledger'.rcvd = ledger.rcvd + Bytes(Frame)
           /\ ledger'.taken = ledger.taken + Credit(Frame)
           /\ ledger'.lost = ledger.lost + k
           /\ \A f \in {"conn_allow", "stream_allow", "credit", "stream_credit",
                        "sent", "granted"} : ledger'[f] = ledger[f]
<1>1. Frame \in FrameSet /\ Tail(inbox) \in Seq(FrameSet)
  BY QueueHead
<1>2. Bytes(Frame) \in Nat /\ Credit(Frame) \in Nat
  BY <1>1 DEF FrameSet, Bytes, Credit
<1>3. inbox' \in Seq(FrameSet)
  BY <1>1 DEF Consume
<1>4. ledger \in LedgerType
  BY DEF TypeOK
<1>5. ledger' = [ledger EXCEPT !.rcvd = ledger.rcvd + Bytes(Frame),
                               !.taken = ledger.taken + Credit(Frame),
                               !.lost = ledger.lost + k]
  BY DEF Consume
<1>6. /\ ledger.rcvd + Bytes(Frame) \in Nat
      /\ ledger.taken + Credit(Frame) \in Nat
      /\ ledger.lost + k \in Nat
  BY <1>2, <1>4 DEF LedgerType
<1>7. ledger' \in LedgerType
  BY <1>4, <1>5, <1>6, Zenon DEF LedgerType
<1> QED
  BY <1>3, <1>4, <1>5, <1>7 DEF LedgerType

LEMMA HandleFrameTypes ==
    ASSUME TypeOK, Pending, handle_frame
    PROVE  TypeOK'
<1>1. Frame \in FrameSet
  BY QueueHead
<1>2. Bytes(Frame) \in Nat
  BY <1>1 DEF FrameSet, Bytes
<1>3. inbox' \in Seq(FrameSet) /\ ledger' \in LedgerType
  BY <1>2, ConsumeTypes DEF handle_frame
<1>4. conn \in ConnType /\ Frame.n \in Nat /\ pings \in Int
  BY <1>1 DEF TypeOK, FrameSet
<1>5. pc \in Pcs /\ result \in Results /\ conn \in ConnType
  BY DEF TypeOK
<1>6. [conn EXCEPT !.goaway = Frame.n] \in ConnType
  BY <1>4 DEF ConnType
<1>7. /\ pc' \in Pcs /\ result' \in Results /\ pings' \in Int
      /\ conn' \in ConnType
  <2>1. CASE AnswerPing
    BY <2>1, <1>4, <1>5 DEF AnswerPing
  <2>2. CASE StoreGoAway
    BY <2>2, <1>4, <1>5, <1>6 DEF StoreGoAway
  <2>3. CASE GoAwayError
    BY <2>3, <1>4, <1>6 DEF GoAwayError, Fail, Pcs, Results
  <2>4. CASE RaiseSendWindow
    <3>1. CASE conn.send_window + Frame.n > MaxWindow
      BY <2>4, <3>1, <1>4 DEF RaiseSendWindow, Fail, Pcs, Results
    <3>2. CASE ~(conn.send_window + Frame.n > MaxWindow)
      <4>1. conn.send_window + Frame.n \in 0..MaxWindow
        BY <3>2, <1>4, WindowAssumption DEF ConnType
      <4>2. [conn EXCEPT !.send_window = conn.send_window + Frame.n] \in ConnType
        BY <4>1, <1>4, Zenon DEF ConnType
      <4> QED
        BY <2>4, <3>2, <4>2, <1>4, <1>5 DEF RaiseSendWindow
    <3> QED
      BY <3>1, <3>2
  <2>5. CASE Ignore
    BY <2>5, <1>4, <1>5 DEF Ignore
  <2> QED
    BY <2>1, <2>2, <2>3, <2>4, <2>5 DEF handle_frame
<1> QED
  BY <1>3, <1>7 DEF handle_frame, TypeOK

LEMMA FinishHeadersTypes ==
    ASSUME TypeOK, NEW kind \in HeaderKinds, NEW es \in BOOLEAN,
           FinishHeaders(kind, es)
    PROVE  /\ pc' \in Pcs /\ result' \in Results
           /\ strm' \in StreamType /\ resp' \in RespType
<1>1. pc \in Pcs /\ result \in Results /\ strm \in StreamType /\ resp \in RespType
  BY DEF TypeOK
<1>2. /\ [resp EXCEPT !.headers = kind] \in RespType
      /\ [strm EXCEPT !.state = "closed"] \in StreamType
  BY <1>1 DEF RespType, StreamType, StreamStates
<1> QED
  BY <1>1, <1>2 DEF FinishHeaders, Fail, Pcs, Results

LEMMA UploadChunkTypes ==
    ASSUME TypeOK, UploadChunk
    PROVE  TypeOK'
<1> DEFINE sent == Smallest({Available, left})
           state == IF sent = left THEN "half_closed_local" ELSE strm.state
<1>1. /\ sent \in Nat /\ sent <= left
      /\ sent <= conn.send_window /\ sent <= strm.send_window
  BY ChunkFits DEF UploadChunk
<1>2. /\ conn' = [conn EXCEPT !.send_window = conn.send_window - sent]
      /\ strm' = [strm EXCEPT !.send_window = strm.send_window - sent,
                              !.state = state]
      /\ ledger' = [ledger EXCEPT !.credit = ledger.credit - sent,
                                  !.stream_credit = ledger.stream_credit - sent]
      /\ srv' = [srv EXCEPT !.ended = (sent = left)]
      /\ left' = left - sent
      /\ pc' = IF sent = left THEN "response" ELSE "upload"
  BY DEF UploadChunk
<1> HIDE DEF sent
<1>3. /\ conn \in ConnType /\ strm \in StreamType /\ srv \in ServerType
      /\ ledger \in LedgerType /\ left \in Nat
  BY DEF TypeOK
<1>4. /\ conn.send_window - sent \in 0..MaxWindow
      /\ strm.send_window - sent \in 0..StreamWindow
      /\ ledger.credit - sent \in Int /\ ledger.stream_credit - sent \in Int
      /\ left - sent \in Nat
  BY <1>1, <1>3, WindowAssumption DEF ConnType, StreamType, LedgerType
<1>5. state \in StreamStates /\ (sent = left) \in BOOLEAN
  BY <1>3 DEF StreamType, StreamStates
<1> HIDE DEF state
<1>6. conn' \in ConnType
  BY <1>2, <1>3, <1>4, Zenon DEF ConnType
<1>7. strm' \in StreamType
  BY <1>2, <1>3, <1>4, <1>5, Zenon DEF StreamType
<1>8. ledger' \in LedgerType
  BY <1>2, <1>3, <1>4, Zenon DEF LedgerType
<1>9. srv' \in ServerType
  BY <1>2, <1>3, <1>5, Zenon DEF ServerType
<1> QED
  BY <1>2, <1>4, <1>6, <1>7, <1>8, <1>9 DEF TypeOK, UploadChunk, Pcs

LEMMA ReadDataTypes ==
    ASSUME TypeOK, ReadData
    PROVE  TypeOK'
<1> DEFINE recv == conn.recv_window - Frame.n
           srecv == strm.recv_window - Frame.n
           tooLarge == resp.body + Frame.n > MaxBody
           state == IF Frame.es THEN "closed" ELSE strm.state
<1>1. Frame \in FrameSet /\ inbox' \in Seq(FrameSet)
  BY QueueHead DEF ReadData
<1>2. /\ conn \in ConnType /\ strm \in StreamType /\ resp \in RespType
      /\ ledger \in LedgerType /\ Frame.n \in Nat /\ Frame.es \in BOOLEAN
      /\ result \in Results
  BY <1>1 DEF TypeOK, FrameSet
<1>3. /\ recv \in Int /\ srecv \in Int
      /\ resp.body + Frame.n \in Nat /\ ledger.rcvd + Frame.n \in Nat
  BY <1>2 DEF ConnType, StreamType, RespType, LedgerType
<1>4. state \in StreamStates /\ ConnRecvMax \in Nat /\ StreamWindow \in Nat
  BY <1>2, WindowAssumption DEF StreamType, StreamStates
<1>5. /\ TopUp(ConnRecvMax, recv) \in Nat /\ TopUp(StreamWindow, srecv) \in Nat
      /\ Replenished(ConnRecvMax, recv) \in Int
      /\ Replenished(StreamWindow, srecv) \in Int
  BY <1>3, <1>4, TopUpBounds, Zenon
<1>6. /\ ledger.conn_allow + TopUp(ConnRecvMax, recv) \in Nat
      /\ ledger.stream_allow + TopUp(StreamWindow, srecv) \in Nat
  BY <1>2, <1>5 DEF LedgerType
<1>7. /\ resp' = [resp EXCEPT !.body = resp.body + Frame.n]
      /\ tooLarge =>
            /\ Fail("protocol")
            /\ conn' = [conn EXCEPT !.recv_window = recv]
            /\ strm' = [strm EXCEPT !.recv_window = srecv]
            /\ ledger' = [ledger EXCEPT !.rcvd = ledger.rcvd + Frame.n]
      /\ ~tooLarge =>
            /\ conn' = [conn EXCEPT !.recv_window = Replenished(ConnRecvMax, recv)]
            /\ strm' = [strm EXCEPT !.recv_window = Replenished(StreamWindow, srecv),
                                    !.state = state]
            /\ ledger' = [ledger EXCEPT
                 !.rcvd = ledger.rcvd + Frame.n,
                 !.conn_allow = ledger.conn_allow + TopUp(ConnRecvMax, recv),
                 !.stream_allow = ledger.stream_allow + TopUp(StreamWindow, srecv)]
            /\ pc' = IF Frame.es THEN "idle" ELSE "response"
            /\ result' = IF Frame.es THEN "ok" ELSE result
  BY DEF ReadData
<1> HIDE DEF recv, srecv, state
<1>8. resp' \in RespType
  BY <1>2, <1>3, <1>7, Zenon DEF RespType
<1>9. pc' \in Pcs /\ result' \in Results
  BY <1>2, <1>7 DEF Fail, Pcs, Results
<1>10. conn' \in ConnType
  <2>1. [conn EXCEPT !.recv_window = recv] \in ConnType
    BY <1>2, <1>3, Zenon DEF ConnType
  <2>2. [conn EXCEPT !.recv_window = Replenished(ConnRecvMax, recv)] \in ConnType
    BY <1>2, <1>5, Zenon DEF ConnType
  <2> QED
    BY <2>1, <2>2, <1>7, Zenon
<1>11. strm' \in StreamType
  <2>1. [strm EXCEPT !.recv_window = srecv] \in StreamType
    BY <1>2, <1>3, Zenon DEF StreamType
  <2>2. [strm EXCEPT !.recv_window = Replenished(StreamWindow, srecv),
                     !.state = state] \in StreamType
    BY <1>2, <1>4, <1>5, Zenon DEF StreamType
  <2> QED
    BY <2>1, <2>2, <1>7, Zenon
<1>12. ledger' \in LedgerType
  <2>1. [ledger EXCEPT !.rcvd = ledger.rcvd + Frame.n] \in LedgerType
    BY <1>2, <1>3, Zenon DEF LedgerType
  <2>2. [ledger EXCEPT
           !.rcvd = ledger.rcvd + Frame.n,
           !.conn_allow = ledger.conn_allow + TopUp(ConnRecvMax, recv),
           !.stream_allow = ledger.stream_allow + TopUp(StreamWindow, srecv)]
        \in LedgerType
    BY <1>2, <1>3, <1>6, Zenon DEF LedgerType
  <2> QED
    BY <2>1, <2>2, <1>7, Zenon
<1> QED
  BY <1>1, <1>8, <1>9, <1>10, <1>11, <1>12 DEF TypeOK, ReadData

(* Every step the client takes by itself keeps the types.                  *)
LEMMA ClientTypes ==
    ASSUME TypeOK, ClientStep
    PROVE  TypeOK'
<1>1. ASSUME Pending, Consume(0)
      PROVE  inbox' \in Seq(FrameSet) /\ ledger' \in LedgerType
  BY <1>1, ConsumeTypes
<1>2. CASE ReadSettings
  <2>1. Frame \in FrameSet /\ conn \in ConnType
    BY <1>2, QueueHead DEF ReadSettings, TypeOK
  <2>2. inbox' \in Seq(FrameSet) /\ ledger' \in LedgerType
    BY <1>1, <1>2 DEF ReadSettings
  <2>3. conn' \in ConnType
    <3> DEFINE max == IF Frame.n \in MinFrame..MaxFrame THEN Frame.n
                                                         ELSE conn.peer_max
    <3>1. max \in MinFrame..MaxFrame
      BY <2>1 DEF ConnType
    <3>2. conn' = [conn EXCEPT !.peer_max = max]
      BY <1>2 DEF ReadSettings
    <3> HIDE DEF max
    <3> QED
      BY <2>1, <3>1, <3>2, Zenon DEF ConnType
  <2> QED
    BY <2>2, <2>3, <1>2 DEF ReadSettings, TypeOK, Pcs, Results
<1>3. CASE ReadBeforeSettings
  BY <1>3, HandleFrameTypes DEF ReadBeforeSettings
<1>4. CASE UploadChunk
  BY <1>4, UploadChunkTypes
<1>5. CASE UploadWait
  BY <1>5, HandleFrameTypes DEF UploadWait
<1>6. CASE ReadHeaders
  <2>1. Frame.kind \in HeaderKinds /\ Frame.es \in BOOLEAN
    BY <1>6, QueueHead DEF ReadHeaders, FrameSet
  <2>2. inbox' \in Seq(FrameSet) /\ ledger' \in LedgerType
    BY <1>1, <1>6 DEF ReadHeaders
  <2>3. CASE Frame.eh
    <3>1. /\ pc' \in Pcs /\ result' \in Results
          /\ strm' \in StreamType /\ resp' \in RespType
      BY <2>1, <2>3, <1>6, FinishHeadersTypes DEF ReadHeaders
    <3> QED
      BY <2>2, <2>3, <3>1, <1>6 DEF ReadHeaders, TypeOK
  <2>4. CASE ~Frame.eh
    <3>1. block' \in BlockType
      BY <2>1, <2>4, <1>6 DEF ReadHeaders, BlockType
    <3> QED
      BY <2>2, <2>4, <3>1, <1>6 DEF ReadHeaders, TypeOK, Pcs
  <2> QED
    BY <2>3, <2>4
<1>7. CASE ReadContinuation
  <2>1. inbox' \in Seq(FrameSet) /\ ledger' \in LedgerType
    BY <1>1, <1>7 DEF ReadContinuation
  <2>2. block \in BlockType /\ block.kind \in HeaderKinds /\ block.es \in BOOLEAN
    BY DEF TypeOK, BlockType
  <2>3. CASE Frame.type = "continuation" /\ Ours
    <3>1. block.len + 1 \in Nat
      BY <2>2 DEF BlockType
    <3>2. block' = [block EXCEPT !.len = block.len + 1]
      BY <2>3, <1>7 DEF ReadContinuation
    <3>3. block' \in BlockType
      BY <2>2, <3>1, <3>2, Zenon DEF BlockType
    <3>4. /\ pc' \in Pcs /\ result' \in Results
          /\ strm' \in StreamType /\ resp' \in RespType
      <4>1. CASE Frame.eh
        BY <2>2, <2>3, <4>1, <1>7, FinishHeadersTypes DEF ReadContinuation
      <4>2. CASE ~Frame.eh
        BY <2>3, <4>2, <1>7 DEF ReadContinuation, TypeOK
      <4> QED
        BY <4>1, <4>2
    <3> QED
      BY <2>1, <3>3, <3>4, <1>7 DEF ReadContinuation, TypeOK
  <2>4. CASE ~(Frame.type = "continuation" /\ Ours)
    BY <2>1, <2>4, <1>7 DEF ReadContinuation, TypeOK, Fail, Pcs, Results
  <2> QED
    BY <2>3, <2>4
<1>8. CASE BlockTooLarge
  BY <1>8 DEF BlockTooLarge, TypeOK, Fail, Pcs, Results
<1>9. CASE ReadData
  BY <1>9, ReadDataTypes
<1>10. CASE ReadReset
  <2>1. inbox' \in Seq(FrameSet) /\ ledger' \in LedgerType
    BY <1>1, <1>10 DEF ReadReset
  <2> QED
    BY <2>1, <1>10 DEF ReadReset, TypeOK, Fail, Pcs, Results
<1>11. CASE ReadOther
  BY <1>11, HandleFrameTypes DEF ReadOther
<1>12. CASE RejectFrame
  <2>1. inbox' \in Seq(FrameSet) /\ ledger' \in LedgerType
    BY <1>1, <1>12 DEF RejectFrame
  <2> QED
    BY <2>1, <1>12 DEF RejectFrame, TypeOK, Fail, Pcs, Results
<1>13. CASE IoFailure
  BY <1>13 DEF IoFailure, TypeOK, Fail, Pcs, Results
<1> QED
  BY <1>2, <1>3, <1>4, <1>5, <1>6, <1>7, <1>8, <1>9, <1>10, <1>11, <1>12, <1>13
  DEF ClientStep, read_and_ack_settings

-----------------------------------------------------------------------------
(* The server's steps, reduced to what they have in common: one frame f    *)
(* joins the queue, stamped with the totals, and the ledger moves by it.   *)

Sends(f) ==
    /\ inbox' = Append(inbox, f)
    /\ f.sent = ledger.sent + Bytes(f)
    /\ f.granted = ledger.granted + Credit(f)
    /\ pc # "closed"
    /\ UNCHANGED <<pc, conn, strm, left, resp, block, result>>

LedgerFollows(f) ==
    /\ ledger' \in LedgerType
    /\ ledger'.sent = ledger.sent + Bytes(f)
    /\ ledger'.granted = ledger.granted + Credit(f)
    /\ ledger'.rcvd = ledger.rcvd /\ ledger'.taken = ledger.taken
    /\ ledger'.lost = ledger.lost
    /\ ledger'.conn_allow = ledger.conn_allow - Bytes(f)
    /\ ledger'.stream_allow = ledger.stream_allow - Bytes(f)
    /\ ledger'.credit = ledger.credit + Credit(f)

PhaseFollows(f) ==
    /\ srv' \in ServerType
    /\ f.sid <= strm.id
    /\ srv.phase \in {"none", "done"} => srv'.phase = srv.phase /\ Bytes(f) = 0
    /\ EndsStream(f) => srv'.phase = "done"

(* A frame that is neither DATA nor connection credit leaves the ledger's  *)
(* totals alone.                                                           *)
LEMMA LedgerIdle ==
    ASSUME TypeOK, NEW f, f.type # "data", Credit(f) = 0, UNCHANGED ledger
    PROVE  LedgerFollows(f) /\ Bytes(f) = 0
BY DEF LedgerFollows, Bytes, TypeOK, LedgerType

LEMMA ServerShape ==
    ASSUME TypeOK, StreamsInOrder, ServerStep, ~SrvClose
    PROVE  \E f \in FrameSet :
              /\ Sends(f) /\ LedgerFollows(f) /\ PhaseFollows(f)
              /\ pings' \in Int /\ ctl' \in Nat
<1> USE LimitAssumption, PeerAssumption
<1>1. /\ srv \in ServerType /\ ledger \in LedgerType /\ pings \in Int /\ ctl \in Nat
      /\ strm.id \in Nat /\ 0 <= strm.id
      /\ ledger.sent \in Nat /\ ledger.granted \in Nat
  BY DEF TypeOK, StreamType, LedgerType
(* Control frames without effect on ledger or phase. *)
<1>2. ASSUME NEW type \in FrameTypes \ {"data", "headers", "window_update"},
             NEW sid \in {0, strm.id}, NEW n \in Nat,
             Deliver(Plain(type, sid, n)), UNCHANGED ledger,
             srv' \in ServerType,
             srv.phase \in {"none", "done"} => srv'.phase = srv.phase,
             pings' \in Int, ctl' \in Nat
      PROVE  \E f \in FrameSet :
                /\ Sends(f) /\ LedgerFollows(f) /\ PhaseFollows(f)
                /\ pings' \in Int /\ ctl' \in Nat
  <2> DEFINE f == Plain(type, sid, n)
  <2>1. /\ f \in FrameSet /\ f.type = type /\ f.sid = sid /\ f.es = FALSE
        /\ f.sent = ledger.sent + Bytes(f)
        /\ f.granted = ledger.granted + Credit(f)
    BY <1>1 DEF Plain, Stamped, FrameSet, Bytes, Credit
  <2>2. inbox' = Append(inbox, f) /\ pc # "closed"
        /\ UNCHANGED <<pc, conn, strm, left, resp, block, result>>
    BY <1>2 DEF Deliver
  <2> HIDE DEF f
  <2>3. Sends(f)
    BY <2>1, <2>2 DEF Sends
  <2>4. Credit(f) = 0 /\ f.type # "data"
    BY <2>1 DEF Credit
  <2>5. LedgerFollows(f) /\ Bytes(f) = 0
    BY <2>4, <1>2, LedgerIdle
  <2>6. PhaseFollows(f)
    BY <2>1, <2>5, <1>1, <1>2 DEF PhaseFollows, EndsStream
  <2> QED
    BY <2>1, <2>3, <2>5, <2>6, <1>2
<1>3. CASE SrvSettings
  <2>1. PICK size \in PeerFrameSizes, window \in PeerWindows :
          /\ Deliver(Plain("settings", 0, size))
          /\ srv' = [srv EXCEPT !.settled = TRUE, !.window = window,
                !.max = IF size \in MinFrame..MaxFrame THEN size ELSE MinFrame]
    BY <1>3 DEF SrvSettings
  <2>2. srv' \in ServerType /\ srv'.phase = srv.phase
    <3> DEFINE max == IF size \in MinFrame..MaxFrame THEN size ELSE MinFrame
    <3>1. max \in Nat /\ window \in Nat
      BY WindowAssumption
    <3> HIDE DEF max
    <3>2. srv' = [srv EXCEPT !.settled = TRUE, !.window = window, !.max = max]
      BY <2>1 DEF max
    <3> QED
      BY <3>1, <3>2, <1>1 DEF ServerType
  <2>3. size \in Nat /\ UNCHANGED <<ledger, pings, ctl>>
    BY <1>3 DEF SrvSettings
  <2> QED
    BY <2>1, <2>2, <2>3, <1>1, <1>2
<1>4. CASE SrvLaterSettings
  <2>1. PICK size \in LaterFrameSizes : /\ Control(Plain("settings", 0, size))
                                        /\ srv' = [srv EXCEPT !.max = size]
    BY <1>4 DEF SrvLaterSettings
  <2>2. srv' \in ServerType /\ srv'.phase = srv.phase
    BY <2>1, <1>1 DEF ServerType
  <2>3. /\ size \in Nat /\ UNCHANGED <<ledger, pings>> /\ ctl' \in Nat
        /\ Deliver(Plain("settings", 0, size))
    BY <2>1, <1>1, <1>4 DEF SrvLaterSettings, Control
  <2> QED
    BY <2>2, <2>3, <1>1, <1>2
<1>5. CASE SrvSettingsAck
  <2>1. /\ UNCHANGED <<srv, ledger, pings>> /\ ctl' \in Nat
        /\ Deliver(Plain("settings_ack", 0, 0))
    BY <1>1, <1>5 DEF SrvSettingsAck, Control
  <2> QED
    BY <2>1, <1>1, <1>2
<1>6. CASE SrvPing
  <2>1. /\ UNCHANGED <<srv, ledger, ctl>> /\ pings' \in Int
        /\ Deliver(Plain("ping", 0, 0))
    BY <1>1, <1>6 DEF SrvPing
  <2> QED
    BY <2>1, <1>1, <1>2
<1>7. CASE SrvGoAway
  <2>1. PICK last \in {0, strm.id, MaxStreamId}, type \in {"goaway", "goaway_error"} :
          /\ Control(Plain(type, 0, last))
          /\ srv' = [srv EXCEPT !.last = last]
    BY <1>7 DEF SrvGoAway
  <2>2. last \in Nat
    BY <1>1
  <2>3. srv' \in ServerType /\ srv'.phase = srv.phase
    BY <2>1, <2>2, <1>1 DEF ServerType
  <2>4. /\ UNCHANGED <<ledger, pings>> /\ ctl' \in Nat
        /\ Deliver(Plain(type, 0, last))
    BY <2>1, <1>1, <1>7 DEF SrvGoAway, Control
  <2> QED
    BY <2>2, <2>3, <2>4, <1>1, <1>2
<1>8. CASE SrvWindowUpdate
  <2>1. PICK inc \in Increments, sid \in {0, strm.id} :
          /\ Control(Plain("window_update", sid, inc))
          /\ \/ /\ sid = 0
                /\ ledger' = [ledger EXCEPT !.credit = ledger.credit + inc,
                                            !.granted = ledger.granted + inc]
             \/ /\ sid = strm.id /\ srv.phase = "open"
                /\ ledger' = [ledger EXCEPT
                                !.stream_credit = ledger.stream_credit + inc]
    BY <1>8 DEF SrvWindowUpdate
  <2>2. /\ inc \in Nat /\ ledger.credit + inc \in Int
        /\ ledger.granted + inc \in Nat /\ ledger.stream_credit + inc \in Int
    BY <1>1 DEF LedgerType
  <2> DEFINE f == Plain("window_update", sid, inc)
  <2>3. /\ f \in FrameSet /\ f.type = "window_update" /\ f.sid = sid /\ f.n = inc
        /\ f.sent = ledger.sent + Bytes(f)
        /\ f.granted = ledger.granted + Credit(f)
    BY <2>2, <1>1 DEF Plain, Stamped, FrameSet, Bytes, Credit
  <2>4. /\ inbox' = Append(inbox, f) /\ pc # "closed" /\ ctl' \in Nat
        /\ UNCHANGED <<pc, conn, strm, left, resp, block, result>>
        /\ UNCHANGED <<srv, pings>>
    BY <2>1, <1>1, <1>8, SMTT(20) DEF SrvWindowUpdate, Control, Deliver
  <2> HIDE DEF f
  <2>5. Sends(f)
    BY <2>3, <2>4 DEF Sends
  <2>6. Bytes(f) = 0
    BY <2>3 DEF Bytes
  <2>7. PhaseFollows(f)
    BY <2>3, <2>4, <2>6, <1>1 DEF PhaseFollows, EndsStream
  <2>8. LedgerFollows(f)
    <3>1. CASE sid = 0 /\ ledger' = [ledger EXCEPT
                  !.credit = ledger.credit + inc, !.granted = ledger.granted + inc]
      <4>1. ledger' \in LedgerType
        BY <2>2, <3>1, <1>1, Zenon DEF LedgerType
      <4>2. Credit(f) = inc
        BY <2>3, <3>1 DEF Credit
      <4> QED
        BY <2>2, <2>6, <3>1, <4>1, <4>2, <1>1 DEF LedgerFollows, LedgerType
    <3>2. CASE /\ sid = strm.id /\ srv.phase = "open"
               /\ ledger' = [ledger EXCEPT
                               !.stream_credit = ledger.stream_credit + inc]
      <4>1. ledger' \in LedgerType
        BY <2>2, <3>2, <1>1, Zenon DEF LedgerType
      <4>2. Credit(f) = 0
        BY <2>3, <3>2, <1>1 DEF Credit, StreamsInOrder
      <4> QED
        BY <2>2, <2>6, <3>2, <4>1, <4>2, <1>1 DEF LedgerFollows, LedgerType
    <3> QED
      BY <2>1, <3>1, <3>2
  <2> QED
    BY <2>3, <2>4, <2>5, <2>7, <2>8, <1>1
<1>9. CASE SrvInvalid
  <2>1. /\ UNCHANGED <<srv, ledger, pings>> /\ ctl' \in Nat
        /\ Deliver(Plain("invalid", 0, 0))
    BY <1>1, <1>9 DEF SrvInvalid, Control
  <2> QED
    BY <2>1, <1>1, <1>2
<1>10. ASSUME NEW kind \in HeaderKinds, NEW es \in BOOLEAN, NEW eh \in BOOLEAN,
              SrvHeaders(kind, es, eh)
       PROVE  \E f \in FrameSet :
                 /\ Sends(f) /\ LedgerFollows(f) /\ PhaseFollows(f)
                 /\ pings' \in Int /\ ctl' \in Nat
  <2> DEFINE phase == IF es THEN "done"
                      ELSE IF kind = "interim" THEN "open" ELSE "answering"
             f == Stamped("headers", strm.id, 0, es, eh, kind)
  <2>1. /\ f \in FrameSet /\ f.type = "headers" /\ f.sid = strm.id /\ f.es = es
        /\ f.sent = ledger.sent + Bytes(f)
        /\ f.granted = ledger.granted + Credit(f)
    BY <1>1 DEF Stamped, FrameSet, Bytes, Credit
  <2>2. /\ inbox' = Append(inbox, f) /\ pc # "closed"
        /\ UNCHANGED <<pc, conn, strm, left, resp, block, result>>
    BY <1>10 DEF SrvHeaders, Deliver
  <2>3. /\ srv' = [srv EXCEPT !.split = ~eh, !.phase = phase]
        /\ srv.phase \in {"open", "answering"} /\ UNCHANGED <<ledger, pings>>
    BY <1>10 DEF SrvHeaders, MayAnswer
  <2>4. /\ phase \in {"open", "answering", "done"} /\ (~eh) \in BOOLEAN
        /\ (es => phase = "done")
    OBVIOUS
  <2> HIDE DEF f, phase
  <2>5. srv' \in ServerType /\ srv'.phase = phase
    BY <2>3, <2>4, <1>1 DEF ServerType
  <2>6. LedgerFollows(f)
    BY <2>1, <2>3, LedgerIdle DEF Credit
  <2>7. PhaseFollows(f)
    BY <2>1, <2>3, <2>4, <2>5, <1>1 DEF PhaseFollows, EndsStream
  <2>8. Sends(f)
    BY <2>1, <2>2 DEF Sends
  <2>9. ctl' \in Nat
    BY <1>10, <1>1 DEF SrvHeaders
  <2> QED
    BY <2>1, <2>3, <2>6, <2>7, <2>8, <2>9, <1>1
<1>11. CASE SrvContinuation
  <2>1. PICK eh \in BOOLEAN :
          /\ Deliver(Stamped("continuation", strm.id, 0, FALSE, eh, "none"))
          /\ ctl' = IF eh THEN ctl ELSE ctl + 1
          /\ srv' = [srv EXCEPT !.split = ~eh]
    BY <1>11 DEF SrvContinuation
  <2> DEFINE f == Stamped("continuation", strm.id, 0, FALSE, eh, "none")
  <2>2. /\ f \in FrameSet /\ f.type = "continuation" /\ f.sid = strm.id
        /\ f.sent = ledger.sent + Bytes(f)
        /\ f.granted = ledger.granted + Credit(f)
    BY <1>1 DEF Stamped, FrameSet, Bytes, Credit
  <2>3. /\ inbox' = Append(inbox, f) /\ pc # "closed"
        /\ UNCHANGED <<pc, conn, strm, left, resp, block, result>>
        /\ UNCHANGED <<ledger, pings>>
    BY <2>1, <1>11 DEF SrvContinuation, Deliver
  <2> HIDE DEF f
  <2>4. srv' \in ServerType /\ srv'.phase = srv.phase
    <3>1. (~eh) \in BOOLEAN
      OBVIOUS
    <3> QED
      BY <2>1, <3>1, <1>1 DEF ServerType
  <2>5. LedgerFollows(f) /\ Bytes(f) = 0
    BY <2>2, <2>3, LedgerIdle DEF Credit
  <2>6. PhaseFollows(f)
    BY <2>2, <2>4, <2>5, <1>1 DEF PhaseFollows, EndsStream
  <2>7. Sends(f)
    BY <2>2, <2>3 DEF Sends
  <2>8. ctl' \in Nat
    BY <2>1, <1>1
  <2> QED
    BY <2>2, <2>3, <2>5, <2>6, <2>7, <2>8, <1>1
<1>12. ASSUME NEW n \in DataSizes, NEW es \in BOOLEAN, SrvData(n, es)
       PROVE  \E f \in FrameSet :
                 /\ Sends(f) /\ LedgerFollows(f) /\ PhaseFollows(f)
                 /\ pings' \in Int /\ ctl' \in Nat
  <2> DEFINE f == Stamped("data", strm.id, n, es, FALSE, "none")
             phase == IF es THEN "done" ELSE srv.phase
  <2>1. /\ ledger' = [ledger EXCEPT !.sent = ledger.sent + n,
                                    !.conn_allow = ledger.conn_allow - n,
                                    !.stream_allow = ledger.stream_allow - n]
        /\ srv' = [srv EXCEPT !.body = srv.body + n, !.phase = phase]
        /\ n <= ledger.conn_allow /\ n <= ledger.stream_allow
        /\ srv.phase = "answering" /\ UNCHANGED <<pings, ctl>>
    BY <1>12 DEF SrvData
  <2>2. /\ inbox' = Append(inbox, f) /\ pc # "closed"
        /\ UNCHANGED <<pc, conn, strm, left, resp, block, result>>
    BY <1>12 DEF SrvData, Deliver
  <2>3. /\ f \in FrameSet /\ f.type = "data" /\ f.sid = strm.id /\ f.n = n
        /\ f.es = es
        /\ f.sent = ledger.sent + Bytes(f)
        /\ f.granted = ledger.granted + Credit(f)
    BY <1>1 DEF Stamped, FrameSet, Bytes, Credit
  <2> HIDE DEF f
  <2>4. Bytes(f) = n /\ Credit(f) = 0
    BY <2>3 DEF Bytes, Credit
  <2>5. /\ ledger.sent + n \in Nat /\ ledger.conn_allow - n \in Nat
        /\ ledger.stream_allow - n \in Nat
    BY <2>1, <1>1 DEF LedgerType
  <2>6. ledger' \in LedgerType
    BY <2>1, <2>5, <1>1, Zenon DEF LedgerType
  <2>7. LedgerFollows(f)
    BY <2>1, <2>4, <2>5, <2>6, <1>1 DEF LedgerFollows, LedgerType
  <2>8. srv' \in ServerType /\ srv'.phase = phase
    <3>1. phase \in {"none", "open", "answering", "done"} /\ srv.body + n \in Nat
      BY <1>1 DEF ServerType
    <3>2. srv' = [srv EXCEPT !.body = srv.body + n, !.phase = phase]
      BY <2>1
    <3> HIDE DEF phase
    <3> QED
      BY <1>1, <3>1, <3>2 DEF ServerType
  <2>9. PhaseFollows(f)
    BY <2>1, <2>3, <2>8, <1>1 DEF PhaseFollows, EndsStream
  <2>10. Sends(f)
    BY <2>2, <2>3 DEF Sends
  <2> QED
    BY <2>1, <2>3, <2>7, <2>9, <2>10, <1>1
<1>13. CASE SrvReset
  <2>1. srv' \in ServerType /\ srv.phase \in {"open", "answering"}
    BY <1>1, <1>13 DEF SrvReset, ServerType
  <2>2. /\ UNCHANGED <<ledger, pings>> /\ ctl' \in Nat
        /\ Deliver(Plain("rst_stream", strm.id, 0))
    BY <1>1, <1>13 DEF SrvReset, Control
  <2> QED
    BY <2>1, <2>2, <1>1, <1>2
<1> QED
  BY <1>3, <1>4, <1>5, <1>6, <1>7, <1>8, <1>9, <1>10, <1>11, <1>12, <1>13
  DEF ServerStep

(* Every step of the server keeps the types.                               *)
LEMMA ServerTypes ==
    ASSUME TypeOK, StreamsInOrder, ServerStep
    PROVE  TypeOK'
<1>1. CASE SrvClose
  <2>1. srv' \in ServerType
    BY <1>1 DEF SrvClose, TypeOK, ServerType
  <2> QED
    BY <2>1, <1>1 DEF SrvClose, TypeOK
<1>2. CASE ~SrvClose
  <2>1. PICK f \in FrameSet : /\ Sends(f) /\ LedgerFollows(f) /\ PhaseFollows(f)
                              /\ pings' \in Int /\ ctl' \in Nat
    BY <1>2, ServerShape
  <2>2. inbox' \in Seq(FrameSet)
    BY <2>1, QueueAppend DEF Sends
  <2> QED
    BY <2>1, <2>2 DEF Sends, LedgerFollows, PhaseFollows, TypeOK
<1> QED
  BY <1>1, <1>2

(* So do the caller's steps and the timers.                                *)
LEMMA CallerTypes ==
    ASSUME TypeOK,
           send_request \/ SettingsTimeout \/ UploadTimeout \/ ResponseTimeout
    PROVE  TypeOK'
<1>1. CASE RefuseRequest
  BY <1>1 DEF RefuseRequest, TypeOK, Fail, Pcs, Results
<1>2. ASSUME NEW size \in Bodies, StartRequest(size)
      PROVE  TypeOK'
  <2> DEFINE empty == size = 0
             state == IF empty THEN "half_closed_local" ELSE "open"
  <2>1. /\ conn \in ConnType /\ strm \in StreamType /\ srv \in ServerType
        /\ ledger \in LedgerType /\ size \in Nat
    BY PeerAssumption DEF TypeOK
  <2>2. /\ conn' = [conn EXCEPT !.next = conn.next + 2]
        /\ strm' = [id |-> conn.next, state |-> state,
                    send_window |-> StreamWindow, recv_window |-> StreamWindow]
        /\ srv' = [srv EXCEPT !.phase = "open", !.ended = empty, !.body = 0]
        /\ ledger' = [ledger EXCEPT !.stream_allow = StreamWindow,
                                    !.stream_credit = srv.window]
        /\ left' = size /\ pc' = IF empty THEN "response" ELSE "upload"
        /\ resp' = [headers |-> "none", body |-> 0] /\ result' = "none"
        /\ UNCHANGED <<block, inbox, pings, ctl>>
    BY <1>2 DEF StartRequest
  <2>3. empty \in BOOLEAN /\ state \in StreamStates
    BY DEF StreamStates
  <2>4. conn.next \in Nat /\ conn.next + 2 \in Nat
    BY <2>1 DEF ConnType
  <2> HIDE DEF empty, state
  <2>5. conn' \in ConnType
    BY <2>1, <2>2, <2>4, Zenon DEF ConnType
  <2>6. strm' \in StreamType
    BY <2>2, <2>3, <2>4, WindowAssumption DEF StreamType
  <2>7. srv' \in ServerType
    <3>1. srv' = [srv EXCEPT !.phase = "open", !.ended = empty, !.body = 0]
      BY <2>2
    <3> QED
      BY <3>1, <2>1, <2>3 DEF ServerType
  <2>8. ledger' \in LedgerType
    <3>1. srv.window \in Int /\ StreamWindow \in Nat
      BY <2>1, WindowAssumption DEF ServerType
    <3>2. ledger' = [ledger EXCEPT !.stream_allow = StreamWindow,
                                   !.stream_credit = srv.window]
      BY <2>2
    <3> QED
      BY <2>1, <3>1, <3>2, Zenon DEF LedgerType
  <2>9. resp' \in RespType
    BY <2>2 DEF RespType
  <2> QED
    BY <2>1, <2>2, <2>5, <2>6, <2>7, <2>8, <2>9 DEF TypeOK, Pcs, Results
<1>3. CASE SettingsTimeout
  BY <1>3 DEF SettingsTimeout, TypeOK, Fail, Pcs, Results
<1>4. CASE UploadTimeout
  BY <1>4 DEF UploadTimeout, TypeOK, Fail, Pcs, Results
<1>5. CASE ResponseTimeout
  BY <1>5 DEF ResponseTimeout, TypeOK, Fail, Pcs, Results
<1> QED
  BY <1>1, <1>2, <1>3, <1>4, <1>5 DEF send_request

-----------------------------------------------------------------------------
(* The inductive invariant *)

(* Reading the first frame leaves the chain of totals intact.              *)
LEMMA ReadLinked ==
    ASSUME TypeOK, Linked, Pending, inbox' = Tail(inbox),
           ledger'.rcvd = ledger.rcvd + Bytes(Frame),
           ledger'.taken = ledger.taken + Credit(Frame),
           ledger'.sent = ledger.sent, ledger'.granted = ledger.granted
    PROVE  /\ Linked'
           /\ ledger'.rcvd = Frame.sent /\ Frame.sent <= ledger.sent
<1>1. /\ Frame \in FrameSet /\ Frame = inbox[1]
      /\ Len(inbox) \in Nat \ {0} /\ Len(inbox') = Len(inbox) - 1
      /\ \A i \in 1..Len(inbox) : inbox[i] \in FrameSet
      /\ \A i \in 1..Len(inbox) - 1 : inbox'[i] = inbox[i + 1]
      /\ inbox' = <<>> <=> Len(inbox) = 1
  BY QueueHead
<1>2. /\ Bytes(Frame) \in Nat /\ Credit(Frame) \in Nat
      /\ Frame.sent \in Nat /\ Frame.granted \in Nat
      /\ ledger.rcvd \in Nat /\ ledger.taken \in Nat
  BY <1>1 DEF FrameSet, Bytes, Credit, TypeOK, LedgerType
<1>3. ledger'.rcvd = inbox[1].sent /\ ledger'.taken = inbox[1].granted
  <2>1. /\ Frame.sent - Bytes(Frame) = ledger.rcvd
        /\ Frame.granted - Credit(Frame) = ledger.taken
    BY <1>1 DEF Linked, Pending, SentBefore, GrantedBefore
  <2> QED
    BY <1>1, <1>2, <2>1
<1>4. inbox[1].sent <= ledger.sent /\ inbox[1].granted <= ledger.granted
  BY <1>1 DEF Linked
<1>5. ASSUME inbox' = <<>>
      PROVE  ledger'.rcvd = ledger'.sent /\ ledger'.taken = ledger'.granted
  BY <1>1, <1>3, <1>5 DEF Linked, Pending
<1>6. ASSUME inbox' # <<>>
      PROVE  /\ SentBefore(inbox'[1]) = ledger'.rcvd
             /\ GrantedBefore(inbox'[1]) = ledger'.taken
             /\ inbox'[Len(inbox')].sent = ledger'.sent
             /\ inbox'[Len(inbox')].granted = ledger'.granted
  <2>1. inbox'[1] = inbox[2] /\ inbox'[Len(inbox')] = inbox[Len(inbox)]
    BY <1>1, <1>6
  <2>2. /\ SentBefore(inbox[2]) = inbox[1].sent
        /\ GrantedBefore(inbox[2]) = inbox[1].granted
    BY <1>1, <1>6 DEF Linked
  <2> QED
    BY <2>1, <2>2, <1>3 DEF Linked, Pending
<1>7. ASSUME NEW i \in 1..Len(inbox') - 1
      PROVE  /\ SentBefore(inbox'[i + 1]) = inbox'[i].sent
             /\ GrantedBefore(inbox'[i + 1]) = inbox'[i].granted
  <2>1. inbox'[i] = inbox[i + 1] /\ inbox'[i + 1] = inbox[i + 2]
    BY <1>1
  <2>2. i + 1 \in 1..Len(inbox) - 1 /\ (i + 1) + 1 = i + 2
    BY <1>1
  <2>3. /\ SentBefore(inbox[(i + 1) + 1]) = inbox[i + 1].sent
        /\ GrantedBefore(inbox[(i + 1) + 1]) = inbox[i + 1].granted
    BY <2>2 DEF Linked
  <2> QED
    BY <2>1, <2>2, <2>3
<1>8. ASSUME NEW i \in 1..Len(inbox')
      PROVE  inbox'[i].sent <= ledger'.sent /\ inbox'[i].granted <= ledger'.granted
  BY <1>1 DEF Linked
<1> QED
  BY <1>1, <1>3, <1>4, <1>5, <1>6, <1>7, <1>8 DEF Linked, SentBefore, GrantedBefore

(* A new frame, stamped with the totals, continues the chain.              *)
LEMMA SendLinked ==
    ASSUME TypeOK, Linked, NEW f \in FrameSet, Sends(f), LedgerFollows(f)
    PROVE  Linked'
<1> DEFINE m == Len(inbox)
<1>1. /\ inbox' = Append(inbox, f) /\ inbox' # <<>>
      /\ m \in Nat /\ Len(inbox') = m + 1
      /\ inbox'[m + 1] = f
      /\ \A i \in 1..m : inbox'[i] = inbox[i]
      /\ \A i \in 1..m : inbox[i] \in FrameSet
      /\ inbox = <<>> <=> m = 0
  BY QueueAppend DEF Sends
<1> HIDE DEF m
<1>2. /\ Bytes(f) \in Nat /\ Credit(f) \in Nat
      /\ ledger.sent \in Nat /\ ledger.granted \in Nat
      /\ ledger.rcvd \in Nat /\ ledger.taken \in Nat
  BY DEF FrameSet, Bytes, Credit, TypeOK, LedgerType
<1>3. /\ f.sent = ledger.sent + Bytes(f) /\ f.granted = ledger.granted + Credit(f)
      /\ ledger'.sent = f.sent /\ ledger'.granted = f.granted
      /\ ledger'.rcvd = ledger.rcvd /\ ledger'.taken = ledger.taken
  BY DEF Sends, LedgerFollows
<1>4. SentBefore(f) = ledger.sent /\ GrantedBefore(f) = ledger.granted
  BY <1>2, <1>3 DEF SentBefore, GrantedBefore
<1>5. /\ SentBefore(inbox'[1]) = ledger'.rcvd
      /\ GrantedBefore(inbox'[1]) = ledger'.taken
  <2>1. CASE m = 0
    BY <2>1, <1>1, <1>3, <1>4 DEF Linked
  <2>2. CASE m # 0
    <3>1. inbox'[1] = inbox[1]
      BY <2>2, <1>1
    <3> QED
      BY <2>2, <3>1, <1>1, <1>3 DEF Linked
  <2> QED
    BY <2>1, <2>2
<1>6. ASSUME NEW i \in 1..m
      PROVE  /\ SentBefore(inbox'[i + 1]) = inbox'[i].sent
             /\ GrantedBefore(inbox'[i + 1]) = inbox'[i].granted
  <2>1. CASE i = m
    BY <2>1, <1>1, <1>4 DEF Linked, m
  <2>2. CASE i # m
    <3>1. i \in 1..m - 1 /\ i + 1 \in 1..m
      BY <2>2, <1>1
    <3>2. inbox'[i] = inbox[i] /\ inbox'[i + 1] = inbox[i + 1]
      BY <3>1, <1>1
    <3> QED
      BY <3>1, <3>2 DEF Linked, m
  <2> QED
    BY <2>1, <2>2
<1>7. ASSUME NEW i \in 1..m + 1
      PROVE  inbox'[i].sent <= ledger'.sent /\ inbox'[i].granted <= ledger'.granted
  <2>1. CASE i = m + 1
    BY <2>1, <1>1, <1>2, <1>3
  <2>2. CASE i # m + 1
    <3>1. i \in 1..m /\ inbox'[i] = inbox[i]
      BY <2>2, <1>1
    <3>2. inbox[i].sent <= ledger.sent /\ inbox[i].granted <= ledger.granted
      BY <3>1 DEF Linked, m
    <3>3. inbox[i].sent \in Nat /\ inbox[i].granted \in Nat
      BY <3>1, <1>1 DEF FrameSet
    <3> QED
      BY <3>1, <3>2, <3>3, <1>2, <1>3
  <2> QED
    BY <2>1, <2>2
<1>8. ledger'.taken <= ledger'.granted
  BY <1>2, <1>3 DEF Linked
<1>9. (Len(inbox') - 1) = m /\ inbox'[Len(inbox')] = f
  BY <1>1
<1> QED
  BY <1>1, <1>3, <1>5, <1>6, <1>7, <1>8, <1>9 DEF Linked, SentBefore, GrantedBefore

(* Reading never disturbs the order of streams.                            *)
LEMMA ReadStreams ==
    ASSUME TypeOK, StreamsInOrder, Pending, inbox' = Tail(inbox),
           strm'.id = strm.id, conn'.next = conn.next, srv' = srv,
           ledger'.sent = ledger.sent
    PROVE  StreamsInOrder'
<1>1. /\ Len(inbox) \in Nat \ {0} /\ Len(inbox') = Len(inbox) - 1
      /\ \A i \in 1..Len(inbox) - 1 : inbox'[i] = inbox[i + 1]
  BY QueueHead
<1>2. ASSUME NEW i \in 1..Len(inbox')
      PROVE  /\ inbox'[i].sid <= strm'.id
             /\ EndsStream(inbox[i])' =>
                   srv'.phase = "done" /\ inbox'[i].sent = ledger'.sent
  <2>1. i + 1 \in 1..Len(inbox) /\ inbox'[i] = inbox[i + 1]
    BY <1>1
  <2>2. /\ inbox[i + 1].sid <= strm.id
        /\ EndsStream(inbox[i + 1]) =>
              srv.phase = "done" /\ inbox[i + 1].sent = ledger.sent
    BY <2>1 DEF StreamsInOrder
  <2> QED
    BY <2>1, <2>2 DEF EndsStream
<1> QED
  BY <1>2 DEF StreamsInOrder, EndsStream

LEMMA SendStreams ==
    ASSUME TypeOK, StreamsInOrder, NEW f \in FrameSet,
           Sends(f), LedgerFollows(f), PhaseFollows(f)
    PROVE  StreamsInOrder'
<1> DEFINE m == Len(inbox)
<1>1. /\ m \in Nat /\ Len(inbox') = m + 1
      /\ inbox'[m + 1] = f
      /\ \A i \in 1..m : inbox'[i] = inbox[i]
  BY QueueAppend DEF Sends
<1>2. /\ strm' = strm /\ conn' = conn /\ f.sid <= strm.id
      /\ f.sent = ledger'.sent
      /\ EndsStream(f) => srv'.phase = "done"
      /\ srv.phase \in {"none", "done"} => srv'.phase = srv.phase /\ Bytes(f) = 0
      /\ ledger'.sent = ledger.sent + Bytes(f) /\ ledger.sent \in Nat
  BY DEF Sends, LedgerFollows, PhaseFollows, TypeOK, LedgerType
<1>3. ASSUME NEW i \in 1..Len(inbox')
      PROVE  /\ inbox'[i].sid <= strm'.id
             /\ EndsStream(inbox'[i]) =>
                   srv'.phase = "done" /\ inbox'[i].sent = ledger'.sent
  <2>1. CASE i = m + 1
    BY <2>1, <1>1, <1>2
  <2>2. CASE i # m + 1
    <3>1. i \in 1..m /\ inbox'[i] = inbox[i]
      BY <2>2, <1>1
    <3>2. /\ inbox[i].sid <= strm.id
          /\ EndsStream(inbox[i]) =>
                srv.phase = "done" /\ inbox[i].sent = ledger.sent
      BY <3>1, Zenon DEF StreamsInOrder, m
    <3> QED
      BY <3>1, <3>2, <1>2
  <2> QED
    BY <2>1, <2>2
<1>4. srv'.phase # "none" => strm'.id > 0
  <2>1. srv.phase # "none" => strm.id > 0
    BY DEF StreamsInOrder
  <2> QED
    BY <2>1, <1>2
<1> QED
  BY <1>2, <1>3, <1>4 DEF StreamsInOrder, EndsStream

(* Frames that are handled generically: the ledger takes their bytes as    *)
(* lost, and the connection window rises by the credit they carry.         *)
LEMMA HandleFrameInv ==
    ASSUME TypeOK, IInv, Pending, handle_frame
    PROVE  IInv'
<1>1. /\ Frame \in FrameSet /\ Frame.n \in Nat
      /\ Bytes(Frame) \in Nat /\ Credit(Frame) \in Nat
  BY QueueHead DEF FrameSet, Bytes, Credit
<1>2. /\ inbox' = Tail(inbox) /\ ledger \in LedgerType
      /\ ledger'.rcvd = ledger.rcvd + Bytes(Frame)
      /\ ledger'.taken = ledger.taken + Credit(Frame)
      /\ ledger'.lost = ledger.lost + Bytes(Frame)
      /\ ledger'.conn_allow = ledger.conn_allow
      /\ ledger'.stream_allow = ledger.stream_allow
      /\ ledger'.credit = ledger.credit
      /\ ledger'.sent = ledger.sent /\ ledger'.granted = ledger.granted
      /\ UNCHANGED <<strm, block, srv>>
  BY <1>1, ConsumeTypes DEF handle_frame, Consume, TypeOK
<1>3. /\ ledger.rcvd \in Nat /\ ledger.taken \in Nat /\ ledger.lost \in Nat
      /\ ledger.sent \in Nat /\ ledger.granted \in Nat
      /\ ledger.conn_allow \in Nat /\ ledger.stream_allow \in Nat
      /\ ledger.credit \in Int
      /\ conn.recv_window \in Int /\ conn.send_window \in Int
      /\ strm.recv_window \in Int
      /\ conn \in ConnType
  BY <1>2 DEF LedgerType, TypeOK, ConnType, StreamType
<1>4. /\ pc' = pc \/ pc' = "closed"
      /\ conn'.recv_window = conn.recv_window /\ conn'.next = conn.next
      /\ pc' # "closed" => conn'.send_window = conn.send_window + Credit(Frame)
  <2>1. CASE Credit(Frame) = 0 /\ ~RaiseSendWindow
    BY <2>1, <1>3 DEF handle_frame, AnswerPing, StoreGoAway, GoAwayError, Ignore,
                      Fail, ConnType
  <2>2. CASE RaiseSendWindow
    <3>1. Credit(Frame) = Frame.n
      BY <2>2 DEF RaiseSendWindow, Credit
    <3> QED
      BY <2>2, <3>1, <1>3 DEF RaiseSendWindow, Fail, ConnType
  <2>3. Credit(Frame) = 0 \/ RaiseSendWindow
    BY DEF handle_frame, AnswerPing, StoreGoAway, GoAwayError, Ignore, Credit
  <2> QED
    BY <2>1, <2>2, <2>3
<1>5. Linked' /\ ledger'.rcvd = Frame.sent /\ Frame.sent <= ledger.sent
  BY <1>2, ReadLinked DEF IInv
<1>6. StreamsInOrder'
  BY <1>2, <1>4, ReadStreams DEF IInv
<1>7. ledger.rcvd = ledger.sent => ledger'.rcvd = ledger'.sent
  <2>1. Frame.sent \in Nat
    BY <1>1 DEF FrameSet
  <2> QED
    BY <2>1, <1>1, <1>2, <1>3, <1>5, SMTT(20)
<1>8. Quiet'
  BY <1>2, <1>4, <1>7 DEF IInv, Quiet
<1>9. Windows'
  <2>1. SUFFICES ASSUME pc' # "closed"
                 PROVE  /\ conn'.recv_window + ledger'.rcvd
                               = ledger'.conn_allow + ledger'.sent + ledger'.lost
                        /\ conn'.send_window + ledger'.granted
                               = ledger'.credit + ledger'.taken
                        /\ ConnRecvMax - conn'.recv_window <= ConnRecvMax \div 2
    BY DEF Windows
  <2>2. /\ conn.recv_window + ledger.rcvd
              = ledger.conn_allow + ledger.sent + ledger.lost
        /\ conn.send_window + ledger.granted = ledger.credit + ledger.taken
        /\ ConnRecvMax - conn.recv_window <= ConnRecvMax \div 2
    BY <2>1, <1>4 DEF IInv, Windows
  <2>3. ConnRecvMax - conn'.recv_window <= ConnRecvMax \div 2
    BY <2>2, <1>4
  <2>4. conn'.send_window = conn.send_window + Credit(Frame)
    BY <2>1, <1>4
  <2>5. conn'.recv_window + (ledger.rcvd + Bytes(Frame))
           = ledger.conn_allow + ledger.sent + (ledger.lost + Bytes(Frame))
    BY <2>2, <1>1, <1>3, <1>4, SMTT(20)
  <2>6. (conn.send_window + Credit(Frame)) + ledger.granted
           = ledger.credit + (ledger.taken + Credit(Frame))
    <3>1. /\ conn.send_window \in Int /\ ledger.granted \in Int
          /\ ledger.credit \in Int /\ ledger.taken \in Int /\ Credit(Frame) \in Int
      BY <1>1, <1>3
    <3>2. conn.send_window + ledger.granted = ledger.credit + ledger.taken
      BY <2>2
    <3> QED
      BY <3>1, <3>2
  <2> QED
    BY <2>3, <2>4, <2>5, <2>6, <1>2
<1>10. StreamWindows'
  <2>1. ledger'.lost = 0 => ledger.lost = 0 /\ Bytes(Frame) = 0
    BY <1>1, <1>2, <1>3
  <2>2. ASSUME pc' \in {"upload", "response", "continuation"}
        PROVE  /\ StreamWindow - strm.recv_window <= StreamWindow \div 2
               /\ ledger.lost = 0 =>
                     strm.recv_window + ledger.rcvd = ledger.stream_allow + ledger.sent
    BY <2>2, <1>4 DEF IInv, StreamWindows
  <2>3. ledger'.lost = 0 => ledger'.rcvd = ledger.rcvd
    <3>1. ledger'.rcvd = ledger.rcvd + Bytes(Frame) /\ ledger.rcvd \in Nat
      BY <1>2, <1>3
    <3> QED
      BY <2>1, <3>1
  <2>4. /\ strm' = strm /\ ledger'.stream_allow = ledger.stream_allow
        /\ ledger'.sent = ledger.sent
    BY <1>2
  <2> QED
    BY <2>1, <2>2, <2>3, <2>4 DEF StreamWindows
<1> QED
  BY <1>5, <1>6, <1>8, <1>9, <1>10 DEF IInv

(* Frames without bytes or credit, read for what they are.                 *)
LEMMA PlainReadInv ==
    ASSUME TypeOK, IInv, Pending, Consume(0), srv' = srv,
           Bytes(Frame) = 0, Credit(Frame) = 0,
           conn'.next = conn.next, conn'.recv_window = conn.recv_window,
           conn'.send_window = conn.send_window,
           strm'.id = strm.id, strm'.recv_window = strm.recv_window,
           pc # "closed",
           pc' \in {"upload", "response", "continuation"} =>
              pc \in {"upload", "response", "continuation"},
           Quiet'
    PROVE  IInv'
<1>1. /\ inbox' = Tail(inbox) /\ ledger \in LedgerType
      /\ ledger'.rcvd = ledger.rcvd + Bytes(Frame)
      /\ ledger'.taken = ledger.taken + Credit(Frame)
      /\ ledger'.lost = ledger.lost
      /\ ledger'.conn_allow = ledger.conn_allow
      /\ ledger'.stream_allow = ledger.stream_allow
      /\ ledger'.credit = ledger.credit
      /\ ledger'.sent = ledger.sent /\ ledger'.granted = ledger.granted
  <2>1. inbox' = Tail(inbox) /\ ledger \in LedgerType /\ ledger.lost + 0 = ledger.lost
    BY DEF Consume, TypeOK, LedgerType
  <2>2. /\ ledger'.rcvd = ledger.rcvd + Bytes(Frame)
        /\ ledger'.taken = ledger.taken + Credit(Frame)
        /\ ledger'.lost = ledger.lost + 0
        /\ \A f \in {"conn_allow", "stream_allow", "credit", "stream_credit",
                     "sent", "granted"} : ledger'[f] = ledger[f]
    BY ConsumeTypes
  <2> QED
    BY <2>1, <2>2
<1>2. ledger.rcvd \in Nat /\ ledger.taken \in Nat
  BY <1>1 DEF LedgerType
<1>3. ledger'.rcvd = ledger.rcvd /\ ledger'.taken = ledger.taken
  BY <1>1, <1>2
<1>4. Linked'
  BY <1>1, ReadLinked DEF IInv
<1>5. StreamsInOrder'
  BY <1>1, ReadStreams DEF IInv
<1>6. Windows'
  BY <1>1, <1>3 DEF IInv, Windows
<1>7. StreamWindows'
  BY <1>1, <1>3 DEF IInv, StreamWindows
<1> QED
  BY <1>4, <1>5, <1>6, <1>7 DEF IInv

(* Steps that end the connection leave nothing of the windows to keep.     *)
LEMMA ClosingInv ==
    ASSUME TypeOK, IInv, pc' = "closed", srv' = srv, conn'.next = conn.next,
           strm'.id = strm.id,
           ledger'.sent = ledger.sent, ledger'.granted = ledger.granted,
           \/ inbox' = inbox /\ ledger' = ledger
           \/ /\ Pending /\ inbox' = Tail(inbox)
              /\ ledger'.rcvd = ledger.rcvd + Bytes(Frame)
              /\ ledger'.taken = ledger.taken + Credit(Frame)
    PROVE  IInv'
<1>1. Linked' /\ StreamsInOrder'
  <2>1. CASE inbox' = inbox /\ ledger' = ledger
    BY <2>1 DEF IInv, Linked, StreamsInOrder, SentBefore, GrantedBefore, EndsStream
  <2>2. CASE /\ Pending /\ inbox' = Tail(inbox)
             /\ ledger'.rcvd = ledger.rcvd + Bytes(Frame)
             /\ ledger'.taken = ledger.taken + Credit(Frame)
    BY <2>2, ReadLinked, ReadStreams DEF IInv
  <2> QED
    BY <2>1, <2>2
<1>2. Quiet' /\ Windows' /\ StreamWindows'
  BY DEF Quiet, Windows, StreamWindows
<1> QED
  BY <1>1, <1>2 DEF IInv

(* A chunk takes as much off the send window as off the server's credit.   *)
LEMMA UploadChunkInv ==
    ASSUME TypeOK, IInv, UploadChunk
    PROVE  IInv'
<1> DEFINE sent == Smallest({Available, left})
<1>1. sent \in Int
  BY ChunkFits DEF UploadChunk
<1>2. /\ conn' = [conn EXCEPT !.send_window = conn.send_window - sent]
      /\ ledger' = [ledger EXCEPT !.credit = ledger.credit - sent,
                                  !.stream_credit = ledger.stream_credit - sent]
      /\ pc = "upload" /\ pc' \in {"upload", "response"}
      /\ UNCHANGED <<block, inbox>>
  BY DEF UploadChunk
<1>3. strm'.id = strm.id /\ strm'.recv_window = strm.recv_window
  BY DEF UploadChunk, TypeOK, StreamType
<1>4. srv'.phase = srv.phase
  BY DEF UploadChunk, TypeOK, ServerType
<1> HIDE DEF sent
<1>5. conn \in ConnType /\ ledger \in LedgerType
  BY DEF TypeOK
<1>6. /\ conn'.send_window = conn.send_window - sent
      /\ conn'.recv_window = conn.recv_window /\ conn'.next = conn.next
      /\ conn.send_window \in Int
  BY <1>2, <1>5 DEF ConnType
<1>7. /\ ledger'.credit = ledger.credit - sent
      /\ ledger'.rcvd = ledger.rcvd /\ ledger'.sent = ledger.sent
      /\ ledger'.lost = ledger.lost /\ ledger'.conn_allow = ledger.conn_allow
      /\ ledger'.stream_allow = ledger.stream_allow
      /\ ledger'.granted = ledger.granted /\ ledger'.taken = ledger.taken
      /\ ledger.credit \in Int /\ ledger.granted \in Int /\ ledger.taken \in Int
  BY <1>2, <1>5 DEF LedgerType
<1>8. Linked' /\ StreamsInOrder'
  BY <1>2, <1>3, <1>4, <1>6, <1>7
  DEF IInv, Linked, StreamsInOrder, SentBefore, GrantedBefore, EndsStream
<1>9. Windows'
  <2>1. /\ conn.recv_window + ledger.rcvd
              = ledger.conn_allow + ledger.sent + ledger.lost
        /\ conn.send_window + ledger.granted = ledger.credit + ledger.taken
        /\ ConnRecvMax - conn.recv_window <= ConnRecvMax \div 2
    BY <1>2 DEF IInv, Windows
  <2>2. (conn.send_window - sent) + ledger.granted
           = (ledger.credit - sent) + ledger.taken
    BY <2>1, <1>1, <1>6, <1>7
  <2> QED
    BY <2>1, <2>2, <1>6, <1>7 DEF Windows
<1>10. Quiet' /\ StreamWindows'
  BY <1>2, <1>3, <1>7 DEF IInv, Quiet, StreamWindows
<1> QED
  BY <1>8, <1>9, <1>10 DEF IInv

(* A DATA frame comes off both windows, and what tops them up is granted   *)
(* to the server.                                                          *)
LEMMA ReadDataInv ==
    ASSUME TypeOK, IInv, ReadData
    PROVE  IInv'
<1> DEFINE recv == conn.recv_window - Frame.n
           srecv == strm.recv_window - Frame.n
           tooLarge == resp.body + Frame.n > MaxBody
<1>1. /\ Frame \in FrameSet /\ Frame.n \in Nat /\ Frame = inbox[1]
      /\ Len(inbox) \in Nat \ {0}
      /\ Pending /\ Frame.type = "data" /\ Ours /\ pc = "response"
  BY QueueHead DEF ReadData, FrameSet
<1>2. Bytes(Frame) = Frame.n /\ Credit(Frame) = 0
  BY <1>1 DEF Bytes, Credit
<1>3. /\ conn \in ConnType /\ strm \in StreamType /\ ledger \in LedgerType
  BY DEF TypeOK
<1>4. /\ recv \in Int /\ srecv \in Int
      /\ conn.recv_window \in Int /\ strm.recv_window \in Int
      /\ ledger.rcvd \in Int /\ ledger.sent \in Int /\ ledger.lost \in Int
      /\ ledger.conn_allow \in Int /\ ledger.stream_allow \in Int
      /\ ledger.taken \in Int
  <2>1. conn.recv_window \in Int /\ strm.recv_window \in Int
    BY <1>3 DEF ConnType, StreamType
  <2>2. /\ ledger.rcvd \in Int /\ ledger.sent \in Int /\ ledger.lost \in Int
        /\ ledger.conn_allow \in Int /\ ledger.stream_allow \in Int
        /\ ledger.taken \in Int
    BY <1>3 DEF LedgerType
  <2> QED
    BY <2>1, <2>2, <1>1
<1>5. /\ TopUp(ConnRecvMax, recv) \in Nat /\ TopUp(StreamWindow, srecv) \in Nat
      /\ Replenished(ConnRecvMax, recv) = recv + TopUp(ConnRecvMax, recv)
      /\ Replenished(StreamWindow, srecv) = srecv + TopUp(StreamWindow, srecv)
      /\ ConnRecvMax - Replenished(ConnRecvMax, recv) <= ConnRecvMax \div 2
      /\ StreamWindow - Replenished(StreamWindow, srecv) <= StreamWindow \div 2
  BY <1>4, TopUpBounds, WindowAssumption
<1>6. /\ inbox' = Tail(inbox) /\ UNCHANGED <<block, srv>>
      /\ tooLarge =>
            /\ pc' = "closed"
            /\ conn' = [conn EXCEPT !.recv_window = recv]
            /\ strm' = [strm EXCEPT !.recv_window = srecv]
            /\ ledger' = [ledger EXCEPT !.rcvd = ledger.rcvd + Frame.n]
      /\ ~tooLarge =>
            /\ pc' = IF Frame.es THEN "idle" ELSE "response"
            /\ conn' = [conn EXCEPT !.recv_window = Replenished(ConnRecvMax, recv)]
            /\ strm' = [strm EXCEPT !.recv_window = Replenished(StreamWindow, srecv),
                                    !.state = IF Frame.es THEN "closed" ELSE @]
            /\ ledger' = [ledger EXCEPT
                 !.rcvd = ledger.rcvd + Frame.n,
                 !.conn_allow = ledger.conn_allow + TopUp(ConnRecvMax, recv),
                 !.stream_allow = ledger.stream_allow + TopUp(StreamWindow, srecv)]
  BY DEF ReadData, Fail
<1> HIDE DEF recv, srecv, tooLarge
<1>7. /\ conn'.next = conn.next /\ conn'.send_window = conn.send_window
      /\ strm'.id = strm.id
      /\ ledger'.rcvd = ledger.rcvd + Frame.n
      /\ ledger'.taken = ledger.taken /\ ledger'.credit = ledger.credit
      /\ ledger'.lost = ledger.lost
      /\ ledger'.sent = ledger.sent /\ ledger'.granted = ledger.granted
  BY <1>3, <1>6 DEF ConnType, StreamType, LedgerType
<1>8. ledger.taken + 0 = ledger.taken
  BY <1>4
<1>9. Linked' /\ ledger'.rcvd = Frame.sent
  BY <1>1, <1>2, <1>6, <1>7, <1>8, ReadLinked DEF IInv
<1>10. StreamsInOrder'
  BY <1>1, <1>6, <1>7, ReadStreams DEF IInv
<1>11. CASE tooLarge
  <2>1. pc' = "closed"
    BY <1>6, <1>11
  <2> QED
    BY <2>1, <1>9, <1>10 DEF IInv, Quiet, Windows, StreamWindows
<1>12. CASE ~tooLarge
  <2>1. /\ conn'.recv_window = Replenished(ConnRecvMax, recv)
        /\ strm'.recv_window = Replenished(StreamWindow, srecv)
        /\ ledger'.conn_allow = ledger.conn_allow + TopUp(ConnRecvMax, recv)
        /\ ledger'.stream_allow = ledger.stream_allow + TopUp(StreamWindow, srecv)
    BY <1>3, <1>6, <1>12 DEF ConnType, StreamType, LedgerType
  <2>2. pc' = IF Frame.es THEN "idle" ELSE "response"
    BY <1>6, <1>12
  <2>3. Quiet'
    <3>1. Frame.es => srv.phase = "done" /\ Frame.sent = ledger.sent
      BY <1>1 DEF IInv, StreamsInOrder, EndsStream, Ours
    <3> QED
      BY <3>1, <2>2, <1>6, <1>7, <1>9 DEF Quiet
  <2>4. Windows'
    <3>1. /\ conn.recv_window + ledger.rcvd
                = ledger.conn_allow + ledger.sent + ledger.lost
          /\ conn.send_window + ledger.granted = ledger.credit + ledger.taken
      BY <1>1 DEF IInv, Windows
    <3>2. (recv + TopUp(ConnRecvMax, recv)) + (ledger.rcvd + Frame.n)
             = (ledger.conn_allow + TopUp(ConnRecvMax, recv)) + ledger.sent + ledger.lost
      <4> DEFINE t == TopUp(ConnRecvMax, recv)
                 n == Frame.n
                 w == conn.recv_window
                 r == ledger.rcvd
                 a == ledger.conn_allow
                 s == ledger.sent
                 l == ledger.lost
      <4>1. /\ t \in Int /\ n \in Int /\ w \in Int /\ r \in Int
            /\ a \in Int /\ s \in Int /\ l \in Int
        BY <1>1, <1>4, <1>5, SMTT(20)
      <4>2. recv = w - n /\ w + r = a + s + l
        BY <3>1 DEF recv
      <4> HIDE DEF t, n, w, r, a, s, l
      <4>3. ((w - n) + t) + (r + n) = (a + t) + s + l
        BY <4>1, <4>2
      <4> QED
        BY <4>2, <4>3 DEF t, n, w, r, a, s, l
    <3> QED
      BY <3>1, <3>2, <2>1, <1>5, <1>7 DEF Windows
  <2>5. StreamWindows'
    <3>1. ledger.lost = 0 =>
             strm.recv_window + ledger.rcvd = ledger.stream_allow + ledger.sent
      BY <1>1 DEF IInv, StreamWindows
    <3>2. ledger.lost = 0 =>
             (srecv + TopUp(StreamWindow, srecv)) + (ledger.rcvd + Frame.n)
                = (ledger.stream_allow + TopUp(StreamWindow, srecv)) + ledger.sent
      <4> DEFINE t == TopUp(StreamWindow, srecv)
      <4>1. t \in Int /\ Frame.n \in Int /\ srecv = strm.recv_window - Frame.n
        BY <1>1, <1>5 DEF srecv
      <4> HIDE DEF t
      <4>2. ledger.lost = 0 =>
               ((strm.recv_window - Frame.n) + t) + (ledger.rcvd + Frame.n)
                  = (ledger.stream_allow + t) + ledger.sent
        BY <3>1, <4>1, <1>4
      <4> QED
        BY <4>1, <4>2 DEF t
    <3> QED
      BY <3>2, <2>1, <1>5, <1>7 DEF StreamWindows
  <2> QED
    BY <2>3, <2>4, <2>5, <1>9, <1>10 DEF IInv
<1> QED
  BY <1>11, <1>12

(* A frame that ends the current stream is the last one in flight.         *)
LEMMA EndIsLast ==
    ASSUME TypeOK, IInv, Pending, EndsStream(Frame), Bytes(Frame) = 0
    PROVE  ledger.rcvd = ledger.sent /\ srv.phase = "done"
<1>1. /\ Frame \in FrameSet /\ Frame = inbox[1] /\ Len(inbox) \in Nat \ {0}
      /\ ledger.rcvd \in Nat
  BY QueueHead DEF TypeOK, LedgerType
<1>2. Frame.sent \in Nat
  BY <1>1 DEF FrameSet
<1>3. Frame.sent - 0 = ledger.rcvd
  BY <1>1 DEF IInv, Linked, Pending, SentBefore
<1>4. srv.phase = "done" /\ Frame.sent = ledger.sent
  BY <1>1 DEF IInv, StreamsInOrder
<1> QED
  BY <1>2, <1>3, <1>4

(* Every step the client takes by itself keeps the invariant.              *)
LEMMA ClientInv ==
    ASSUME TypeOK, IInv, ClientStep
    PROVE  IInv'
<1>1. /\ conn \in ConnType /\ strm \in StreamType /\ block \in BlockType
      /\ ledger \in LedgerType
  BY DEF TypeOK
<1>2. ASSUME Pending, Consume(0)
      PROVE  /\ ledger'.rcvd = ledger.rcvd + Bytes(Frame)
             /\ ledger'.taken = ledger.taken + Credit(Frame)
             /\ ledger'.sent = ledger.sent /\ ledger'.granted = ledger.granted
             /\ Bytes(Frame) = 0 => ledger'.rcvd = ledger.rcvd
  <2>1. /\ ledger'.rcvd = ledger.rcvd + Bytes(Frame)
        /\ ledger'.taken = ledger.taken + Credit(Frame)
        /\ \A f \in {"conn_allow", "stream_allow", "credit", "stream_credit",
                     "sent", "granted"} : ledger'[f] = ledger[f]
    BY <1>2, ConsumeTypes
  <2>2. ledger.rcvd \in Nat
    BY <1>1 DEF LedgerType
  <2> QED
    BY <2>1, <2>2
<1>3. CASE ReadSettings
  <2>1. /\ Pending /\ Consume(0) /\ pc = "handshake" /\ pc' = "idle"
        /\ Bytes(Frame) = 0 /\ Credit(Frame) = 0 /\ UNCHANGED <<srv, strm, block>>
    BY <1>3 DEF ReadSettings, Bytes, Credit
  <2>2. /\ conn'.next = conn.next /\ conn'.recv_window = conn.recv_window
        /\ conn'.send_window = conn.send_window
    BY <1>1, <1>3 DEF ReadSettings, ConnType
  <2>3. Quiet'
    BY <2>1, <1>2 DEF IInv, Quiet
  <2> QED
    BY <2>1, <2>2, <2>3, PlainReadInv
<1>4. CASE ReadBeforeSettings
  BY <1>4, HandleFrameInv DEF ReadBeforeSettings
<1>5. CASE UploadChunk
  BY <1>5, UploadChunkInv
<1>6. CASE UploadWait
  BY <1>6, HandleFrameInv DEF UploadWait
<1>7. CASE ReadHeaders
  <2>1. /\ Pending /\ Consume(0) /\ pc = "response" /\ Frame.type = "headers"
        /\ Ours /\ Bytes(Frame) = 0 /\ Credit(Frame) = 0 /\ UNCHANGED <<srv, conn>>
    BY <1>7 DEF ReadHeaders, Bytes, Credit
  <2>2. strm'.id = strm.id /\ strm'.recv_window = strm.recv_window
    BY <1>1, <1>7 DEF ReadHeaders, FinishHeaders, StreamType
  <2>3. Frame.es => ledger.rcvd = ledger.sent /\ srv.phase = "done"
    BY <2>1, EndIsLast DEF EndsStream, Ours
  <2>4. \/ pc' = "closed"
        \/ pc' = "response"
        \/ pc' = "idle" /\ Frame.es
        \/ pc' = "continuation" /\ block'.es = Frame.es
    BY <1>7 DEF ReadHeaders, FinishHeaders, Fail
  <2>5. Quiet'
    BY <2>1, <2>3, <2>4, <1>2 DEF Quiet
  <2> QED
    BY <2>1, <2>2, <2>5, PlainReadInv
<1>8. CASE ReadContinuation
  <2>1. Pending /\ Consume(0) /\ pc = "continuation" /\ UNCHANGED <<srv, conn>>
    BY <1>8 DEF ReadContinuation
  <2>2. strm'.id = strm.id /\ strm'.recv_window = strm.recv_window
    BY <1>1, <1>8 DEF ReadContinuation, FinishHeaders, StreamType
  <2>3. CASE Frame.type = "continuation" /\ Ours
    <3>1. Bytes(Frame) = 0 /\ Credit(Frame) = 0
      BY <2>3 DEF Bytes, Credit
    <3>2. block' = [block EXCEPT !.len = block.len + 1]
      BY <2>3, <1>8 DEF ReadContinuation
    <3>3. block'.es = block.es
      BY <3>2, <1>1 DEF BlockType
    <3>4. \/ pc' = "closed"
          \/ pc' = "response"
          \/ pc' = "idle" /\ block.es
          \/ pc' = "continuation"
      BY <2>1, <2>3, <1>8 DEF ReadContinuation, FinishHeaders, Fail
    <3>5. Quiet'
      BY <2>1, <3>1, <3>3, <3>4, <1>2 DEF IInv, Quiet
    <3> QED
      BY <2>1, <2>2, <3>1, <3>5, PlainReadInv
  <2>4. CASE ~(Frame.type = "continuation" /\ Ours)
    <3>1. pc' = "closed"
      BY <2>4, <1>8 DEF ReadContinuation, Fail
    <3>2. inbox' = Tail(inbox)
      BY <2>1 DEF Consume
    <3> QED
      BY <2>1, <2>2, <3>1, <3>2, <1>2, ClosingInv
  <2> QED
    BY <2>3, <2>4
<1>9. CASE BlockTooLarge
  BY <1>9, ClosingInv DEF BlockTooLarge, Fail
<1>10. CASE ReadData
  BY <1>10, ReadDataInv
<1>11. CASE ReadReset
  <2>1. /\ Pending /\ Consume(0) /\ pc' = "closed" /\ UNCHANGED <<srv, conn, strm>>
    BY <1>11 DEF ReadReset, Fail
  <2>2. inbox' = Tail(inbox)
    BY <2>1 DEF Consume
  <2> QED
    BY <2>1, <2>2, <1>2, ClosingInv
<1>12. CASE ReadOther
  BY <1>12, HandleFrameInv DEF ReadOther
<1>13. CASE RejectFrame
  <2>1. /\ Pending /\ Consume(0) /\ pc' = "closed" /\ UNCHANGED <<srv, conn, strm>>
    BY <1>13 DEF RejectFrame, Fail
  <2>2. inbox' = Tail(inbox)
    BY <2>1 DEF Consume
  <2> QED
    BY <2>1, <2>2, <1>2, ClosingInv
<1>14. CASE IoFailure
  BY <1>14, ClosingInv DEF IoFailure, Fail
<1> QED
  BY <1>3, <1>4, <1>5, <1>6, <1>7, <1>8, <1>9, <1>10, <1>11, <1>12, <1>13, <1>14
  DEF ClientStep, read_and_ack_settings

(* A new stream starts with nothing in flight, so its two windows agree    *)
(* whatever the connection has carried before.                             *)
LEMMA CallerInv ==
    ASSUME TypeOK, IInv,
           send_request \/ SettingsTimeout \/ UploadTimeout \/ ResponseTimeout
    PROVE  IInv'
<1>1. CASE RefuseRequest
  BY <1>1, ClosingInv DEF RefuseRequest, Fail
<1>2. CASE SettingsTimeout
  BY <1>2, ClosingInv DEF SettingsTimeout, Fail
<1>3. CASE UploadTimeout
  BY <1>3, ClosingInv DEF UploadTimeout, Fail
<1>4. CASE ResponseTimeout
  BY <1>4, ClosingInv DEF ResponseTimeout, Fail
<1>5. ASSUME NEW size \in Bodies, StartRequest(size)
      PROVE  IInv'
  <2>1. /\ conn \in ConnType /\ strm \in StreamType /\ srv \in ServerType
        /\ ledger \in LedgerType
    BY DEF TypeOK
  <2>2. /\ conn'.next = conn.next + 2 /\ conn'.recv_window = conn.recv_window
        /\ conn'.send_window = conn.send_window
        /\ strm'.id = conn.next /\ strm'.recv_window = StreamWindow
        /\ conn.next \in Nat /\ strm.id \in Nat
    BY <2>1, <1>5 DEF StartRequest, ConnType, StreamType
  <2>3. /\ ledger'.stream_allow = StreamWindow
        /\ ledger'.rcvd = ledger.rcvd /\ ledger'.sent = ledger.sent
        /\ ledger'.lost = ledger.lost /\ ledger'.conn_allow = ledger.conn_allow
        /\ ledger'.credit = ledger.credit
        /\ ledger'.granted = ledger.granted /\ ledger'.taken = ledger.taken
    BY <2>1, <1>5 DEF StartRequest, LedgerType
  <2>4. /\ pc = "idle" /\ pc' \in {"response", "upload"} /\ inbox' = inbox
    BY <1>5 DEF StartRequest
  <2>5. strm.id < conn.next /\ ledger.rcvd = ledger.sent
    BY <2>4 DEF IInv, StreamsInOrder, Quiet
  <2>6. Linked'
    BY <2>3, <2>4 DEF IInv, Linked, SentBefore, GrantedBefore
  <2>7. StreamsInOrder'
    <3>1. inbox \in Seq(FrameSet)
      BY DEF TypeOK
    <3>2. ASSUME NEW i \in 1..Len(inbox)
          PROVE  inbox[i].sid <= strm'.id /\ inbox[i].sid # strm'.id
      <4>1. inbox[i] \in FrameSet
        BY <3>1, ElementOfSeq
      <4>2. inbox[i].sid \in Nat
        BY <4>1 DEF FrameSet
      <4>3. inbox[i].sid <= strm.id
        BY DEF IInv, StreamsInOrder
      <4> QED
        BY <4>2, <4>3, <2>2, <2>5
    <3>3. strm'.id < conn'.next /\ strm'.id > 0
      BY <2>2, <2>5
    <3> QED
      BY <3>2, <3>3, <2>4 DEF StreamsInOrder, EndsStream
  <2>8. Quiet'
    BY <2>4 DEF Quiet
  <2>9. Windows'
    BY <2>2, <2>3, <2>4 DEF IInv, Windows
  <2>10. StreamWindows'
    <3>1. StreamWindow - StreamWindow <= StreamWindow \div 2
      BY WindowAssumption
    <3> QED
      BY <3>1, <2>2, <2>3, <2>4, <2>5 DEF StreamWindows
  <2> QED
    BY <2>6, <2>7, <2>8, <2>9, <2>10 DEF IInv
<1> QED
  BY <1>1, <1>2, <1>3, <1>4, <1>5 DEF send_request

(* So does every step of the server.                                       *)
LEMMA ServerInv ==
    ASSUME TypeOK, IInv, ServerStep
    PROVE  IInv'
<1>1. CASE SrvClose
  <2>1. /\ srv'.phase = srv.phase
        /\ UNCHANGED <<pc, conn, strm, block, inbox, ledger>>
    BY <1>1 DEF SrvClose, TypeOK, ServerType
  <2> QED
    BY <2>1 DEF IInv, Linked, StreamsInOrder, Quiet, Windows, StreamWindows,
                SentBefore, GrantedBefore, EndsStream
<1>2. CASE ~SrvClose
  <2>1. PICK f \in FrameSet : Sends(f) /\ LedgerFollows(f) /\ PhaseFollows(f)
    BY <1>2, ServerShape DEF IInv
  <2>2. Linked' /\ StreamsInOrder'
    BY <2>1, SendLinked, SendStreams DEF IInv
  <2>3. /\ UNCHANGED <<pc, conn, strm, block>>
        /\ ledger'.sent = ledger.sent + Bytes(f)
        /\ ledger'.granted = ledger.granted + Credit(f)
        /\ ledger'.rcvd = ledger.rcvd /\ ledger'.taken = ledger.taken
        /\ ledger'.lost = ledger.lost
        /\ ledger'.conn_allow = ledger.conn_allow - Bytes(f)
        /\ ledger'.stream_allow = ledger.stream_allow - Bytes(f)
        /\ ledger'.credit = ledger.credit + Credit(f)
    BY <2>1 DEF Sends, LedgerFollows
  <2>4. /\ ledger.rcvd \in Int /\ ledger.sent \in Int /\ ledger.lost \in Int
        /\ ledger.conn_allow \in Int /\ ledger.stream_allow \in Int
        /\ ledger.credit \in Int /\ ledger.granted \in Int /\ ledger.taken \in Int
    BY DEF TypeOK, LedgerType
  <2>5. Bytes(f) \in Nat /\ Credit(f) \in Nat
    BY DEF FrameSet, Bytes, Credit
  <2>6. Quiet'
    <3>1. srv.phase \in {"none", "done"} =>
             srv'.phase = srv.phase /\ ledger'.sent = ledger.sent
      <4>1. srv.phase \in {"none", "done"} => srv'.phase = srv.phase /\ Bytes(f) = 0
        BY <2>1 DEF PhaseFollows
      <4> QED
        BY <4>1, <2>3, <2>4
    <3> QED
      BY <3>1, <2>3 DEF IInv, Quiet
  <2>7. Windows'
    <3>1. ASSUME pc # "closed"
          PROVE  /\ conn.recv_window + ledger.rcvd
                       = (ledger.conn_allow - Bytes(f)) + (ledger.sent + Bytes(f))
                            + ledger.lost
                 /\ conn.send_window + (ledger.granted + Credit(f))
                       = (ledger.credit + Credit(f)) + ledger.taken
      <4> DEFINE b == Bytes(f)
                 c == Credit(f)
      <4>1. /\ conn.recv_window + ledger.rcvd
                  = ledger.conn_allow + ledger.sent + ledger.lost
            /\ conn.send_window + ledger.granted = ledger.credit + ledger.taken
        BY <3>1 DEF IInv, Windows
      <4>2. b \in Int /\ c \in Int /\ conn.send_window \in Int
        BY <2>5 DEF TypeOK, ConnType
      <4> HIDE DEF b, c
      <4>3. /\ (ledger.conn_allow - b) + (ledger.sent + b) + ledger.lost
                  = ledger.conn_allow + ledger.sent + ledger.lost
        BY <4>2, <2>4
      <4>4. conn.send_window + (ledger.granted + c) = (ledger.credit + c) + ledger.taken
        BY <4>1, <4>2, <2>4
      <4> QED
        BY <4>1, <4>3, <4>4 DEF b, c
    <3> QED
      BY <3>1, <2>3 DEF IInv, Windows
  <2>8. StreamWindows'
    <3>1. (ledger.stream_allow - Bytes(f)) + (ledger.sent + Bytes(f))
             = ledger.stream_allow + ledger.sent
      BY <2>4, <2>5
    <3> QED
      BY <3>1, <2>3 DEF IInv, StreamWindows
  <2> QED
    BY <2>2, <2>6, <2>7, <2>8 DEF IInv
<1> QED
  BY <1>1, <1>2

(* The three facts of the inductive invariant.                             *)
LEMMA InitInv == Init => TypeOK /\ IInv
<1> SUFFICES ASSUME Init
             PROVE  TypeOK /\ IInv
  OBVIOUS
<1> USE WindowAssumption, LimitAssumption
<1>1. /\ pc = "handshake" /\ result = "none" /\ left = 0
      /\ inbox = <<>> /\ pings = 0 /\ ctl = 0
      /\ conn = [next |-> 1, send_window |-> InitSendWindow,
                 recv_window |-> ConnRecvMax, peer_max |-> MinFrame,
                 goaway |-> NoGoAway]
      /\ strm = [id |-> 0, state |-> "idle", send_window |-> 0, recv_window |-> 0]
      /\ resp = [headers |-> "none", body |-> 0]
      /\ block = [len |-> 0, es |-> FALSE, kind |-> "none"]
      /\ srv = [up |-> TRUE, settled |-> FALSE, phase |-> "none", ended |-> FALSE,
                split |-> FALSE, last |-> MaxStreamId, max |-> MinFrame, window |-> 0,
                body |-> 0]
      /\ ledger = [conn_allow |-> ConnRecvMax, stream_allow |-> 0,
                   credit |-> InitSendWindow, stream_credit |-> 0,
                   sent |-> 0, rcvd |-> 0, lost |-> 0, granted |-> 0, taken |-> 0]
  BY DEF Init, handshake
<1>2. inbox \in Seq(FrameSet) /\ Len(inbox) = 0
  BY <1>1
<1>3. conn \in ConnType /\ strm \in StreamType
  BY <1>1 DEF ConnType, StreamType, StreamStates, NoGoAway
<1>4. srv \in ServerType /\ resp \in RespType /\ block \in BlockType
  BY <1>1 DEF ServerType, RespType, BlockType
<1>5. ledger \in LedgerType
  BY <1>1 DEF LedgerType
<1>6. TypeOK
  BY <1>1, <1>2, <1>3, <1>4, <1>5 DEF TypeOK, Pcs, Results
<1>7. /\ ledger.sent = 0 /\ ledger.rcvd = 0 /\ ledger.lost = 0
      /\ ledger.granted = 0 /\ ledger.taken = 0
      /\ ledger.conn_allow = ConnRecvMax /\ ledger.credit = InitSendWindow
      /\ conn.next = 1 /\ conn.recv_window = ConnRecvMax
      /\ conn.send_window = InitSendWindow
      /\ strm.id = 0 /\ srv.phase = "none"
  BY <1>1
<1>8. ConnRecvMax - ConnRecvMax <= ConnRecvMax \div 2
  OBVIOUS
<1>9. Linked /\ StreamsInOrder /\ Quiet /\ StreamWindows
  BY <1>1, <1>2, <1>7 DEF Linked, StreamsInOrder, Quiet, StreamWindows
<1>10. Windows
  BY <1>7, <1>8 DEF Windows
<1> QED
  BY <1>6, <1>9, <1>10 DEF IInv

LEMMA NextInv == TypeOK /\ IInv /\ [Next]_vars => (TypeOK /\ IInv)'
<1> SUFFICES ASSUME TypeOK, IInv, [Next]_vars
             PROVE  (TypeOK /\ IInv)'
  OBVIOUS
<1>1. CASE ClientStep
  BY <1>1, ClientTypes, ClientInv
<1>2. CASE send_request \/ SettingsTimeout \/ UploadTimeout \/ ResponseTimeout
  BY <1>2, CallerTypes, CallerInv
<1>3. CASE ServerStep
  BY <1>3, ServerTypes, ServerInv DEF IInv
<1>4. CASE UNCHANGED vars
  <2>1. TypeOK'
    BY <1>4 DEF vars, TypeOK
  <2>2. IInv'
    BY <1>4 DEF vars, IInv, Linked, StreamsInOrder, Quiet, Windows, StreamWindows,
                SentBefore, GrantedBefore, EndsStream
  <2> QED
    BY <2>1, <2>2
<1> QED
  BY <1>1, <1>2, <1>3, <1>4 DEF Next, Dropped

LEMMA Inductive == Spec => [](TypeOK /\ IInv)
BY InitInv, NextInv, PTL DEF Spec

-----------------------------------------------------------------------------
(* The state always has its types: no send window wraps below zero, the    *)
(* connection's never passes the largest window, and the peer's frame size *)
(* stays in the legal range (connection.rs:97-109, 144-153, 211-228).      *)
THEOREM TypeCorrect == Spec => []TypeOK
BY Inductive, PTL

(* The connection's receive window is what the server may still send, what *)
(* is in flight and what was dropped unread (connection.rs:284-324).       *)
THEOREM WindowsAgree == Spec => []ReceiveWindowsAgree
<1>1. TypeOK /\ IInv => ReceiveWindowsAgree
  <2> SUFFICES ASSUME TypeOK, IInv, pc # "closed"
               PROVE  conn.recv_window = ledger.conn_allow + InFlight + ledger.lost
    BY DEF ReceiveWindowsAgree
  <2>1. /\ ledger.conn_allow \in Int /\ ledger.sent \in Int /\ ledger.rcvd \in Int
        /\ ledger.lost \in Int /\ conn.recv_window \in Int
    BY DEF TypeOK, LedgerType, ConnType
  <2>2. conn.recv_window + ledger.rcvd
           = ledger.conn_allow + ledger.sent + ledger.lost
    BY DEF IInv, Windows
  <2> QED
    BY <2>1, <2>2 DEF InFlight
<1> QED
  BY <1>1, Inductive, PTL

(* While no DATA is dropped, a client waiting on a drained socket has left *)
(* the server credit on both levels (connection.rs:303-318).               *)
LEMMA CreditIsLeft ==
    TypeOK /\ IInv /\ (pc # "closed" => ledger.lost = 0) => NoReceiveStall
<1> SUFFICES ASSUME TypeOK, IInv, pc \in {"response", "continuation"},
                    ~Pending, ledger.lost = 0
             PROVE  ledger.conn_allow > 0 /\ ledger.stream_allow > 0
  BY DEF NoReceiveStall
<1>1. /\ ledger.conn_allow \in Int /\ ledger.sent \in Int /\ ledger.rcvd \in Int
      /\ ledger.stream_allow \in Int
      /\ conn.recv_window \in Int /\ strm.recv_window \in Int
  BY DEF TypeOK, LedgerType, ConnType, StreamType
<1>2. ledger.rcvd = ledger.sent
  BY DEF IInv, Linked, Pending
<1>3. conn.recv_window = ledger.conn_allow
  <2>1. conn.recv_window + ledger.rcvd = ledger.conn_allow + ledger.sent + 0
    BY DEF IInv, Windows
  <2> QED
    BY <2>1, <1>1, <1>2
<1>4. strm.recv_window = ledger.stream_allow
  <2>1. strm.recv_window + ledger.rcvd = ledger.stream_allow + ledger.sent
    BY DEF IInv, StreamWindows
  <2> QED
    BY <2>1, <1>1, <1>2
<1>5. /\ ConnRecvMax - conn.recv_window <= ConnRecvMax \div 2
      /\ StreamWindow - strm.recv_window <= StreamWindow \div 2
  BY DEF IInv, Windows, StreamWindows
<1>6. ConnRecvMax \div 2 < ConnRecvMax /\ StreamWindow \div 2 < StreamWindow
  BY WindowAssumption
<1> QED
  BY <1>1, <1>3, <1>4, <1>5, <1>6, WindowAssumption

(* The upload stays within the connection credit the server has granted,   *)
(* however updates and chunks interleave (connection.rs:206-240).          *)
THEOREM CreditNeverExceeded == Spec => []UploadWithinCredit
<1>1. TypeOK /\ IInv => UploadWithinCredit
  <2> SUFFICES ASSUME TypeOK, IInv, pc # "closed"
               PROVE  ledger.credit >= 0
    BY DEF UploadWithinCredit
  <2>1. /\ ledger.credit \in Int /\ ledger.granted \in Int /\ ledger.taken \in Int
        /\ conn.send_window \in Int /\ conn.send_window >= 0
    BY WindowAssumption DEF TypeOK, LedgerType, ConnType
  <2>2. conn.send_window + ledger.granted = ledger.credit + ledger.taken
    BY DEF IInv, Windows
  <2>3. ledger.taken <= ledger.granted
    BY DEF IInv, Linked
  <2> QED
    BY <2>1, <2>2, <2>3
<1> QED
  BY <1>1, Inductive, PTL
=============================================================================
