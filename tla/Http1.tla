------------------------------- MODULE Http1 -------------------------------
(***************************************************************************)
(* The HTTP/1.1 exchange of crates/client: requests on one kept-alive       *)
(* connection, and responses framed by chunks, by Content-Length or by the  *)
(* end of the connection, read from a byte stream that arrives in pieces.   *)
(*                                                                          *)
(* The stream is a sequence of tokens that the reader treats as a unit: a   *)
(* header line, the rest of a header section with its blank line, a chunk   *)
(* size line, a body byte, the text of a trailer line, a CRLF.  A read      *)
(* takes any part of what has arrived, up to its buffer, and one action of  *)
(* the client ends where the code awaits the next read.  A read that ends   *)
(* inside a token leaves what one before or behind it leaves: half a CRLF   *)
(* is passed over like a whole one.  What an exchange has read and not used *)
(* is dropped with its buffer.                                              *)
(***************************************************************************)
EXTENDS Integers, Sequences, FiniteSetsExt

CONSTANTS
    Methods,            \* request methods callers use
    Lengths,            \* body lengths servers send
    MaxHead,            \* 131072, in tokens: the header section limit
    ReadSize,           \* 4096 and 8192, in tokens: what one read may return
    BodylessHeaders,    \* may a response without a body announce a length?
    InterimStatuses,    \* {"interim"} if 1xx responses may come first, or {}
    MaxLines,           \* bound: header lines of a response
    MaxRequests,        \* bound: requests on the connection
    MaxWire             \* bound: tokens the server has sent ahead

ASSUME Http1Assumption ==
    /\ Lengths \subseteq Nat /\ MaxHead \in Nat /\ ReadSize \in Nat \ {0}
    /\ BodylessHeaders \in BOOLEAN /\ InterimStatuses \subseteq {"interim"}
    /\ MaxLines \in Nat /\ MaxRequests \in Nat /\ MaxWire \in Nat

VARIABLES
    pc,         \* where execute_h1 awaits; "idle" in the pool
    method,     \* method of the current request
    req,        \* number of the current request
    buf,        \* buf, body_buf and raw: what is read and not yet used
    head,       \* the parsed header section
    need,       \* chunk_size
    body,       \* output, or the body returned
    result,     \* what the exchange returned, and whether it was kept alive
    wire,       \* tokens sent and not yet read
    srv,        \* the server's progress on the request it answers
    asked,      \* requests the server has: the one it answers, and later ones
    blank       \* a history: was a blank line taken for a header section?

vars == <<pc, method, req, buf, head, need, body, result, wire, srv, asked, blank>>

-----------------------------------------------------------------------------
(* Tokens *)

Line == [t |-> "line"]
Crlf == [t |-> "crlf"]
Trailer == [t |-> "trailer"]
Size(n) == [t |-> "size", n |-> n]
Data(r) == [t |-> "data", req |-> r]
Framings == {"chunked", "length", "none"}
Heads == [t: {"head"}, req: Nat, status: {"interim", "final", "bodyless"},
          framing: Framings, len: Nat, close: BOOLEAN]
NoHead == [t |-> "none"]

(* What execute_h1 makes of a section that is a blank line: httparse calls  *)
(* it partial, which is no error, and has neither status nor headers.       *)
Blank == [t |-> "blank", req |-> 0, status |-> "zero",
          framing |-> "none", len |-> 0, close |-> FALSE]

-----------------------------------------------------------------------------
(* The client *)

Reading == pc \in {"head", "size", "chunk", "length", "close"}

(* Two CRLF in a row end a header section: those of a response, and those  *)
(* of a trailer section left over from the exchange before, with its last  *)
(* line or without.                                                        *)
HeaderEnds(b) ==
    {i \in DOMAIN b : \/ b[i].t = "head"
                      \/ b[i].t = "crlf" /\ i > 1 /\ b[i - 1].t = "crlf"}

find_header_end(b) == Min(HeaderEnds(b))

After(b, i) == SubSeq(b, i + 1, Len(b))

(* Mutant: header sections of any size are read. *)
HeadOfAnySize == FALSE

HeadTooLarge == HeaderEnds(buf) = {} /\ Len(buf) > MaxHead

(* Mutants: one byte too few, or one too many, is waited for. *)
LengthMetShort == Len(buf) + 1 >= head.len
LengthMetLate == Len(buf) > head.len

LengthMet == Len(buf) >= head.len

ChunkMet == Len(buf) >= need + 1

Fail ==
    /\ pc' = "dropped" /\ result' = "error"
    /\ buf' = <<>>
    /\ UNCHANGED <<method, req, head, need, body, wire, srv, asked, blank>>

Finish(bytes, keep_alive) ==
    /\ pc' = IF keep_alive THEN "idle" ELSE "dropped"
    /\ result' = "ok" /\ body' = bytes
    /\ buf' = <<>>

(* A server begins to answer a request. *)
Begun == [srv EXCEPT !.phase = "requested", !.lines = 0, !.total = 0,
                     !.left = 0, !.framing = "none"]

(* The request is written; a pooled connection may be closed by then, or   *)
(* the server may still have the request before to answer.                 *)
Request(m) ==
    /\ pc = "idle" /\ req < MaxRequests
    /\ method' = m /\ req' = req + 1
    /\ pc' = "head" /\ result' = "none"
    /\ buf' = <<>> /\ body' = <<>> /\ need' = 0 /\ head' = NoHead
    /\ LET ask == [req |-> req + 1, method |-> m] IN
       IF srv.phase = "done" \/ ~srv.up
       THEN srv' = Begun /\ asked' = <<ask>>
       ELSE srv' = srv /\ asked' = Append(asked, ask)
    /\ UNCHANGED <<wire, blank>>

WriteFails == pc = "head" /\ buf = <<>> /\ ~srv.up /\ Fail

(* The loop that waits needs more than it has. *)
Starved ==
    \/ pc = "head" /\ HeaderEnds(buf) = {} /\ ~HeadTooLarge
    \/ pc = "size" /\ buf = <<>>
    \/ pc = "chunk" /\ ~ChunkMet
    \/ pc = "length" /\ ~LengthMet
    \/ pc = "close"

Read ==
    /\ Starved /\ wire # <<>>
    /\ \E k \in 1..Min({ReadSize, Len(wire)}) :
          /\ buf' = buf \o SubSeq(wire, 1, k)
          /\ wire' = After(wire, k)
    /\ UNCHANGED <<pc, method, req, head, need, body, result, srv, asked, blank>>

(* A read returns an error: the connection was reset, or TLS was cut off.  *)
ReadFails == Starved /\ ~srv.up /\ Fail

(* A read returns no bytes: the server closed.  Between header lines and   *)
(* inside chunks that is an error, elsewhere it ends the body.             *)
ReadEnd ==
    /\ Starved /\ wire = <<>> /\ ~srv.up
    /\ \/ pc \in {"head", "size", "chunk"} /\ Fail
       \/ /\ pc = "length"
          /\ Finish(buf, ~head.close)
          /\ UNCHANGED <<method, req, head, need, wire, srv, asked, blank>>
       \/ /\ pc = "close"
          /\ Finish(buf, FALSE)
          /\ UNCHANGED <<method, req, head, need, wire, srv, asked, blank>>

RefuseHead == pc = "head" /\ HeadTooLarge /\ Fail

(* httparse passes over empty lines before the status line, and refuses    *)
(* anything else there.                                                    *)
Parses(b, end) == \A i \in 1..end - 1 : b[i].t \in {"crlf", "line"}

Section(b, end) == IF b[end].t = "head" THEN b[end] ELSE Blank

(* Chunked wins over Content-Length, and both over method and status. *)
ParseHead ==
    /\ pc = "head" /\ HeaderEnds(buf) # {}
    /\ LET end == find_header_end(buf)
           h == Section(buf, end)
           rest == After(buf, end)
       IN \/ ~Parses(buf, end) /\ Fail
          \/ /\ Parses(buf, end)
             /\ head' = h
             /\ \/ /\ h.framing # "none"
                   /\ pc' = IF h.framing = "chunked" THEN "size" ELSE "length"
                   /\ buf' = rest
                   /\ UNCHANGED <<body, result>>
                \/ /\ h.framing = "none"
                   /\ method = "HEAD" \/ h.status = "bodyless"
                   /\ Finish(<<>>, ~h.close)
                \/ /\ h.framing = "none"
                   /\ method # "HEAD" /\ h.status # "bodyless"
                   /\ pc' = "close" /\ buf' = rest
                   /\ UNCHANGED <<body, result>>
             /\ blank' = (blank \/ h = Blank)
             /\ UNCHANGED <<method, req, need, wire, srv, asked>>

(* Mutant: the CRLF after a chunk is taken for data. *)
ChunkWithCrlf == SubSeq(buf, 1, need + 1)

Chunk == SubSeq(buf, 1, need)

Truncated(b, n) == SubSeq(b, 1, Min({n, Len(b)}))

ReadSizeLine ==
    /\ pc = "size" /\ buf # <<>>
    /\ \/ Head(buf).t # "size" /\ Fail
       \/ /\ Head(buf).t = "size"
          /\ IF Head(buf).n = 0
             THEN Finish(body, ~head.close) /\ UNCHANGED need
             ELSE /\ need' = Head(buf).n /\ pc' = "chunk"
                  /\ buf' = Tail(buf)
                  /\ UNCHANGED <<body, result>>
          /\ UNCHANGED <<method, req, head, wire, srv, asked, blank>>

ReadChunk ==
    /\ pc = "chunk" /\ ChunkMet
    /\ body' = body \o Chunk
    /\ buf' = After(buf, need + 1)
    /\ pc' = "size"
    /\ UNCHANGED <<method, req, head, need, result, wire, srv, asked, blank>>

ReadLength ==
    /\ pc = "length" /\ LengthMet
    /\ Finish(Truncated(buf, head.len), ~head.close)
    /\ UNCHANGED <<method, req, head, need, wire, srv, asked, blank>>

ClientStep ==
    \/ WriteFails \/ Read \/ ReadFails \/ ReadEnd \/ RefuseHead \/ ParseHead
    \/ ReadSizeLine \/ ReadChunk \/ ReadLength

-----------------------------------------------------------------------------
(* The server *)

Asked == Head(asked)

Send(tokens) ==
    /\ srv.up /\ Len(wire) + Len(tokens) <= MaxWire
    /\ wire' = wire \o tokens
    /\ UNCHANGED <<pc, method, req, buf, head, need, body, result, asked, blank>>

(* It answers requests in turn. *)
SrvNext ==
    /\ srv.up /\ srv.phase = "done" /\ Len(asked) > 1
    /\ srv' = Begun /\ asked' = Tail(asked)
    /\ UNCHANGED <<pc, method, req, buf, head, need, body, result, wire, blank>>

SrvLine ==
    /\ srv.phase = "requested" /\ srv.lines < MaxLines
    /\ Send(<<Line>>)
    /\ srv' = [srv EXCEPT !.lines = @ + 1]

(* A response without a body, to HEAD or of status 204 or 304, may carry   *)
(* the header fields the response to GET would have; an interim response   *)
(* is followed by another one.                                             *)
SrvBodyless(status, framing, n, close) ==
    /\ srv.phase = "requested"
    /\ status = "final" => Asked.method = "HEAD"
    /\ status = "interim" => srv.lines < MaxLines
    /\ framing # "none" => BodylessHeaders
    /\ Send(<<[t |-> "head", req |-> Asked.req, status |-> status,
               framing |-> framing, len |-> n, close |-> close]>>)
    /\ srv' = IF status = "interim" THEN [srv EXCEPT !.lines = @ + 1]
              ELSE [srv EXCEPT !.phase = "done", !.framing = framing]

(* With the last byte sent, closing may remain to be done. *)
Sent(framing) == IF framing = "none" THEN "closing" ELSE "done"

SrvHead(framing, n, close) ==
    /\ srv.phase = "requested" /\ Asked.method # "HEAD"
    /\ Send(<<[t |-> "head", req |-> Asked.req, status |-> "final",
               framing |-> framing, len |-> n, close |-> close]>>)
    /\ srv' = [srv EXCEPT !.total = n, !.left = n, !.framing = framing,
                  !.phase = IF framing = "chunked" \/ n > 0 THEN "body"
                            ELSE Sent(framing)]

SrvData ==
    /\ srv.phase = "body" /\ srv.framing # "chunked"
    /\ Send(<<Data(Asked.req)>>)
    /\ srv' = [srv EXCEPT !.left = @ - 1,
                          !.phase = IF srv.left = 1 THEN Sent(srv.framing) ELSE "body"]

SrvChunk ==
    /\ srv.phase = "body" /\ srv.framing = "chunked"
    /\ \E n \in 1..srv.left :
          /\ Send(<<Size(n)>> \o [i \in 1..n |-> Data(Asked.req)] \o <<Crlf>>)
          /\ srv' = [srv EXCEPT !.left = @ - n]

SrvLastChunk ==
    /\ srv.phase = "body" /\ srv.framing = "chunked" /\ srv.left = 0
    /\ Send(<<Size(0), Crlf>>) \/ Send(<<Size(0), Trailer, Crlf, Crlf>>)
    /\ srv' = [srv EXCEPT !.phase = "done"]

(* At any time: a crash, an idle timeout, the end of the last response. *)
SrvClose ==
    /\ srv.up
    /\ srv' = [srv EXCEPT !.up = FALSE,
                  !.phase = IF srv.phase = "closing" THEN "done" ELSE srv.phase]
    /\ UNCHANGED <<pc, method, req, buf, head, need, body, result, wire, asked, blank>>

ServerStep ==
    \/ SrvLine
    \/ \E framing \in Framings, n \in Lengths, close \in BOOLEAN :
          \/ SrvHead(framing, n, close)
          \/ \E status \in {"final", "bodyless"} \cup InterimStatuses :
                SrvBodyless(status, framing, n, close)
    \/ SrvData \/ SrvChunk \/ SrvLastChunk \/ SrvNext \/ SrvClose

-----------------------------------------------------------------------------
Init ==
    /\ pc = "idle" /\ method = "GET" /\ req = 0
    /\ buf = <<>> /\ head = NoHead /\ need = 0 /\ body = <<>> /\ result = "none"
    /\ wire = <<>>
    /\ srv = [up |-> TRUE, phase |-> "done", lines |-> 0, total |-> 0,
              left |-> 0, framing |-> "none"]
    /\ asked = <<[req |-> 0, method |-> "GET"]>>
    /\ blank = FALSE

(* The pool keeps the connection as long as nobody asks for it. *)
Rest == pc \in {"idle", "dropped"} /\ UNCHANGED vars

Next == ClientStep \/ ServerStep \/ Rest \/ \E m \in Methods : Request(m)

Spec == Init /\ [][Next]_vars

(* A task whose socket has data or has ended is polled. *)
FairSpec == Spec /\ WF_vars(ClientStep)
-----------------------------------------------------------------------------
(* Properties *)

Tokens == {Line, Crlf, Trailer} \cup [t: {"size"}, n: Nat]
            \cup [t: {"data"}, req: Nat] \cup Heads

(* Type correctness.  A header section is refused before it takes more     *)
(* than the limit and one read.                                            *)
TypeOK ==
    /\ pc \in {"idle", "head", "size", "chunk", "length", "close", "dropped"}
    /\ method \in Methods \cup {"GET"}
    /\ req \in 0..MaxRequests /\ need \in Nat
    /\ buf \in Seq(Tokens) /\ body \in Seq(Tokens) /\ wire \in Seq(Tokens)
    /\ head \in Heads \cup {NoHead, Blank}
    /\ result \in {"none", "ok", "error"}
    /\ srv \in [up: BOOLEAN, phase: {"requested", "body", "closing", "done"},
                lines: 0..MaxLines, total: Nat, left: Nat, framing: Framings]
    /\ asked \in Seq([req: Nat, method: Methods \cup {"GET"}]) /\ asked # <<>>
    /\ blank \in BOOLEAN
    /\ pc = "head" => Len(buf) <= MaxHead + ReadSize

(* Ok is a final response to this request, with body bytes of this request *)
(* and nothing else: all of them, unless the server closed before it had   *)
(* sent them and chunks do not tell.  Excepted is a connection on which a  *)
(* blank line has passed for a header section (see ReuseIsSafe).           *)
WholeResponse ==
    result = "ok" /\ ~blank =>
        /\ head.req = req /\ head.status # "interim"
        /\ \A i \in DOMAIN body : body[i] = Data(req)
        /\ \/ Len(body) = srv.total
           \/ head.framing # "chunked" /\ ~srv.up /\ srv.phase # "done"

(* A connection goes back to the pool only with its body read to the end:  *)
(* what may be left of a response is the end of its last chunk.  The same  *)
(* connections are excepted.                                               *)
AlignedWhenKept ==
    pc = "idle" /\ ~blank => \A i \in DOMAIN wire : wire[i] \in {Crlf, Trailer}

(* The server has sent and done all it will. *)
Answered == (srv.phase = "done" /\ Len(asked) = 1) \/ ~srv.up

(* Once the server has answered, the call returns, however the response    *)
(* was cut into reads, on a connection on which no blank line passed for a *)
(* header section.                                                         *)
ExchangeReturns == (Reading /\ Answered) ~> (~Reading \/ blank)

(* "`keep_alive` indicates whether the connection can be returned to the   *)
(* pool": the next request on a connection that was kept is answered with  *)
(* a status line, and by its own response.                                 *)
ReuseIsSafe ==
    result = "ok" /\ req > 1 => head.t = "head" /\ head.req = req
=============================================================================
