------------------------------- MODULE Hpack -------------------------------
(***************************************************************************)
(* crates/h2/src/hpack.rs on one HTTP/2 connection: ChromeEncoder turns    *)
(* the header list of a request into a block, StandardDecoder turns the    *)
(* blocks of responses into header lists, and each keeps a dynamic table   *)
(* that has to agree with the one at the other end, which is HpackPeer.    *)
(*                                                                         *)
(* One request runs at a time.  While its body is uploaded, frames are     *)
(* read by handle_frame, which drops a header block without decoding it.   *)
(***************************************************************************)
EXTENDS HpackPeer

CONSTANTS
    RequestLists,   \* header lists that requests carry
    ResponseLists,  \* header lists that servers send
    TableSize,      \* hpack_table_size: 65536, and what our SETTINGS announce
    MAX_TABLE_SIZE_CAP,
    ServerLimits,   \* table sizes of servers: what SETTINGS_HEADER_TABLE_SIZE
                    \* allows our encoder, and what their own encoder uses
    Updates,        \* sizes that size updates of servers announce
    Garbage,        \* what a block that is no encoding of anything stands for
    MaxRequests,    \* bound: requests on the connection
    MaxBlocks       \* bound: header blocks that the server sends

ASSUME ListsAssumption ==
    /\ RequestLists \subseteq Seq(Fields) /\ ResponseLists \subseteq Seq(Fields)
    /\ Garbage \notin Seq(Fields)

ASSUME SizesAssumption ==
    MAX_TABLE_SIZE_CAP \in 0..65536 /\ TableSize \in 0..MAX_TABLE_SIZE_CAP

ASSUME ServersAssumption ==
    /\ ServerLimits \subseteq [dec: Nat, enc: 0..TableSize]
    /\ Updates \subseteq 0..TableSize

ASSUME BoundsAssumption == MaxRequests \in Nat /\ MaxBlocks \in Nat

VARIABLES
    pc,         \* where send_request awaits: "idle", "upload", "response", "dropped"
    enc,        \* ChromeEncoder::dyn_table
    dec,        \* StandardDecoder::dyn_table
    resp_headers,
    up,         \* the blocks on their way to the server
    down,       \* the blocks on their way to the client
    skipped,    \* has handle_frame dropped a block?
    sent,       \* requests so far
    srv         \* the server: its tables, the request it got, its answer

vars == <<pc, enc, dec, resp_headers, up, down, skipped, sent, srv>>

-----------------------------------------------------------------------------
(* The dynamic table *)

(* A search returns the index of the first entry that it finds, or 0. *)
static_find_exact(f) == SelectInSeq(STATIC_TABLE, LAMBDA e : e = f)
static_find_name(f) == SelectInSeq(STATIC_TABLE, LAMBDA e : e[1] = f[1])

(* Mutant: a field with the same name and another value is taken for it. *)
FindByName(table, f) == SelectInSeq(table.entries, LAMBDA e : e[1] = f[1])

find_exact(table, f) == SelectInSeq(table.entries, LAMBDA e : e = f)
find_name(table, f) == SelectInSeq(table.entries, LAMBDA e : e[1] = f[1])

new(max) == [entries |-> <<>>, size |-> 0, max_size |-> max]

Pop(t) == [entries |-> Front(t.entries), size |-> t.size - Weight[Last(t.entries)],
           max_size |-> t.max_size]

(* Mutant: the new entry is forgotten when room is made. *)
EvictOneLazy(t, room) ==
    IF t.size > t.max_size /\ t.entries # <<>> THEN Pop(t) ELSE t

(* A turn of the while loops of insert and set_max. *)
EvictOne(t, room) ==
    IF t.size + room > t.max_size /\ t.entries # <<>> THEN Pop(t) ELSE t

(* At most one turn per entry. *)
Evict(table, room) ==
    LET turn[n \in 0..Len(table.entries)] ==
            IF n = 0 THEN table ELSE EvictOne(turn[n - 1], room)
    IN turn[Len(table.entries)]

(* Mutant: the entry goes to the end. *)
InsertLast(table, f) ==
    LET evicted == Evict(table, Weight[f]) IN
    IF Weight[f] > table.max_size THEN evicted
    ELSE [evicted EXCEPT !.entries = Append(@, f), !.size = @ + Weight[f]]

insert(table, f) ==
    LET evicted == Evict(table, Weight[f]) IN
    IF Weight[f] > table.max_size THEN evicted
    ELSE [entries |-> <<f>> \o evicted.entries, size |-> evicted.size + Weight[f],
          max_size |-> table.max_size]

set_max(table, n) ==
    Evict([table EXCEPT !.max_size = Min({n, MAX_TABLE_SIZE_CAP})], 0)

-----------------------------------------------------------------------------
(* Numbers *)

(* A turn of the loop of encode_int. *)
PutOctet(s) ==
    IF s.val < 128 THEN s
    ELSE [block |-> Append(s.block, Octet((s.val % 128) + 128)), val |-> s.val \div 128]

(* Three turns are enough for an index, and more. *)
encode_int(n, prefix, mask) ==
    IF n < Full(prefix) THEN <<Octet(mask + n)>>
    ELSE LET s == PutOctet(PutOctet(PutOctet(
                    [block |-> <<Octet(mask + Full(prefix))>>, val |-> n - Full(prefix)])))
         IN Append(s.block, Octet(s.val))

(* Mutant: a number that is cut off is taken as it is. *)
ReadOctetToEnd(data, s) ==
    IF s.pos > Len(data) THEN [s EXCEPT !.more = FALSE]
    ELSE LET b == data[s.pos].octet IN
         [pos |-> s.pos + 1, shift |-> s.shift + 7, more |-> b >= 128,
          val |-> s.val + (b % 128) * 2^s.shift,
          ok |-> b < 128 \/ s.shift + 7 <= 28]

(* The loop of decode_int, one octet a turn. *)
ReadOctet(data, s) ==
    IF s.pos > Len(data) THEN [s EXCEPT !.ok = FALSE, !.more = FALSE]
    ELSE LET b == data[s.pos].octet IN
         [pos |-> s.pos + 1, shift |-> s.shift + 7, more |-> b >= 128,
          val |-> s.val + (b % 128) * 2^s.shift,
          ok |-> b < 128 \/ s.shift + 7 <= 28]

ReadMore(data, s) == IF s.ok /\ s.more THEN ReadOctet(data, s) ELSE s

(* Five turns at most: the fifth octet ends the number, or it is refused. *)
decode_int(data, pos, prefix) ==
    LET val == data[pos].octet % 2^prefix
        first == [ok |-> TRUE, pos |-> pos + 1, val |-> val, shift |-> 0,
                  more |-> val = Full(prefix)]
    IN ReadMore(data, ReadMore(data, ReadMore(data, ReadMore(data, ReadMore(data, first)))))

-----------------------------------------------------------------------------
(* The encoder *)

NEVER_INDEX == {"cookie", "authorization"}
NO_INDEX == {"content-type", "accept", "user-agent", "accept-encoding",
             "accept-language", "referer", "content-length"}

(* Mutant: dynamic indices start one too far. *)
NameIndexFar(table, f) ==
    IF static_find_name(f) # 0 THEN static_find_name(f)
    ELSE IF find_name(table, f) # 0 THEN Len(STATIC_TABLE) + find_name(table, f) + 1
    ELSE 0

NameIndex(table, f) ==
    IF static_find_name(f) # 0 THEN static_find_name(f)
    ELSE IF find_name(table, f) # 0 THEN Len(STATIC_TABLE) + find_name(table, f)
    ELSE 0

Strings(index, f) == IF index = 0 THEN <<Str(f[1]), Str(f[2])>> ELSE <<Str(f[2])>>

LiteralOf(table, f, prefix, mask) ==
    LET index == NameIndex(table, f) IN
    encode_int(index, prefix, mask) \o Strings(index, f)

(* A field: its octets and the table after it. *)
EncodeField(table, f) ==
    CASE static_find_exact(f) # 0 ->
           [table |-> table, block |-> encode_int(static_find_exact(f), 7, 128)]
      [] static_find_exact(f) = 0 /\ find_exact(table, f) # 0 ->
           [table |-> table,
            block |-> encode_int(Len(STATIC_TABLE) + find_exact(table, f), 7, 128)]
      [] OTHER ->
           CASE f[1] \in NEVER_INDEX ->
                  [table |-> table, block |-> LiteralOf(table, f, 4, 16)]
             [] f[1] \in NO_INDEX ->
                  [table |-> table, block |-> LiteralOf(table, f, 4, 0)]
             [] OTHER ->
                  [table |-> insert(table, f), block |-> LiteralOf(table, f, 6, 64)]

EncodeNext(s, f) ==
    LET e == EncodeField(s.table, f) IN
    [table |-> e.table, block |-> s.block \o e.block]

encode(table, headers) ==
    LET turn[n \in 0..Len(headers)] ==
            IF n = 0 THEN [table |-> table, block |-> <<>>]
            ELSE EncodeNext(turn[n - 1], headers[n])
    IN turn[Len(headers)]

-----------------------------------------------------------------------------
(* The decoder *)

Refused(s) == [ok |-> FALSE, pos |-> s.pos, headers |-> s.headers, table |-> s.table]

get_entry(table, index) ==
    IF index <= Len(STATIC_TABLE) THEN STATIC_TABLE[index] ELSE table.entries[index - Len(STATIC_TABLE)]

Indexed(table, index) == index \in 1..Len(STATIC_TABLE) + Len(table.entries)

(* A string that is missing, or not UTF-8. *)
Readable(data, pos) == pos <= Len(data) /\ data[pos] # Str("garbled")

(* A literal that ends before pos, put into the list, and into the table or not. *)
PutField(s, pos, f, indexed) ==
    [ok |-> TRUE, pos |-> pos, headers |-> Append(s.headers, f),
     table |-> IF indexed THEN insert(s.table, f) ELSE s.table]

(* The number at the start of a literal and the strings after it.  The      *)
(* name is looked up before the insertion moves the entries.                *)
DecodeLiteral(data, s, prefix, indexed) ==
    LET int == decode_int(data, s.pos, prefix) IN
    IF ~int.ok THEN Refused(s)
    ELSE IF int.val = 0
    THEN IF Readable(data, int.pos) /\ Readable(data, int.pos + 1)
         THEN PutField(s, int.pos + 2, <<data[int.pos].str, data[int.pos + 1].str>>, indexed)
         ELSE Refused(s)
    ELSE IF Indexed(s.table, int.val) /\ Readable(data, int.pos)
         THEN PutField(s, int.pos + 1,
                       <<get_entry(s.table, int.val)[1], data[int.pos].str>>, indexed)
         ELSE Refused(s)

DecodeIndexed(data, s) ==
    LET int == decode_int(data, s.pos, 7) IN
    IF ~int.ok \/ ~Indexed(s.table, int.val) THEN Refused(s)
    ELSE [ok |-> TRUE, pos |-> int.pos, table |-> s.table,
          headers |-> Append(s.headers, get_entry(s.table, int.val))]

DecodeSizeUpdate(data, s) ==
    LET int == decode_int(data, s.pos, 5) IN
    IF ~int.ok THEN Refused(s)
    ELSE [ok |-> TRUE, pos |-> int.pos, headers |-> s.headers,
          table |-> set_max(s.table, int.val)]

DecodeField(data, s) ==
    LET byte == data[s.pos].octet IN
    CASE byte >= 128 -> DecodeIndexed(data, s)
      [] byte \in 64..127 -> DecodeLiteral(data, s, 6, TRUE)
      [] byte \in 32..63 -> DecodeSizeUpdate(data, s)
      [] OTHER -> DecodeLiteral(data, s, 4, FALSE)

DecodeNext(data, s) == IF s.ok /\ s.pos <= Len(data) THEN DecodeField(data, s) ELSE s

decode(table, data) ==
    LET turn[n \in 0..Len(data)] ==
            IF n = 0 THEN [ok |-> TRUE, pos |-> 1, headers |-> <<>>, table |-> table]
            ELSE DecodeNext(data, turn[n - 1])
    IN turn[Len(data)]

-----------------------------------------------------------------------------
(* The client.  A block carries the list it stands for; only the properties *)
(* look at it.                                                              *)

Drop ==
    /\ pc' = "dropped" /\ up' = <<>> /\ down' = <<>>
    /\ UNCHANGED <<enc, dec, resp_headers, skipped, sent>>

send_request(headers, has_body) ==
    /\ pc = "idle" /\ sent < MaxRequests
    /\ LET e == encode(enc, headers) IN
       enc' = e.table /\ up' = <<[block |-> e.block, headers |-> headers]>>
    /\ pc' = IF has_body THEN "upload" ELSE "response"
    /\ sent' = sent + 1
    /\ UNCHANGED <<dec, resp_headers, down, skipped, srv>>

(* A header block that arrives while the upload waits for credit. *)
handle_frame ==
    /\ pc = "upload" /\ down # <<>>
    /\ down' = Tail(down) /\ skipped' = TRUE
    /\ UNCHANGED <<pc, enc, dec, resp_headers, up, sent, srv>>

UploadDone ==
    /\ pc = "upload" /\ pc' = "response"
    /\ UNCHANGED <<enc, dec, resp_headers, up, down, skipped, sent, srv>>

(* Interim responses, the response and its trailers are decoded alike; an  *)
(* error of the decoder is the end of the connection.                      *)
ReadHeaders ==
    /\ pc = "response" /\ down # <<>>
    /\ LET d == decode(dec, Head(down).block) IN
       IF d.ok
       THEN /\ dec' = d.table /\ resp_headers' = d.headers
            /\ down' = Tail(down)
            /\ pc' = IF Head(down).end THEN "idle" ELSE "response"
            /\ UNCHANGED <<enc, up, skipped, sent, srv>>
       ELSE Drop /\ UNCHANGED srv

(* The server is silent: for want of a request, or after a dropped END_STREAM. *)
Timeout ==
    /\ pc \in {"upload", "response"} /\ down = <<>>
    /\ Drop /\ UNCHANGED srv

(* No more requests, or no connection. *)
Rest == pc \in {"idle", "dropped"} /\ UNCHANGED vars

-----------------------------------------------------------------------------
(* The server *)

SrvRequest ==
    /\ up # <<>>
    /\ LET d == PeerDecode(srv.dec, Head(up).block) IN
       IF d.ok
       THEN /\ srv' = [srv EXCEPT !.dec = d.table, !.request = d.headers,
                                  !.answers = TRUE]
            /\ up' = Tail(up)
            /\ UNCHANGED <<pc, enc, dec, resp_headers, down, skipped, sent>>
       ELSE Drop /\ srv' = [srv EXCEPT !.dec = d.table, !.refused = TRUE]

Answering == srv.answers /\ pc # "dropped" /\ srv.blocks < MaxBlocks

(* Any encoding of the list, after a size update or not. *)
SrvResponse(headers, end) ==
    /\ Answering
    /\ \E start \in {[table |-> srv.enc, block |-> <<>>]}
                      \cup {SizeUpdate(srv.enc, n) : n \in Updates} :
       \E e \in PeerEncode({start}, headers) :
          /\ down' = Append(down, [block |-> e.block, headers |-> headers, end |-> end])
          /\ srv' = [srv EXCEPT !.enc = e.table, !.answers = ~end,
                                !.blocks = @ + 1]
    /\ UNCHANGED <<pc, enc, dec, resp_headers, up, skipped, sent>>

(* Blocks that are no encoding: index 0; an index past every entry of every  *)
(* table; a number or a string cut off; a string that is not UTF-8; a number *)
(* of too many octets.                                                       *)
Malformed ==
    {<<Octet(128)>>, PeerInt(Len(STATIC_TABLE) + TableSize + 1, 7, 128),
     <<Octet(63)>>, <<Octet(126)>>, <<Octet(64), Str("x-new"), Str("garbled")>>,
     <<Octet(63)>> \o [i \in 1..5 |-> Octet(128)] \o <<Octet(0)>>}

(* Garbage comes alone: what is in front of it would be decoded first. *)
SrvGarbage(block) ==
    /\ Answering /\ down = <<>>
    /\ down' = Append(down, [block |-> block, headers |-> Garbage, end |-> TRUE])
    /\ srv' = [srv EXCEPT !.answers = FALSE, !.blocks = @ + 1]
    /\ UNCHANGED <<pc, enc, dec, resp_headers, up, skipped, sent>>

-----------------------------------------------------------------------------
Init ==
    /\ pc = "idle" /\ enc = new(TableSize) /\ dec = new(TableSize)
    /\ resp_headers = <<>> /\ up = <<>> /\ down = <<>>
    /\ skipped = FALSE /\ sent = 0
    /\ \E limits \in ServerLimits :
          srv = [dec |-> PeerTable(limits.dec), enc |-> PeerTable(limits.enc),
                 request |-> <<>>, answers |-> FALSE, blocks |-> 0,
                 refused |-> FALSE]

Next ==
    \/ \E headers \in RequestLists, has_body \in BOOLEAN :
          send_request(headers, has_body)
    \/ handle_frame \/ UploadDone \/ ReadHeaders \/ Timeout \/ Rest
    \/ SrvRequest
    \/ \E headers \in ResponseLists, end \in BOOLEAN : SrvResponse(headers, end)
    \/ \E block \in Malformed : SrvGarbage(block)

Spec == Init /\ [][Next]_vars
-----------------------------------------------------------------------------
(* Properties *)

Sound(table) ==
    /\ table.entries \in Seq(Fields)
    /\ table.size = SizeOf(table.entries)
    /\ table.size <= table.max_size /\ table.max_size <= MAX_TABLE_SIZE_CAP

(* Type correctness; the size that DynTable keeps is that of its entries    *)
(* and within its limit, whatever is inserted and however it is resized.    *)
TypeOK ==
    /\ pc \in {"idle", "upload", "response", "dropped"}
    /\ Sound(enc) /\ Sound(dec)
    /\ resp_headers \in Seq(Fields)
    /\ skipped \in BOOLEAN /\ sent \in 0..MaxRequests

Broken == IF pc = "dropped" THEN "broken" ELSE "intact"
HeadersOf(blocks) == [i \in DOMAIN blocks |-> blocks[i].headers]

(* Encoder and server: a request reaches the server with the headers the    *)
(* caller gave, or the connection breaks, and this for servers with a       *)
(* smaller table than ours as well, of which the encoder takes no notice.   *)
Requests == INSTANCE HeaderChannel WITH
    Lists <- Seq(Fields), Skippable <- FALSE,
    queue <- HeadersOf(up), got <- srv.request, state <- Broken
RequestsArrive == Requests!Spec

(* Server and decoder: response headers are decoded to what the server       *)
(* sent, whichever encoding it chose and however it resized its table, and   *)
(* what is no encoding breaks the connection, until handle_frame drops a     *)
(* block undecoded: after that they may be decoded to anything.              *)
Responses == INSTANCE HeaderChannel WITH
    Lists <- Seq(Fields), Skippable <- TRUE,
    queue <- HeadersOf(down), got <- resp_headers,
    state <- IF Broken = "intact" /\ skipped THEN "skewed" ELSE Broken
ResponsesArrive == Responses!Spec

(* Between two blocks an index that both ends know means the same entry to   *)
(* both, though their tables may have different sizes: the smaller table is  *)
(* a prefix of the larger one.  An entry too large for one of them empties   *)
(* that one, and the prefix is empty.                                        *)
IndicesAgree ==
    pc # "dropped" =>
       /\ up = <<>> => IF srv.dec.max <= TableSize
                       THEN IsPrefix(srv.dec.entries, enc.entries)
                       ELSE IsPrefix(enc.entries, srv.dec.entries)
       /\ down = <<>> /\ ~skipped => IsPrefix(srv.enc.entries, dec.entries)

(* A server refuses a block of the encoder only if its table is smaller than *)
(* the encoder's and has overflowed.                                         *)
RefusedOnlyWhenFull ==
    srv.refused => srv.dec.max < TableSize /\ srv.dec.evicted
=============================================================================
