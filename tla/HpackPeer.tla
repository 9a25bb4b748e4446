----------------------------- MODULE HpackPeer -----------------------------
(***************************************************************************)
(* RFC 7541 as the server at the other end follows it: the reference that  *)
(* crates/h2/src/hpack.rs is checked against.  Everything is stated by     *)
(* what it is, not by how it is computed: a table holds the longest prefix *)
(* of its entries that fits, a number is the sum of its octets.            *)
(*                                                                         *)
(* A block is a sequence of octets in which a string, with its length and  *)
(* its Huffman code, is one token.                                         *)
(***************************************************************************)
EXTENDS Integers, SequencesExt

CONSTANTS
    Fields,         \* header fields: pairs of a name and a value
    Weight          \* name.len() + value.len() + 32, for each field

ASSUME WeightAssumption == Weight \in [Fields -> Nat \ {0}]

(* Any value may come with any name; "garbled" is the string of no field. *)
ASSUME FieldsAssumption ==
    \A f, g \in Fields : /\ f = <<f[1], f[2]>> /\ <<f[1], g[2]>> \in Fields
                         /\ f[1] # "garbled" /\ f[2] # "garbled"

(* The static table of Appendix A, the same at both ends. *)
StaticNames ==
    <<"accept-charset", "accept-encoding", "accept-language", "accept-ranges",
      "accept", "access-control-allow-origin", "age", "allow", "authorization",
      "cache-control", "content-disposition", "content-encoding",
      "content-language", "content-length", "content-location",
      "content-range", "content-type", "cookie", "date", "etag", "expect",
      "expires", "from", "host", "if-match", "if-modified-since",
      "if-none-match", "if-range", "if-unmodified-since", "last-modified",
      "link", "location", "max-forwards", "proxy-authenticate",
      "proxy-authorization", "range", "referer", "refresh", "retry-after",
      "server", "set-cookie", "strict-transport-security", "transfer-encoding",
      "user-agent", "vary", "via", "www-authenticate">>

STATIC_TABLE ==
    << <<":authority", "">>, <<":method", "GET">>, <<":method", "POST">>,
       <<":path", "/">>, <<":path", "/index.html">>, <<":scheme", "http">>,
       <<":scheme", "https">>, <<":status", "200">>, <<":status", "204">>,
       <<":status", "206">>, <<":status", "304">>, <<":status", "400">>,
       <<":status", "404">>, <<":status", "500">> >>
    \o [i \in DOMAIN StaticNames |->
          <<StaticNames[i], IF i = 2 THEN "gzip, deflate" ELSE "">>]

Octet(n) == [octet |-> n]
Str(s) == [str |-> s]

(* Prefix of n bits: the largest number it holds is the mark of a longer one. *)
Full(prefix) == 2^prefix - 1

SizeOf(entries) ==
    LET size[n \in 0..Len(entries)] ==
            IF n = 0 THEN 0 ELSE size[n - 1] + Weight[entries[n]]
    IN size[Len(entries)]

(* Eviction from the end of the table. *)
Kept(entries, room) ==
    SubSeq(entries, 1, Max({k \in 0..Len(entries) :
                              SizeOf(SubSeq(entries, 1, k)) <= room}))

(* A table remembers whether it has ever evicted an entry. *)
PeerTable(max) == [entries |-> <<>>, max |-> max, evicted |-> FALSE]

Limited(table, entries, max) ==
    LET kept == Kept(entries, max) IN
    [entries |-> kept, max |-> max,
     evicted |-> table.evicted \/ Len(kept) < Len(entries)]

(* An entry larger than the table leaves it empty. *)
PeerInsert(table, field) == Limited(table, <<field>> \o table.entries, table.max)

Addressed(table) == STATIC_TABLE \o table.entries

-----------------------------------------------------------------------------
(* Encoding: every representation the RFC allows for a field. *)

PeerInt(n, prefix, mask) ==
    LET rest == n - Full(prefix)
        digits == CHOOSE d \in 1..5 : rest < 128^d /\ (d = 1 \/ rest >= 128^(d - 1))
    IN IF rest < 0 THEN <<Octet(mask + n)>>
       ELSE <<Octet(mask + Full(prefix))>>
            \o [i \in 1..digits |->
                  Octet(((rest \div 128^(i - 1)) % 128)
                          + (IF i < digits THEN 128 ELSE 0))]

Literal(table, field, prefix, mask) ==
    {PeerInt(0, prefix, mask) \o <<Str(field[1]), Str(field[2])>>}
    \cup {PeerInt(i, prefix, mask) \o <<Str(field[2])>> :
            i \in {j \in DOMAIN Addressed(table) : Addressed(table)[j][1] = field[1]}}

Encodings(table, field) ==
    {[table |-> table, block |-> PeerInt(i, 7, 128)] :
        i \in {j \in DOMAIN Addressed(table) : Addressed(table)[j] = field}}
    \cup {[table |-> table, block |-> b] : b \in Literal(table, field, 4, 0)}
    \cup {[table |-> PeerInsert(table, field), block |-> b] :
            b \in Literal(table, field, 6, 64)}

(* All blocks for a list, given the encodings of its first part. *)
Extensions(part, field) ==
    {[table |-> e.table, block |-> part.block \o e.block] :
        e \in Encodings(part.table, field)}

PeerEncode(starts, list) ==
    LET parts[n \in 0..Len(list)] ==
            IF n = 0 THEN starts
            ELSE UNION {Extensions(part, list[n]) : part \in parts[n - 1]}
    IN parts[Len(list)]

SizeUpdate(table, n) ==
    [table |-> Limited(table, table.entries, n), block |-> PeerInt(n, 5, 32)]

-----------------------------------------------------------------------------
(* Decoding *)

(* Where the number that starts at a position ends, and what it is. *)
IntEnd(block, pos, prefix) ==
    IF (block[pos].octet % 2^prefix) < Full(prefix) THEN pos
    ELSE CHOOSE i \in pos + 1..Len(block) :
           block[i].octet < 128 /\ \A j \in pos + 1..i - 1 : block[j].octet >= 128

(* The share of its i-th octet after the first; no index has more than four. *)
Share(block, pos, prefix, i) ==
    IF pos + i > IntEnd(block, pos, prefix) THEN 0
    ELSE (block[pos + i].octet % 128) * 128^(i - 1)

IntValue(block, pos, prefix) ==
    (block[pos].octet % 2^prefix)
      + Share(block, pos, prefix, 1) + Share(block, pos, prefix, 2)
      + Share(block, pos, prefix, 3) + Share(block, pos, prefix, 4)

PeerPrefix(octet) == IF octet >= 128 THEN 7 ELSE IF octet >= 64 THEN 6 ELSE 4

(* One representation.  An index outside both tables is refused. *)
PeerField(block, s) ==
    LET first == block[s.pos].octet
        prefix == PeerPrefix(first)
        end == IntEnd(block, s.pos, prefix)
        index == IntValue(block, s.pos, prefix)
        names == IF index = 0 THEN 1 ELSE 0
        name == IF index = 0 THEN block[end + 1].str
                ELSE Addressed(s.table)[index][1]
        field == IF prefix = 7 THEN Addressed(s.table)[index]
                 ELSE <<name, block[end + names + 1].str>>
    IN IF index \notin DOMAIN Addressed(s.table) /\ (index # 0 \/ prefix = 7)
       THEN [s EXCEPT !.ok = FALSE]
       ELSE [ok |-> TRUE, headers |-> Append(s.headers, field),
             pos |-> end + 1 + IF prefix = 7 THEN 0 ELSE names + 1,
             table |-> IF prefix = 6 THEN PeerInsert(s.table, field) ELSE s.table]

PeerNext(block, s) == IF s.ok /\ s.pos <= Len(block) THEN PeerField(block, s) ELSE s

PeerDecode(table, block) ==
    LET turn[n \in 0..Len(block)] ==
            IF n = 0 THEN [ok |-> TRUE, pos |-> 1, headers |-> <<>>, table |-> table]
            ELSE PeerNext(block, turn[n - 1])
    IN turn[Len(block)]
=============================================================================
