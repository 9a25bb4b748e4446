----------------------------- MODULE CookieJar -----------------------------
(***************************************************************************)
(* crates/client/src/cookie_jar.rs and header.rs as operators.             *)
(*                                                                         *)
(* A host is the sequence of its labels and a path a sequence of pieces    *)
(* whose concatenation it is, cut so that one path starts with another     *)
(* exactly if its sequence does: "/shop" is <<"/", "shop">> and            *)
(* "/shopping" is <<"/", "shop", "ping">>.                                 *)
(*                                                                         *)
(* A Set-Cookie line has a name, a value and attributes in their order.    *)
(* `fault' says what is wrong with it: it has no "=", no name, a pair of   *)
(* more than 4096 octets, or as many together with its attributes.         *)
(***************************************************************************)
EXTENDS Naturals, SequencesExt

CONSTANT Lower      \* to_lowercase, for the pieces of paths and domains

(* Set-Cookie lines. *)
Lines == [fault: STRING, name: STRING, value: Nat,
          attrs: Seq([kind: STRING, val: Seq(STRING)])]

Lowered(s) == [i \in DOMAIN s |-> Lower[s[i]]]

(* The entries at some positions, in their order: retain and filter. *)
Retained(s, positions) ==
    LET kept[n \in 0..Len(s)] ==
            IF n = 0 THEN <<>>
            ELSE IF n \in positions THEN Append(kept[n - 1], s[n])
            ELSE kept[n - 1]
    IN kept[Len(s)]

Attrs(line, kind) ==
    Retained(line.attrs, {i \in DOMAIN line.attrs : line.attrs[i].kind = kind})

(* Up to and including the last slash. *)
Directory(path) ==
    SubSeq(path, 1, Max({0} \cup {i \in DOMAIN path : path[i] = "/"}))

NoCookie == [name |-> "none"]

(* The attributes are put into lower case, values included; the last of a  *)
(* kind counts, and an empty Path means the root.  Expires, Max-Age and    *)
(* SameSite are not looked at, nor whether the Domain is one of the host's. *)
parse_set_cookie(line, url) ==
    LET domains == Attrs(line, "domain")
        paths == Attrs(line, "path")
        path == IF paths = <<>> THEN Directory(url.path)
                ELSE Lowered(Last(paths).val)
    IN IF line.fault \notin {"none", "long_line"} THEN NoCookie
       ELSE [name |-> line.name, value |-> line.value,
             domain |-> IF domains = <<>> THEN url.host
                        ELSE Lowered(Last(domains).val),
             host_only |-> domains = <<>>,
             path |-> IF path = <<>> THEN <<"/">> ELSE path,
             secure |-> url.secure \/ Attrs(line, "secure") # <<>>]

Key(c) == <<c.name, c.domain, c.path>>

(* Mutant: cookies of one name replace one another on every path. *)
AddByName(jar, line, url) ==
    LET cookie == parse_set_cookie(line, url) IN
    IF cookie = NoCookie THEN jar
    ELSE Append(SelectSeq(jar, LAMBDA c : c.name # cookie.name), cookie)

(* Mutant: nothing is replaced. *)
AddAlways(jar, line, url) ==
    LET cookie == parse_set_cookie(line, url) IN
    IF cookie = NoCookie THEN jar ELSE Append(jar, cookie)

add_cookie_str(jar, line, url) ==
    LET cookie == parse_set_cookie(line, url) IN
    IF cookie = NoCookie THEN jar
    ELSE Append(Retained(jar, {i \in DOMAIN jar : Key(jar[i]) # Key(cookie)}), cookie)

(* An empty domain, from "Domain=" or "Domain=.", matches the hosts that   *)
(* end with a dot: those whose last label is empty.                        *)
domain_matches(host, domain) ==
    \/ host = domain
    \/ IF domain = <<>> THEN Last(host) = "" ELSE IsSuffix(domain, host)

Matches(c, url) ==
    /\ IF c.host_only THEN url.host = c.domain ELSE domain_matches(url.host, c.domain)
    /\ IsPrefix(c.path, url.path)
    /\ c.secure => url.secure

cookies(jar, url) == Retained(jar, {i \in DOMAIN jar : Matches(jar[i], url)})

-----------------------------------------------------------------------------
(* HeaderMap, whose names compare without case *)

Has(headers, name) == \E i \in DOMAIN headers : headers[i].name = name

(* insert gives a name its value in the place of its first entry. *)
insert(map, h) ==
    IF Has(map, h.name)
    THEN ReplaceAt(map, SelectInSeq(map, LAMBDA e : e.name = h.name), h)
    ELSE Append(map, h)

append(map, h) == Append(map, h)

(* The map that a sequence of calls builds. *)
Built(edits) ==
    LET map[n \in 0..Len(edits)] ==
            IF n = 0 THEN <<>>
            ELSE IF edits[n].edit = "insert"
                 THEN insert(map[n - 1], edits[n].header)
            ELSE append(map[n - 1], edits[n].header)
    IN map[Len(edits)]
=============================================================================
