------------------------------ MODULE Rfc6265 ------------------------------
(***************************************************************************)
(* What RFC 6265 asks of a user agent, told from a Set-Cookie line and the *)
(* URL whose response had it alone: a cookie is a record [line, url].      *)
(* Hosts are names, not addresses, and a Domain has lost its leading dot.  *)
(***************************************************************************)
EXTENDS CookieJar

(* A line without "=" or without a name is ignored (5.2); one of more than *)
(* 4096 octets with its attributes may be (6.1).                           *)
Accepted(line) == line.fault \in {"none", "long_line"}

Given(line, kind) == Attrs(line, kind) # <<>>
Value(line, kind) == Last(Attrs(line, kind)).val

(* 5.2.3, 5.3: the last Domain counts and an empty one is none; without    *)
(* one the cookie is for the host alone.                                   *)
HostOnly(x) == ~Given(x.line, "domain") \/ Value(x.line, "domain") = <<>>
Domain(x) == IF HostOnly(x) THEN x.url.host ELSE Lowered(Value(x.line, "domain"))

(* 5.1.3 *)
DomainMatch(host, domain) == host = domain \/ IsSuffix(domain, host)

(* 5.1.4: up to the last slash, and without it unless it is the only one.  *)
DefaultPath(path) ==
    LET up == Directory(path) IN IF Len(up) <= 1 THEN <<"/">> ELSE Front(up)

(* 5.2.4: a Path that is empty or does not begin with a slash is none.     *)
Path(x) ==
    IF Given(x.line, "path") /\ Value(x.line, "path") # <<>>
         /\ Value(x.line, "path")[1] = "/"
    THEN Value(x.line, "path") ELSE DefaultPath(x.url.path)

PathMatch(cookiePath, path) ==
    \/ cookiePath = path
    \/ /\ IsPrefix(cookiePath, path)
       /\ Last(cookiePath) = "/" \/ path[Len(cookiePath) + 1] = "/"

(* 5.3, 5.4: the cookie is kept, and the request to the URL carries it.    *)
MeantFor(x, url) ==
    /\ IF HostOnly(x) THEN url.host = x.url.host
       ELSE DomainMatch(x.url.host, Domain(x)) /\ DomainMatch(url.host, Domain(x))
    /\ PathMatch(Path(x), url.path)
    /\ Given(x.line, "secure") => url.secure
=============================================================================
