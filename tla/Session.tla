------------------------------ MODULE Session ------------------------------
(***************************************************************************)
(* What concurrent calls of RequestBuilder::send share besides the pool:   *)
(* the cookies.  A hop of a call reads them when it builds its headers,    *)
(* before the connection and the exchange, and stores what the response    *)
(* sets after it, one Set-Cookie line at a time.  The cookies are either a *)
(* CookieJar, which the application may edit meanwhile, or the legacy map  *)
(* by host, when no jar is configured.                                     *)
(***************************************************************************)
EXTENDS Rfc6265

CONSTANTS
    Calls,          \* tasks that call send
    Urls,           \* [host, path, secure]
    NoUrl,
    ProfileNames,   \* user-agent, accept, accept-encoding and accept-language
    Hints,          \* sec-ch-ua-mobile and sec-ch-ua-platform
    Setups,         \* edits that build default_headers, and callers' headers
    Responses,      \* sequences of Set-Cookie lines in one response
    AppCookies,     \* lines, with their URLs, that the application adds
    MaxRedirects,
    MaxStamp        \* bound: Set-Cookie lines in all

HeaderFrom(source) == [name: STRING, from: {source}]

(* The profile's names, the hints, "sec-ch-ua" and "cookie" are different. *)
ASSUME SessionAssumption ==
    /\ Urls \subseteq [host: Seq(STRING), path: Seq(STRING), secure: BOOLEAN]
    /\ \A u \in Urls : u.host # <<>> /\ u.path # <<>> /\ u.path[1] = "/"
    /\ NoUrl \notin Urls /\ MaxRedirects \in Nat /\ MaxStamp \in Nat
    /\ Responses \subseteq Seq(Lines)
    /\ AppCookies \subseteq [line: Lines, url: Urls]
    /\ Setups \subseteq
         [edits: Seq([edit: {"insert", "append"}, header: HeaderFrom("default")]),
          user: Seq(HeaderFrom("user"))]
    /\ ProfileNames \in Seq(STRING) /\ Hints \in Seq(STRING)
    /\ \A i \in DOMAIN ProfileNames : /\ ProfileNames[i] \notin {"sec-ch-ua", "cookie"}
                                     /\ \A j \in DOMAIN Hints : Hints[j] # ProfileNames[i]
    /\ \A j \in DOMAIN Hints : Hints[j] \notin {"sec-ch-ua", "cookie"}

VARIABLES
    provider,       \* is a cookie_jar configured?
    default_headers,
    user,           \* RequestBuilder::headers, the same for all calls
    jar,            \* CookieJar::cookies
    legacy,         \* Client::cookies
    calls,          \* the locals of each call
    stamp           \* Set-Cookie lines so far: each has a value of its own

vars == <<provider, default_headers, user, jar, legacy, calls, stamp>>

Hosts == {u.host : u \in Urls}

-----------------------------------------------------------------------------
(* The header list of a request *)

From(source, names) == [i \in DOMAIN names |-> [name |-> names[i], from |-> source]]

Supplied(name) == Has(user, name) \/ Has(default_headers, name)

(* Mutant: default_headers do not keep the profile's value away. *)
ProfileIgnoresDefaults ==
    From("profile", SelectSeq(ProfileNames, LAMBDA n : ~Has(user, n)))
    \o IF Supplied("sec-ch-ua") THEN <<>>
       ELSE From("profile", <<"sec-ch-ua">> \o Hints)

(* What the profile adds.  The three client hints stand and fall with one. *)
Profile ==
    From("profile", Retained(ProfileNames,
                             {i \in DOMAIN ProfileNames : ~Supplied(ProfileNames[i])}))
    \o IF Supplied("sec-ch-ua") THEN <<>>
       ELSE From("profile", <<"sec-ch-ua">> \o Hints)

CookieHeader(sent) == IF sent = <<>> THEN <<>> ELSE From("jar", <<"cookie">>)

(* A default is added unless its name is there already, so that of two     *)
(* defaults of one name the first is sent.                                 *)
WithDefaults(headers) ==
    headers \o Retained(default_headers,
                        {i \in DOMAIN default_headers :
                           LET name == default_headers[i].name IN
                           /\ ~Has(headers, name) /\ ~Has(user, name)
                           /\ \A j \in 1..i - 1 : default_headers[j].name # name})

Headers(sent) == WithDefaults(Profile \o CookieHeader(sent)) \o user

-----------------------------------------------------------------------------
(* The cookies *)

(* Those that a request to the URL carries. *)
CookiesFor(url) == IF provider THEN cookies(jar, url) ELSE legacy[url.host]

(* The legacy map keeps every pair under the host, whatever its attributes *)
(* and whatever was there before, a pair without a name included; its cap  *)
(* is on the whole line.                                                   *)
LegacyPair(line) ==
    [name |-> IF line.fault = "no_name" THEN "" ELSE line.name,
     value |-> line.value]

(* Mutant: a cookie that is there already stays. *)
KeepFirst(line, url) ==
    /\ jar' = IF provider /\ ~(\E i \in DOMAIN jar : jar[i].name = line.name)
              THEN add_cookie_str(jar, line, url) ELSE jar
    /\ UNCHANGED legacy

KeepLine(line, url) ==
    IF provider
    THEN jar' = add_cookie_str(jar, line, url) /\ UNCHANGED legacy
    ELSE /\ legacy' = IF line.fault \in {"none", "no_name"}
                      THEN [legacy EXCEPT ![url.host] =
                              Append(@, LegacyPair(line))]
                      ELSE legacy
         /\ UNCHANGED jar

(* A Path that the jar reads differently from RFC 6265: empty, relative or *)
(* with capitals.                                                          *)
OddPath(line) ==
    /\ Given(line, "path")
    /\ LET path == Value(line, "path") IN
       path = <<>> \/ path[1] # "/" \/ Lowered(path) # path

OneSlashApart(p, q) == p = q \/ p = Append(q, "/") \/ q = Append(p, "/")

(* y takes the place of x: name, domain and path are the same, as RFC 6265 *)
(* tells them.  Beyond the RFC the jar takes paths for the same that are a *)
(* slash apart, because a default path keeps its last one, and may take    *)
(* any for the same if one of them is odd; and y need not be of a host of  *)
(* its domain.                                                             *)
Replaces(y, x) ==
    /\ y.line.name = x.line.name /\ Domain(y) = Domain(x)
    /\ OneSlashApart(Path(x), Path(y)) \/ OddPath(x.line) \/ OddPath(y.line)

(* Where a cookie that RFC 6265 means for the URL may be missing: with a    *)
(* jar, one set over https is taken for Secure; one without a Path is not  *)
(* sent to the directory itself; a relative Path matches nothing, and one  *)
(* in capitals not its own; an empty Domain, instead of none, matches no    *)
(* host without a last dot.  The legacy map knows no Domain, and drops     *)
(* lines of more than 4096 octets.                                         *)
Excepted(x, url) ==
    IF provider
    THEN \/ x.url.secure /\ ~url.secure
         \/ ~Given(x.line, "path") /\ ~IsPrefix(Directory(x.url.path), url.path)
         \/ OddPath(x.line) /\ Value(x.line, "path") # <<>>
         \/ Given(x.line, "domain") /\ Value(x.line, "domain") = <<>>
    ELSE x.url.host # url.host \/ x.line.fault = "long_line"

(* A history: the lines that the responses of a call have brought, and      *)
(* nobody has replaced or cleared since.                                   *)
Owing(c, x) ==
    [d \in Calls |->
       [calls[d] EXCEPT !.owed = {y \in @ : ~Replaces(x, y)}
                                   \cup IF d = c THEN {x} ELSE {}]]

-----------------------------------------------------------------------------
(* A call *)

Idle == [pc |-> "idle", url |-> NoUrl, hops |-> 0, headers |-> <<>>,
         sent |-> <<>>, lines |-> <<>>, next |-> NoUrl, owed |-> {}, due |-> {}]

Set(c, call) == calls' = [calls EXCEPT ![c] = call]

send(c) ==
    /\ calls[c].pc = "idle"
    /\ \E url \in Urls : Set(c, [Idle EXCEPT !.pc = "take", !.url = url])
    /\ UNCHANGED <<provider, default_headers, user, jar, legacy, stamp>>

(* After the pool's lock, and before the connection: these headers are the *)
(* ones of a retry on a fresh connection, too.                             *)
Build(c) ==
    /\ calls[c].pc = "take"
    /\ LET call == calls[c]
           sent == CookiesFor(call.url) IN
       Set(c, [call EXCEPT
          !.pc = "exchange", !.sent = sent, !.headers = Headers(sent),
          !.due = {x \in call.owed : MeantFor(x, call.url) /\ ~Excepted(x, call.url)}])
    /\ UNCHANGED <<provider, default_headers, user, jar, legacy, stamp>>

(* The response has come and the connection is back in the pool. *)
Answered(c) ==
    /\ calls[c].pc = "exchange"
    /\ \E lines \in Responses, next \in Urls \cup {NoUrl} :
          /\ stamp + Len(lines) <= MaxStamp
          /\ Set(c, [calls[c] EXCEPT
               !.pc = "cookies", !.next = next,
               !.headers = <<>>, !.sent = <<>>, !.due = {},
               !.lines = [i \in DOMAIN lines |-> [lines[i] EXCEPT !.value = stamp + i]]])
          /\ stamp' = stamp + Len(lines)
    /\ UNCHANGED <<provider, default_headers, user, jar, legacy>>

ExchangeFails(c) ==
    /\ calls[c].pc = "exchange"
    /\ Set(c, Idle)
    /\ UNCHANGED <<provider, default_headers, user, jar, legacy, stamp>>

(* One line: other threads may use the cookies between two of them. *)
StoreCookie(c) ==
    /\ calls[c].pc = "cookies" /\ calls[c].lines # <<>>
    /\ LET line == Head(calls[c].lines)
           x == [line |-> line, url |-> calls[c].url]
           owing == IF Accepted(line) THEN Owing(c, x) ELSE calls
       IN /\ KeepLine(line, calls[c].url)
          /\ calls' = [owing EXCEPT ![c].lines = Tail(@)]
    /\ UNCHANGED <<provider, default_headers, user, stamp>>

(* A redirect is followed with the headers the caller gave. *)
Decide(c) ==
    /\ calls[c].pc = "cookies" /\ calls[c].lines = <<>>
    /\ IF calls[c].next # NoUrl /\ calls[c].hops < MaxRedirects
       THEN Set(c, [calls[c] EXCEPT !.pc = "take", !.url = calls[c].next,
                                    !.hops = @ + 1, !.next = NoUrl])
       ELSE Set(c, Idle)
    /\ UNCHANGED <<provider, default_headers, user, jar, legacy, stamp>>

-----------------------------------------------------------------------------
(* The application, which holds the jar as well *)

AddCookie(line, url) ==
    /\ provider /\ stamp < MaxStamp
    /\ stamp' = stamp + 1
    /\ LET stamped == [line EXCEPT !.value = stamp + 1]
           x == [line |-> stamped, url |-> url] IN
       /\ KeepLine(stamped, url)
       /\ calls' = IF Accepted(line)
                   THEN [d \in Calls |-> [calls[d] EXCEPT
                           !.owed = {y \in @ : ~Replaces(x, y)}]]
                   ELSE calls
    /\ UNCHANGED <<provider, default_headers, user>>

clear ==
    /\ provider /\ jar' = <<>>
    /\ calls' = [d \in Calls |-> [calls[d] EXCEPT !.owed = {}]]
    /\ UNCHANGED <<provider, default_headers, user, legacy, stamp>>

-----------------------------------------------------------------------------
Init ==
    /\ provider \in BOOLEAN
    /\ \E setup \in Setups :
          default_headers = Built(setup.edits) /\ user = setup.user
    /\ jar = <<>> /\ legacy = [h \in Hosts |-> <<>>]
    /\ calls = [c \in Calls |-> Idle]
    /\ stamp = 0

Next ==
    \/ \E c \in Calls : \/ send(c) \/ Build(c) \/ Answered(c)
                        \/ ExchangeFails(c) \/ StoreCookie(c) \/ Decide(c)
    \/ \E a \in AppCookies : AddCookie(a.line, a.url)
    \/ clear

Spec == Init /\ [][Next]_vars
-----------------------------------------------------------------------------
(* Properties *)

(* Type correctness; the jar holds one cookie for a name, domain and path, *)
(* and a jar and a legacy map are never both in use.                       *)
TypeOK ==
    /\ provider \in BOOLEAN /\ stamp \in 0..MaxStamp
    /\ \A i, j \in DOMAIN jar : Key(jar[i]) = Key(jar[j]) => i = j
    /\ \A i \in DOMAIN jar : jar[i].value \in 1..stamp /\ jar[i].path # <<>>
    /\ jar # <<>> => provider
    /\ (\E h \in Hosts : legacy[h] # <<>>) => ~provider
    /\ \A c \in Calls :
          /\ calls[c].pc \in {"idle", "take", "exchange", "cookies"}
          /\ calls[c].hops \in 0..MaxRedirects

(* The jar, with its list and the calls and the application that use it at  *)
(* once, is a store by name, domain and path.                               *)
Store == INSTANCE CookieStore WITH store <- ToSet(jar)
JarIsAStore == Store!Spec

(* A hop of a redirected call carries what the responses before it set and  *)
(* what RFC 6265 means for its URL, but for the exceptions above, unless    *)
(* another response or the application has replaced or cleared it before    *)
(* the hop began.                                                          *)
HopCarriesCookies ==
    \A c \in Calls : calls[c].pc = "exchange" =>
        \A x \in calls[c].due : \E s \in ToSet(calls[c].sent) :
           s.name = x.line.name /\ s.value = x.line.value

(* Who the values of a header come from. *)
SourcesOf(c, name) ==
    {calls[c].headers[i].from :
       i \in {j \in DOMAIN calls[c].headers : calls[c].headers[j].name = name}}

HeaderNames ==
    ToSet(ProfileNames) \cup ToSet(Hints) \cup {"sec-ch-ua"}
       \cup {h.name : h \in ToSet(user) \cup ToSet(default_headers)}

(* The rule for one name. *)
FromItsSource(c, name) ==
    SourcesOf(c, name) =
       CASE Has(user, name) -> {"user"}
         [] ~Has(user, name) /\ Has(default_headers, name) -> {"default"}
         [] ~Supplied(name) /\ name \in ToSet(ProfileNames) \cup {"sec-ch-ua"} -> {"profile"}
         [] OTHER -> {}

(* A header that the caller or default_headers supply comes from there, the *)
(* caller's before the default's, and the profile's value does not leak in; *)
(* a header that nobody supplies is the profile's.  Two kinds of header do  *)
(* otherwise.  The hints that go with sec-ch-ua look at sec-ch-ua alone,    *)
(* against the comment at lib.rs:595: unless that is supplied, the          *)
(* profile's goes beside the caller's and before a default one.  So do the  *)
(* cookies of the jar, or of the legacy map.                               *)
SuppliedWins ==
    \A c \in Calls : calls[c].pc = "exchange" =>
       /\ \A name \in HeaderNames \ {"cookie"} :
             IF name \in ToSet(Hints) /\ ~Supplied("sec-ch-ua")
             THEN SourcesOf(c, name) =
                    {"profile"} \cup (IF Has(user, name) THEN {"user"} ELSE {})
             ELSE FromItsSource(c, name)
       /\ SourcesOf(c, "cookie") =
             (IF calls[c].sent # <<>> THEN {"jar"} ELSE {})
                \cup (IF Has(user, "cookie") THEN {"user"}
                      ELSE IF Has(default_headers, "cookie") /\ calls[c].sent = <<>>
                      THEN {"default"} ELSE {})
=============================================================================
