----------------------------- MODULE MCSession -----------------------------
(* Hosts of one domain, with and without TLS, a path, its directory and the *)
(* directory in capitals, a cookie of one name that hosts and paths share,  *)
(* and headers from all three sources.                                      *)
EXTENDS Session, TLC

MCLower == [s \in {"apple", "www", "/", "shop", "a"} |-> s] @@ ("Shop" :> "shop")

Www == <<"www", "apple">>
Cart == [host |-> Www, path |-> <<"/", "shop", "/", "a">>, secure |-> TRUE]
Shop == [host |-> <<"apple">>, path |-> <<"/", "shop">>, secure |-> TRUE]
Plain == [host |-> Www, path |-> <<"/", "Shop">>, secure |-> FALSE]
MCUrls == {Cart, Shop, Plain}

Attr(kind, val) == [kind |-> kind, val |-> val]
Line(fault, attrs) == [fault |-> fault, name |-> "n", value |-> 0, attrs |-> attrs]
MCResponses ==
    {<<>>, <<Line("none", <<>>)>>,
     <<Line("none", <<Attr("domain", <<"apple">>), Attr("path", <<>>)>>)>>,
     <<Line("none", <<Attr("domain", <<"apple">>)>>)>>,
     <<Line("none", <<>>), Line("none", <<Attr("path", <<"/", "Shop">>)>>)>>,
     <<Line("none", <<Attr("domain", <<>>)>>)>>, <<Line("no_name", <<>>)>>,
     <<Line("long_line", <<>>)>>}

Header(name, from) == [name |-> name, from |-> from]
MCProfileNames == <<"user-agent", "accept">>
MCHints == <<"sec-ch-ua-mobile">>
Edit(edit, name) == [edit |-> edit, header |-> Header(name, "default")]
MCSetups ==
    {[edits |-> <<Edit("insert", "accept"), Edit("append", "accept"),
                  Edit("insert", "sec-ch-ua")>>,
      user |-> <<Header("user-agent", "user"), Header("sec-ch-ua-mobile", "user"),
                Header("cookie", "user")>>],
     [edits |-> <<Edit("insert", "user-agent"), Edit("insert", "cookie"),
                  Edit("insert", "user-agent"), Edit("insert", "sec-ch-ua-mobile")>>,
      user |-> <<Header("accept", "user"), Header("user-agent", "user")>>]}

MCAppCookies ==
    {[line |-> Line("none", <<Attr("path", <<"/", "shop", "/">>)>>), url |-> Cart]}
MCSymmetry == Permutations(Calls)
=============================================================================
