------------------------------ MODULE MCHpack ------------------------------
(* Header lists and tables for Hpack.  The static table is that of the code, *)
(* so that an index means what it means there and crosses the prefixes of    *)
(* 4, 6 and 7 bits; sizes are octets, with tables of two or three entries.   *)
EXTENDS Hpack

Authority == <<":authority", "shop">>
Get == <<":method", "GET">>
LongPath == <<":path", "/long">>
Agent == <<"user-agent", "chrome">>
Session == <<"cookie", "sid">>
NewU == <<"x-new", "u">>
NewV == <<"x-new", "v">>
Etag == <<"etag", "long">>

Sample == {Authority, Get, LongPath, Agent, Session, NewU, NewV, Etag}
MCFields == {f[1] : f \in Sample} \X {f[2] : f \in Sample}
MCWeight == [f \in MCFields |-> IF f[2] \in {"/long", "long"} THEN 70 ELSE 40]
MCRequestLists == {<<Get, Authority, NewU>>, <<LongPath, NewV, Session>>,
                   <<Get, Agent, NewU>>}
MCResponseLists == {<<Etag>>, <<NewU>>, <<NewV>>}

MCServerLimits == {[dec |-> 80, enc |-> 110], [dec |-> 110, enc |-> 60],
                   [dec |-> 160, enc |-> 110]}
=============================================================================
