---------------------------- MODULE MCProxyPool ----------------------------
(* The pools the runs choose from.  A round-robin index never wraps in a    *)
(* run (2^64 selections); a random one uses all the values of its word.     *)
EXTENDS ProxyPool

MCSetups ==
    {[proxies |-> <<>>, strategy |-> "RoundRobin"],
     [proxies |-> <<"p", "q", "r">>, strategy |-> "RoundRobin"],
     [proxies |-> <<"p", "q">>, strategy |-> "Random"],
     [proxies |-> <<"p", "q", "r", "s">>, strategy |-> "Random"]}

MCOddRandom == {[proxies |-> <<"p", "q", "r">>, strategy |-> "Random"]}
=============================================================================
