----------------------------- MODULE MCConnect -----------------------------
(* Clients with and without a proxy, with profiles that can and cannot     *)
(* connect, and answers of proxies around the limit.                       *)
EXTENDS ClientConnect

MCLibraryGroups == {"X25519", "P-256", "P-384", "P-521"}

MCLibrarySigalgs == {"ecdsa", "pss", "pkcs1", "ecdsa_sha1", "pkcs1_sha1"}

Json(groups, sigalgs) ==
    [ciphers |-> <<"tls13", "ecdhe">>, groups |-> groups, sigalgs |-> sigalgs]
MCJsons ==
    {Json(<<"grease", "x25519", "secp256r1">>, <<"ecdsa">>),
     Json(<<"X25519MLKEM768", "X25519">>, <<"ecdsa">>),
     Json(<<"X25519">>, <<"ecdsa", "ed448">>)}

Config(profile, url, danger) ==
    [profile |-> profile, proxy |-> url, danger |-> danger]
Url(user, port) == [user |-> user, port |-> port]
Http1Only == [chrome149 EXCEPT !.alpn = <<"http/1.1">>]
MCConfigs ==
    {Config(p, NoProxy, FALSE) : p \in Profiles(MCJsons) \ {chrome149, safari26}}
      \cup {Config(Http1Only, Url(TRUE, "8080"), FALSE),
            Config(chrome149, Url(FALSE, "80"), TRUE),
            Config(chrome149, Url(TRUE, "80"), FALSE)}
MCFirefox == {Config(firefox151, NoProxy, FALSE)}

MCAnswers ==
    {<<"200", "eol", "eol">>, <<"200", "eol", "x", "eol", "eol">>,
     <<"200", "eol", "x", "x", "eol", "eol">>, <<"407", "eol", "eol">>,
     <<"eol", "eol">>, <<"200", "eol", "eol", "x">>}
=============================================================================
