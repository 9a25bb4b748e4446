----------------------------- MODULE TlsProfile -----------------------------
(***************************************************************************)
(* crates/tls: what a profile lists and what a connector makes of it.  Of  *)
(* a profile only the parts that decide whether a handshake can begin, and *)
(* with which protocol it may end, are kept.  Cipher suites and signature  *)
(* algorithms stand for families: "ecdsa_cbc" is the one that the tables   *)
(* of the crate lack.                                                      *)
(***************************************************************************)
EXTENDS SequencesExt

CONSTANTS
    LibraryGroups,      \* groups that BoringSSL's set_curves_list knows
    LibrarySigalgs      \* signature algorithms that its set_sigalgs_list knows

chrome149 ==
    [ciphers |-> <<"tls13", "ecdhe", "rsa">>,
     groups |-> <<"X25519", "P-256", "P-384">>,
     sigalgs |-> <<"ecdsa", "pss", "pkcs1">>,
     alpn |-> <<"h2", "http/1.1">>]

safari26 ==
    [ciphers |-> <<"tls13", "ecdhe", "ecdsa_cbc", "rsa">>,
     groups |-> <<"X25519", "P-256", "P-384", "P-521">>,
     sigalgs |-> <<"ecdsa", "pss", "pkcs1", "pkcs1_sha1">>,
     alpn |-> <<"h2", "http/1.1">>]

firefox151 ==
    [ciphers |-> <<"tls13", "ecdhe", "ecdsa_cbc", "rsa">>,
     groups |-> <<"X25519", "P-256", "P-384", "P-521", "ffdhe2048", "ffdhe3072">>,
     sigalgs |-> <<"ecdsa", "pss", "pkcs1", "ecdsa_sha1", "pkcs1_sha1">>,
     alpn |-> <<"h2", "http/1.1">>]

Presets == {chrome149, safari26, firefox151}

-----------------------------------------------------------------------------
(* Profiles from JSON.  `loaded' is TRUE if from_file accepts the file:    *)
(* no list in it is empty.                                                 *)

NoProfile == [groups |-> <<>>]

loaded(json) == json.ciphers # <<>> /\ json.groups # <<>> /\ json.sigalgs # <<>>

from_tls_section(json) ==
    [ciphers |-> json.ciphers, groups |-> json.groups, sigalgs |-> json.sigalgs,
     alpn |-> <<"h2", "http/1.1">>]

KnownCiphers == {"tls13", "ecdhe", "rsa"}
KnownGroups == {"X25519MLKEM768", "X25519", "P-256", "P-384", "P-521"}

(* TryFrom checks the names first, and knows the groups only as BoringSSL  *)
(* writes them.                                                            *)
try_from(json) ==
    IF ToSet(json.ciphers) \subseteq KnownCiphers /\ ToSet(json.groups) \subseteq KnownGroups
       /\ loaded(json)
    THEN from_tls_section(json) ELSE NoProfile

-----------------------------------------------------------------------------
(* The connector *)

normalize_curve_name(name) ==
    CASE name = "x25519" -> "X25519"
      [] name \in {"p-256", "secp256r1", "prime256v1"} -> "P-256"
      [] name \in {"p-384", "secp384r1"} -> "P-384"
      [] name \in {"p-521", "secp521r1"} -> "P-521"
      [] name = "x25519mlkem768" -> "X25519MLKEM768"
      [] OTHER -> name

set_sigalgs_list(algs) == algs # <<>> /\ ToSet(algs) \subseteq LibrarySigalgs

PostQuantum == {"X25519MLKEM768", "X25519Kyber768Draft00"}

set_curves_list(groups) == groups # <<>> /\ ToSet(groups) \subseteq LibraryGroups

(* Suites without a BoringSSL name are left out. *)
cipher_list(profile) == SelectSeq(profile.ciphers, LAMBDA c : c \in KnownCiphers)

(* The groups of the ClientHello; <<>> if there is no connector. *)
GroupsOffered(profile) ==
    LET normalized == [i \in DOMAIN profile.groups |->
                         normalize_curve_name(profile.groups[i])]
        classical == SelectSeq(normalized, LAMBDA g : g \notin PostQuantum)
    IN IF set_curves_list(normalized) THEN normalized
       ELSE IF set_curves_list(classical) THEN classical ELSE <<>>

(* Profiles that an application can come by. *)
Profiles(jsons) ==
    Presets \cup {from_tls_section(j) : j \in {x \in jsons : loaded(x)}}
            \cup ({try_from(j) : j \in jsons} \ {NoProfile})

build_connector(profile) ==
    /\ cipher_list(profile) # <<>>
    /\ set_sigalgs_list(profile.sigalgs)
    /\ GroupsOffered(profile) # <<>>
=============================================================================
