------------------------------ MODULE MCClient ------------------------------
(* Model values for Client: connections are interchangeable, and so are    *)
(* calls.  No liveness property is checked under this symmetry.            *)
EXTENDS Client, TLC

MCSymmetry == Permutations(Conns) \cup Permutations(Calls)
=============================================================================
