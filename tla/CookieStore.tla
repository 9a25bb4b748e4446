---------------------------- MODULE CookieStore ----------------------------
(* What a cookie jar promises: at most one cookie for each name, domain    *)
(* and path.  A step puts one cookie in the place of the one with its key, *)
(* and leaves the others, or clears all.  Which cookie a step puts, or that *)
(* it puts one at all, is not said here.                                   *)
EXTENDS Naturals, FiniteSets

VARIABLE store      \* the set of cookies

Key(c) == <<c.name, c.domain, c.path>>

Init == store = {}

Put == \E c \in store' : store' = {d \in store : Key(d) # Key(c)} \cup {c}

Clear == store' = {}

Next == Put \/ Clear

Spec == Init /\ [][Next]_store
=============================================================================
