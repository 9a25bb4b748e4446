--------------------------- MODULE HeaderChannel ---------------------------
(***************************************************************************)
(* What HPACK promises of one direction of a connection: header lists      *)
(* arrive in the order they were sent and as they were sent, or the        *)
(* connection breaks.  A block that its receiver skips, undecoded, takes   *)
(* the promise away: what is decoded after it may be any list.             *)
(***************************************************************************)
EXTENDS SequencesExt

CONSTANTS
    Lists,      \* header lists
    Garbage,    \* a block that no header list has as its encoding
    Skippable   \* may the receiver skip a block?

VARIABLES
    queue,      \* the lists, and the garbage, on their way
    got,        \* the list that arrived last
    state       \* "intact", "skewed" after a skipped block, or "broken"

chan == <<queue, got, state>>

Init == queue = <<>> /\ got = <<>> /\ state = "intact"

Send ==
    /\ state # "broken"
    /\ queue' # <<>> /\ Front(queue') = queue
    /\ Last(queue') = Garbage \/ Last(queue') \in Lists
    /\ UNCHANGED <<got, state>>

Arrive ==
    /\ state # "broken" /\ queue # <<>>
    /\ IF state = "intact"
       THEN Head(queue) # Garbage /\ got' = Head(queue)
       ELSE got' \in Lists
    /\ queue' = Tail(queue)
    /\ UNCHANGED state

Skip ==
    /\ Skippable /\ state # "broken" /\ queue # <<>>
    /\ state' = "skewed" /\ queue' = Tail(queue)
    /\ UNCHANGED got

Break ==
    /\ state' = "broken" /\ queue' = <<>>
    /\ UNCHANGED got

Next == Send \/ Arrive \/ Skip \/ Break

Spec == Init /\ [][Next]_chan
=============================================================================
