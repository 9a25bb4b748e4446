----------------------------- MODULE ProxyPool -----------------------------
(***************************************************************************)
(* The rotating proxy pool of crates/proxy: a caller selects a proxy, opens *)
(* a tunnel through it, and reports how the tunnel went when it knows,      *)
(* which may be after other selections, reports and resets.                 *)
(*                                                                          *)
(* The pool is behind `&mut self', so its calls do not overlap; what         *)
(* overlaps is the tunnels, whose reports arrive late and in any order.     *)
(* The word of the index is 2^64 in the code.  Its lowest bits do not        *)
(* depend on the others, so a smaller power of two gives exactly the index  *)
(* modulo that power, for the same multiplier and increment.                *)
(***************************************************************************)
EXTENDS Integers, Sequences

CONSTANTS
    Setups,         \* what callers pass to new: [proxies, strategy] records
    WordSize,       \* values of usize, a power of two
    Multiplier,     \* 6364136223846793005, modulo WordSize
    Increment,      \* 1442695040888963407, modulo WordSize
    MaxFailures,    \* max_failures, 3 in the code
    MaxIndex,       \* bound: where a round-robin run stops counting
    MaxTunnels      \* bound: tunnels waiting to be reported

Strategies == {"RoundRobin", "Random"}

(* A URL is neither of the results of select that are none. *)
ProxyUrls == STRING \ {"", "PoolExhausted"}

ASSUME PoolAssumption ==
    /\ \A s \in Setups : /\ s.strategy \in Strategies
                         /\ s.proxies \in Seq(ProxyUrls)
                         /\ Len(s.proxies) <= WordSize
    /\ WordSize \in Nat \ {0} /\ Multiplier \in Nat /\ Increment \in Nat
    /\ MaxFailures \in Nat \ {0} /\ MaxIndex \in Nat /\ MaxTunnels \in Nat

VARIABLES
    pool,       \* struct ProxyPool: the setup, with index and states
    outcome,    \* what the last call returned, "" for no result
    tunnels,    \* proxies selected and not yet reported, by URL
    streak,     \* history: failures reported in a row, by URL
    waiting     \* history: selections a healthy proxy has been passed over

vars == <<pool, outcome, tunnels, streak, waiting>>

len == Len(pool.proxies)
Positions == 0..len - 1
Urls(proxies) == {proxies[i] : i \in DOMAIN proxies}

PoolExhausted == "PoolExhausted"

-----------------------------------------------------------------------------
Larger(a, b) == IF a > b THEN a ELSE b

(* The seed is the clock, so any position may come first. *)
new(setup) ==
    /\ \E seed \in 0..Larger(Len(setup.proxies), 1) - 1 :
          pool = [proxies |-> setup.proxies, strategy |-> setup.strategy,
                  index |-> seed,
                  states |-> [i \in 0..Len(setup.proxies) - 1 |->
                                [failures |-> 0, blacklisted |-> FALSE]]]
    /\ outcome = ""
    /\ tunnels = [u \in Urls(setup.proxies) |-> 0]
    /\ streak = [u \in Urls(setup.proxies) |-> 0]
    /\ waiting = [i \in 0..Len(setup.proxies) - 1 |-> 0]

(* Mutant: the generator's increment is forgotten. *)
IndexWithoutIncrement(turns) ==
    LET after[k \in 0..turns] ==
            IF k = 0 THEN pool.index
            ELSE IF pool.strategy = "RoundRobin"
                 THEN (after[k - 1] + 1) % WordSize
                 ELSE (after[k - 1] * Multiplier) % WordSize
    IN after[turns]

(* Mutant: the index does not wrap. *)
IndexUnwrapped(turns) ==
    LET after[k \in 0..turns] ==
            IF k = 0 THEN pool.index
            ELSE IF pool.strategy = "RoundRobin" THEN after[k - 1] + 1
                 ELSE after[k - 1] * Multiplier + Increment
    IN after[turns]

(* The index after k turns of the loop in select. *)
IndexAfter(turns) ==
    LET after[k \in 0..turns] ==
            IF k = 0 THEN pool.index
            ELSE IF pool.strategy = "RoundRobin"
                 THEN (after[k - 1] + 1) % WordSize
                 ELSE (after[k - 1] * Multiplier + Increment) % WordSize
    IN after[turns]

(* The position turn k looks at: round robin reads the index before it     *)
(* moves, random after.                                                    *)
Candidate(k) ==
    (IF pool.strategy = "RoundRobin" THEN IndexAfter(k - 1) ELSE IndexAfter(k))
        % len

Healthy(k) == ~pool.states[Candidate(k)].blacklisted

(* Mutant: the loop stops one turn early. *)
TurnsOneShort == 1..len - 1

Turns == 1..len

(* select returns the proxy of the first turn that meets a healthy one, or *)
(* fails after as many turns as there are proxies.                         *)
SelectProxy(k) ==
    /\ k \in Turns /\ Healthy(k) /\ \A j \in 1..k - 1 : ~Healthy(j)
    /\ LET url == pool.proxies[Candidate(k) + 1] IN
       /\ outcome' = url
       /\ tunnels[url] < MaxTunnels
       /\ tunnels' = [tunnels EXCEPT ![url] = @ + 1]
       /\ waiting' = [i \in Positions |->
                        IF i = Candidate(k) \/ pool.states[i].blacklisted
                        THEN 0 ELSE waiting[i] + 1]
    /\ pool' = [pool EXCEPT !.index = IndexAfter(k)]
    /\ UNCHANGED streak

SelectExhausted ==
    /\ \A k \in Turns : ~Healthy(k)
    /\ outcome' = PoolExhausted
    /\ pool' = [pool EXCEPT !.index = IndexAfter(len)]
    /\ UNCHANGED <<tunnels, streak, waiting>>

select ==
    /\ pool.strategy = "RoundRobin" => pool.index < MaxIndex
    /\ SelectExhausted \/ \E k \in Turns : SelectProxy(k)

reset_all ==
    /\ pool' = [pool EXCEPT !.states =
                  [i \in Positions |-> [failures |-> 0, blacklisted |-> FALSE]]]
    /\ streak' = [u \in DOMAIN streak |-> 0]
    /\ outcome' = ""
    /\ UNCHANGED <<tunnels, waiting>>

(* The entry a report is about: the first with the URL. *)
Position(url) ==
    CHOOSE i \in Positions :
        /\ pool.proxies[i + 1] = url
        /\ \A j \in 0..i - 1 : pool.proxies[j + 1] # url

(* Mutant: the limit itself is still tolerated. *)
FailedTolerant(state) ==
    [failures |-> state.failures + 1,
     blacklisted |-> state.blacklisted \/ state.failures + 1 > MaxFailures]

(* A failure counted: at the limit the proxy is blacklisted. *)
Failed(state) ==
    [failures |-> state.failures + 1,
     blacklisted |-> state.blacklisted \/ state.failures + 1 >= MaxFailures]

report_failure(url) ==
    /\ pool' = [pool EXCEPT !.states[Position(url)] = Failed(@)]
    /\ streak' = [streak EXCEPT ![url] = @ + 1]
    /\ UNCHANGED waiting

Recovered(state) == [failures |-> 0, blacklisted |-> FALSE]

report_success(url) ==
    /\ pool' = [pool EXCEPT !.states[Position(url)] = Recovered(@)]
    /\ streak' = [streak EXCEPT ![url] = 0]
    /\ UNCHANGED waiting

(* The caller learns how one of its tunnels went. *)
Report(url) ==
    /\ tunnels[url] > 0
    /\ tunnels' = [tunnels EXCEPT ![url] = @ - 1]
    /\ outcome' = ""
    /\ report_failure(url) \/ report_success(url)

-----------------------------------------------------------------------------
Init == \E setup \in Setups : new(setup)

Next == select \/ reset_all \/ \E url \in DOMAIN tunnels : Report(url)

Spec == Init /\ [][Next]_vars
-----------------------------------------------------------------------------
(* Properties *)

(* Type correctness: the index stays in its word, the tables keep the      *)
(* length of the list of proxies.                                          *)
TypeOK ==
    /\ pool.index \in 0..WordSize - 1
    /\ pool.states \in [Positions -> [failures: Nat, blacklisted: BOOLEAN]]
    /\ outcome \in Urls(pool.proxies) \cup {"", PoolExhausted}
    /\ tunnels \in [Urls(pool.proxies) -> 0..MaxTunnels]
    /\ streak \in [Urls(pool.proxies) -> Nat]
    /\ waiting \in [Positions -> Nat]

(* select fails only if no healthy proxy is left: its turns visit every    *)
(* position, wherever the index stands and whatever was blacklisted.       *)
ExhaustedMeansNoneHealthy ==
    outcome = PoolExhausted =>
        \A i \in Positions : pool.states[i].blacklisted

(* A proxy that failed MaxFailures times in a row is not selected until a  *)
(* success or a reset, however late the reports come; one that did not is  *)
(* never out of rotation.                                                  *)
BlacklistedExactly ==
    \A i \in Positions :
        pool.states[i].blacklisted <=> streak[pool.proxies[i + 1]] >= MaxFailures

(* Every healthy proxy has its turn within as many selections as there are *)
(* proxies, whatever happens to the others in between.                     *)
NoProxyStarves == \A i \in Positions : waiting[i] < len
=============================================================================
