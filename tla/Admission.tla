------------------------------ MODULE Admission ------------------------------
(***************************************************************************)
(* What a peer lets in over TCP (src/kemi/ratelimit.py and _handle_client  *)
(* of src/kemi/node.py): a ceiling on open connections, and for each       *)
(* source address a ceiling and a token bucket, kept in a table that       *)
(* forgets addresses without connections when it is full.                  *)
(*                                                                         *)
(* An address that is not tracked holds nothing and has a full bucket,     *)
(* which is what a fresh _IPState holds.                                   *)
(***************************************************************************)
EXTENDS Integers, Sequences, FiniteSets, FiniteSetsExt

CONSTANTS
    Address,         \* source addresses
    MaxConnections,  \* limits.max_connections
    PerAddress,      \* limits.per_ip_connections
    MaxTracked,      \* max_tracked of IPGuard
    Burst            \* limits.per_ip_burst

ASSUME AdmissionAssumption ==
    /\ IsFiniteSet(Address)
    /\ MaxConnections \in Nat /\ PerAddress \in Nat
    /\ MaxTracked \in Nat \ {0} /\ Burst \in Nat \ {0}

VARIABLES
    open,     \* _open_connections
    tracked,  \* the addresses in _ips
    held,     \* held[a]: connections of a's entry
    tokens,   \* tokens[a]: what is in a's bucket
    seen      \* the tracked addresses by last_seen, longest ago first

guard == <<tracked, held, tokens, seen>>
gate  == <<open, guard>>

GateInit ==
    /\ open = 0 /\ tracked = {} /\ seen = <<>>
    /\ held = [a \in Address |-> 0]
    /\ tokens = [a \in Address |-> Burst]

Idle == {a \in tracked : held[a] = 0}

\* a was seen longer ago than b.
SeenBefore(a, b) ==
    \E i, j \in DOMAIN seen : i < j /\ seen[i] = a /\ seen[j] = b

\* What _state(a) may forget to make room for a: a quarter of the entries
\* without connections, those idle for longest, but at least one if there is one.
Evictions(a) ==
    IF a \in tracked \/ Cardinality(tracked) < MaxTracked THEN {{}}
    ELSE {E \in SUBSET Idle :
            /\ Cardinality(E) = Min({Cardinality(Idle), Max({1, Cardinality(Idle) \div 4})})
            /\ \A e \in E, f \in Idle \ E : SeenBefore(e, f)}

\* _state(a) after it has forgotten E: a is there and was seen last.
Track(a, E) ==
    /\ tracked' = (tracked \ E) \cup {a}
    /\ seen' = Append(SelectSeq(seen, LAMBDA b : b \notin E \cup {a}), a)

\* try_connect fails: the address has all the connections it may have.
Shed(a) ==
    \E E \in Evictions(a) :
        /\ held[a] >= PerAddress
        /\ Track(a, E)
        /\ tokens' = [b \in Address |-> IF b \in E THEN Burst ELSE tokens[b]]
        /\ UNCHANGED <<open, held>>

\* try_connect succeeds; _guarded_client then asks for a token right away.
Admit(a, allowed) ==
    \E E \in Evictions(a) :
        /\ held[a] < PerAddress
        /\ allowed <=> tokens[a] >= 1
        /\ Track(a, E)
        /\ open' = open + 1
        /\ held' = [held EXCEPT ![a] = @ + 1]
        /\ tokens' = [b \in Address |-> IF b \in E THEN Burst
                                        ELSE IF b = a /\ allowed THEN tokens[b] - 1
                                        ELSE tokens[b]]

\* Mutant: the place is given back to the process but not to the address.
Depart_Half(a) ==
    /\ open' = open - 1
    /\ UNCHANGED <<held, tracked, tokens, seen>>

\* The finally of _handle_client, with disconnect.
Depart(a) ==
    /\ open' = open - 1
    /\ held' = IF a \in tracked /\ held[a] > 0 THEN [held EXCEPT ![a] = @ - 1] ELSE held
    /\ UNCHANGED <<tracked, tokens, seen>>

\* Time goes by: take will find another token in the bucket.
Refill(a) ==
    /\ tokens[a] < Burst
    /\ tokens' = [tokens EXCEPT ![a] = @ + 1]
    /\ UNCHANGED <<open, tracked, held, seen>>
=============================================================================
