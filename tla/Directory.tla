------------------------------ MODULE Directory ------------------------------
(***************************************************************************)
(* How consumers find providers (src/kemi/dht.py, src/kemi/discovery.py):  *)
(* the peers keep a hash table over datagrams; a provider puts its record  *)
(* under the key of a task on the K peers closest to the key, again and    *)
(* again; a consumer gets what those peers hold and lists the newest       *)
(* record of every provider.  A peer looks up the closest peers by asking  *)
(* the closest it knows of for closer ones.  Datagrams are lost or late;   *)
(* peers come and go, and what they held goes with them.                   *)
(***************************************************************************)
EXTENDS Integers, Sequences, FiniteSets, FiniteSetsExt

CONSTANTS
    Node,
    Key,           \* keys of tasks
    Dist,          \* Dist[t][n]: the distance of n's id from t, a key or a node
    Bucket,        \* Bucket[n][m]: the bucket of n's table that m belongs to
    Boot,          \* Boot[n]: the peer n joins through, or NoNode
    Table0,        \* Table0[n]: the table of a peer that has joined to begin with
    Offers,        \* Offers[n]: the key n offers its services under, or NoKey
    NoNode, NoKey,
    K, Alpha, MaxKeys, MaxValues,
    Ttl,           \* ANNOUNCE_TTL
    StoreAge,      \* MAX_RECORD_AGE of dht.py
    FindAge,       \* MAX_RECORD_AGE of discovery.py
    Seeker,        \* bound: the peers that look for providers
    Frail, Cut,    \* bounds: who may stop, and whose calls may fail though they need not
    MaxTime, MaxFaults   \* bounds

ASSUME DirectoryAssumption ==
    /\ IsFiniteSet(Node) /\ NoNode \notin Node /\ NoKey \notin Key
    /\ Dist \in [Key \cup Node -> [Node -> Nat]]
    /\ \A t \in Key \cup Node : \A m, n \in Node : Dist[t][m] = Dist[t][n] => m = n
    /\ Bucket \in [Node -> [Node -> Nat]]
    /\ Table0 \in [Node -> Seq(Node)]
    /\ Boot \in [Node -> Node \cup {NoNode}] /\ Offers \in [Node -> Key \cup {NoKey}]
    /\ K \in Nat \ {0} /\ Alpha \in Nat \ {0}
    /\ MaxKeys \in Nat /\ MaxValues \in Nat
    /\ Ttl \in Nat /\ StoreAge \in Nat /\ FindAge \in Nat
    /\ MaxTime \in Nat /\ MaxFaults \in Nat

VARIABLES
    now,       \* the time, the same for all peers
    faults,    \* how many peers have stopped and calls have failed
    state,     \* state[n]: "down", "up" (its sockets are open) or "joined"
    table,     \* table[n]: its routing table, most recently seen last
    slots,     \* slots[n]: the keys of its storage
    held,      \* held[n]: <<key, record, expires at>> in its storage
    op,        \* op[n]: the put, the get or the join that n is at
    found,     \* found[n]: what n's last search yielded, and from when to when it took
    due,       \* history, due[n]: what was published when n's search began
    published  \* history: <<record, key>> of completed announcements

env     == <<now, faults>>
storage == <<slots, held>>
seeking == <<found, due>>
vars    == <<env, state, table, storage, op, seeking, published>>

NoRecord == [of |-> NoNode, ts |-> 0]

\* short and queried as in lookup; waits: who has not answered; begun: when it
\* began; values: what has been found so far.
NoOp == [kind |-> "none", stage |-> "none", target |-> NoKey, value |-> NoRecord,
         short |-> {}, queried |-> {}, waits |-> {}, begun |-> 0, values |-> {}]

Nothing == [at |-> -1, until |-> 0, listed |-> {}]

Init ==
    /\ now = 0 /\ faults = 0 /\ published = {}
    /\ state = [n \in Node |-> IF Boot[n] = NoNode \/ Table0[n] # <<>> THEN "joined" ELSE "up"]
    /\ table = Table0
    /\ slots = [n \in Node |-> {}] /\ held = [n \in Node |-> {}]
    /\ op = [n \in Node |-> NoOp]
    /\ found = [n \in Node |-> Nothing] /\ due = [n \in Node |-> {}]

----------------------------------------------------------------------------
\* The routing table and the storage of a peer.

Known(n) == {table[n][i] : i \in DOMAIN table[n]}

\* RoutingTable.add: m is the last of its bucket, which holds K at most and
\* forgets its first.
Added(n, m) ==
    IF m = n THEN table[n]
    ELSE LET rest == SelectSeq(table[n], LAMBDA c : c # m)
             mates == SelectSeq(rest, LAMBDA c : Bucket[n][c] = Bucket[n][m])
         IN Append(IF Len(mates) < K THEN rest
                   ELSE SelectSeq(rest, LAMBDA c : c # Head(mates)), m)

Removed(n, m) == SelectSeq(table[n], LAMBDA c : c # m)

\* The count members of S that are closest to t.
Closest(S, t, count) ==
    {m \in S : Cardinality({x \in S : Dist[t][x] < Dist[t][m]}) < count}

\* What n holds under key, after _expire.
Fresh(n, key) == {h \in held[n] : h[1] = key /\ h[3] >= now}

Kept(n, key) == {h \in held[n] : h[1] # key \/ h[3] >= now}

\* _handle_store.  A refusal for want of room among the values still makes the
\* key's slot and drops what has expired in it.
Store(n, key, r) ==
    IF r.ts <= now - StoreAge \/ (key \notin slots[n] /\ Cardinality(slots[n]) >= MaxKeys)
    THEN UNCHANGED storage
    ELSE /\ slots' = [slots EXCEPT ![n] = @ \cup {key}]
         /\ held' = [held EXCEPT ![n] =
                        IF Cardinality(Fresh(n, key)) >= MaxValues THEN Kept(n, key)
                        ELSE {h \in Kept(n, key) : <<h[1], h[2]>> # <<key, r>>}
                               \cup {<<key, r, now + Ttl>>}]

Expire(n, key) == held' = [held EXCEPT ![n] = Kept(n, key)] /\ UNCHANGED slots

----------------------------------------------------------------------------
\* What a peer does of its own accord.  Every operation is a sequence of
\* rounds of calls, and a round waits for all it has called.

Idle(n) == op[n].kind = "none"

\* Up to the first round of lookup nothing can come between.
Begin(n, kind, target, r, values) ==
    LET short == Closest(Known(n), target, K)
        first == Closest(short, target, Alpha)
    IN op' = [op EXCEPT ![n] =
                [NoOp EXCEPT !.kind = kind, !.stage = "lookup", !.target = target,
                             !.value = r, !.short = short, !.queried = first,
                             !.waits = first, !.begun = now, !.values = values]]

\* bootstrap pings the peer it was told of ...
Ping(n) ==
    /\ state[n] = "up" /\ Idle(n)
    /\ op' = [op EXCEPT ![n] = [NoOp EXCEPT !.kind = "join", !.stage = "ping",
                                            !.waits = {Boot[n]}]]
    /\ UNCHANGED <<env, state, table, storage, seeking, published>>

\* ... and looks up itself.
Pinged(n) ==
    /\ op[n].stage = "ping" /\ op[n].waits = {}
    /\ Begin(n, "join", n, NoRecord, {})
    /\ UNCHANGED <<env, state, table, storage, seeking, published>>

\* announce_provider with a record made now; bound: once in a unit of time.
Announce(n) ==
    /\ state[n] = "joined" /\ Idle(n) /\ Offers[n] # NoKey
    /\ [of |-> n, ts |-> now] \notin {a[1] : a \in published}
    /\ Begin(n, "put", Offers[n], [of |-> n, ts |-> now], {})
    /\ UNCHANGED <<env, state, table, storage, seeking, published>>

\* find_providers, which begins with what n holds itself; bound: to the end once.
Search(n, key) ==
    /\ state[n] = "joined" /\ Idle(n) /\ n \in Seeker /\ found[n] = Nothing
    /\ Expire(n, key)
    /\ Begin(n, "get", key, NoRecord, {h[2] : h \in Fresh(n, key)})
    /\ due' = [due EXCEPT ![n] = {a[1] : a \in {b \in published : b[2] = key}}]
    /\ UNCHANGED <<env, state, table, found, published>>

Candidates(n) == Closest(op[n].short \ op[n].queried, op[n].target, Alpha)

\* lookup calls the closest it has not called yet.
Round(n) ==
    /\ op[n].stage = "lookup" /\ op[n].waits = {} /\ Candidates(n) # {}
    /\ op' = [op EXCEPT ![n].queried = @ \cup Candidates(n), ![n].waits = Candidates(n)]
    /\ UNCHANGED <<env, state, table, storage, seeking, published>>

LookedUp(n) == op[n].stage = "lookup" /\ op[n].waits = {} /\ Candidates(n) = {}

\* Mutant: a peer that has once answered is all that lookup returns.
Targets_One(n) == Closest(op[n].short, op[n].target, 1)

\* What lookup returns: the closest it has heard of, whether they answered or not.
Targets(n) == Closest(op[n].short, op[n].target, K)

Joined(n) ==
    /\ LookedUp(n) /\ op[n].kind = "join"
    /\ state' = [state EXCEPT ![n] = "joined"]
    /\ op' = [op EXCEPT ![n] = NoOp]
    /\ UNCHANGED <<env, table, storage, seeking, published>>

\* put keeps a copy if n is one of the closest, and has the closest store.
Put(n) ==
    /\ LookedUp(n) /\ op[n].kind = "put"
    /\ LET t == op[n].target
       IN IF Cardinality(Targets(n)) < K \/ \E m \in Targets(n) : Dist[t][m] > Dist[t][n]
          THEN Store(n, t, op[n].value) ELSE UNCHANGED storage
    /\ op' = [op EXCEPT ![n].stage = "ask", ![n].waits = Targets(n)]
    /\ UNCHANGED <<env, state, table, seeking, published>>

\* get asks the closest for what they hold.
Get(n) ==
    /\ LookedUp(n) /\ op[n].kind = "get"
    /\ op' = [op EXCEPT ![n].stage = "ask", ![n].waits = Targets(n)]
    /\ UNCHANGED <<env, state, table, storage, seeking, published>>

\* The newest record of every provider in S that was fresh when the search began.
Listing(S, at) ==
    LET fresh == {r \in S : at - r.ts <= FindAge}
    IN {r \in fresh : \A q \in fresh : q.of = r.of => q.ts <= r.ts}

Finish(n) ==
    /\ op[n].stage = "ask" /\ op[n].waits = {}
    /\ op' = [op EXCEPT ![n] = NoOp]
    /\ IF op[n].kind = "put"
       THEN /\ published' = published \cup {<<op[n].value, op[n].target>>}
            /\ UNCHANGED found
       ELSE /\ found' = [found EXCEPT ![n] = [at |-> op[n].begun, until |-> now,
                                               listed |-> Listing(op[n].values, op[n].begun)]]
            /\ UNCHANGED published
    /\ UNCHANGED <<env, state, table, storage, due>>

----------------------------------------------------------------------------
\* Calls.  A datagram and the one that answers it are one step.

\* m has n's datagram: what it does, and what it answers.
Serve(n, m) ==
    LET o == op[n]
    IN IF o.stage = "ask" /\ o.kind = "put" THEN Store(m, o.target, o.value)
       ELSE IF o.stage = "ask" THEN Expire(m, o.target)
       ELSE UNCHANGED storage

\* m has added n before it answers.
Nodes(n, m) ==
    IF op[n].stage # "lookup" THEN {} ELSE Closest(Known(m)', op[n].target, K)

Values(n, m) ==
    IF op[n].stage = "ask" /\ op[n].kind = "get"
    THEN {h[2] : h \in Fresh(m, op[n].target)} ELSE {}

Called(n, m) == m \in op[n].waits /\ state[m] # "down"

\* n has m's answer in time.
Answer(n, m) ==
    /\ Called(n, m)
    /\ Serve(n, m)
    /\ table' = [table EXCEPT ![m] = Added(m, n), ![n] = Added(n, m)]
    /\ op' = [op EXCEPT ![n].waits = @ \ {m},
                        ![n].short = @ \cup (Nodes(n, m) \ {n}),
                        ![n].values = @ \cup Values(n, m)]
    /\ UNCHANGED <<env, state, seeking, published>>

\* RPC_TIMEOUT: n does without the answer and forgets m.  The call of bootstrap
\* is to a made-up id.
GiveUp(n, m) == IF op[n].stage = "ping" THEN table[n] ELSE Removed(n, m)

\* m's answer comes late: of all it says, only that m is there has an effect.
Late(n, m) ==
    /\ Called(n, m) /\ n \in Cut /\ faults < MaxFaults
    /\ faults' = faults + 1
    /\ Serve(n, m)
    /\ \E mine \in {GiveUp(n, m), Added(n, m)} :
          table' = [table EXCEPT ![m] = Added(m, n), ![n] = mine]
    /\ op' = [op EXCEPT ![n].waits = @ \ {m}]
    /\ UNCHANGED <<now, state, seeking, published>>

\* n's datagram is lost, or nobody is there.
Lost(n, m) ==
    /\ m \in op[n].waits
    /\ IF state[m] = "down" THEN UNCHANGED faults
       ELSE n \in Cut /\ faults < MaxFaults /\ faults' = faults + 1
    /\ table' = [table EXCEPT ![n] = GiveUp(n, m)]
    /\ op' = [op EXCEPT ![n].waits = @ \ {m}]
    /\ UNCHANGED <<now, state, storage, seeking, published>>

----------------------------------------------------------------------------
\* A process ends.  All it knew was in its memory.
Stop(n) ==
    /\ state[n] # "down" /\ n \in Frail /\ faults < MaxFaults
    /\ faults' = faults + 1
    /\ state' = [state EXCEPT ![n] = "down"]
    /\ table' = [table EXCEPT ![n] = <<>>]
    /\ slots' = [slots EXCEPT ![n] = {}] /\ held' = [held EXCEPT ![n] = {}]
    /\ op' = [op EXCEPT ![n] = NoOp]
    /\ UNCHANGED <<now, seeking, published>>

\* It is started again.
Restart(n) ==
    /\ state[n] = "down"
    /\ state' = [state EXCEPT ![n] = IF Boot[n] = NoNode THEN "joined" ELSE "up"]
    /\ UNCHANGED <<env, table, storage, op, seeking, published>>

Tick ==
    /\ now < MaxTime /\ now' = now + 1
    /\ UNCHANGED <<faults, state, table, storage, op, seeking, published>>

Proceed(n) ==
    \/ Ping(n) \/ Pinged(n) \/ Round(n) \/ Joined(n) \/ Put(n) \/ Get(n) \/ Finish(n)
    \/ \E m \in Node : Answer(n, m) \/ Late(n, m) \/ Lost(n, m)

Next ==
    \/ \E n \in Node : Announce(n) \/ Proceed(n) \/ Stop(n) \/ Restart(n)
    \/ \E n \in Node, key \in Key : Search(n, key)
    \/ Tick

Spec == Init /\ [][Next]_vars

----------------------------------------------------------------------------
\* As long as fewer than K calls have failed and peers have gone: a provider
\* whose announcement was complete when a search began is in its listing, with
\* that announcement or a later one, unless the announcement ran out before the
\* search ended.
AnnouncedIsFound ==
    \A n \in Node : faults < K /\ Idle(n) /\ found[n] # Nothing =>
        \A r \in due[n] :
            r.ts + Ttl >= found[n].until
            => \E q \in found[n].listed : q.of = r.of /\ q.ts >= r.ts
=============================================================================
