---------------------------- MODULE PaidExecution ----------------------------
(***************************************************************************)
(* Selling a chunk (src/kemi/node.py, _on_task_execute): the payment that  *)
(* comes with a request is validated, shown to the payer's witnesses,      *)
(* worked for and only then applied.  Each of these steps ends at an await *)
(* and other requests, pushes and pulls run in between.  A consumer signs  *)
(* a payment for each request (consumer.py, worker), so a request is named *)
(* by its payment; a request repeated with the same payment, which add_tx  *)
(* calls known and which is served again, is left out.  Committees are     *)
(* fixed: a lookup is cached for WITNESS_CACHE_TTL and all providers rank  *)
(* the same DHT neighbours.  A node under no discipline answers an ask and *)
(* pushes what it likes; what it keeps itself is of no interest.           *)
(***************************************************************************)
EXTENDS GossipLedger

CONSTANTS
    Node,           \* nodes of the swarm; any may provide or witness
    Committee,      \* Committee[p]: the witnesses p consults (_witness_check)
    Price,          \* what a request costs
    MaxWorkers,     \* max_workers
    Rogue,          \* nodes that witness and push as they please
    Loot            \* the transfers they have got hold of

WitnessQuorum == 2

ASSUME SwarmAssumption ==
    /\ Node \subseteq Account
    /\ Committee \in [Node -> SUBSET Node]
    /\ \A p \in Node : p \notin Committee[p] /\ IsFiniteSet(Committee[p])
    /\ MaxWorkers \in Nat \ {0}
    /\ Rogue \subseteq Node
    /\ Loot \subseteq Transfer
    /\ Price \in Nat

\* A request carries a transfer to its provider, which follows the code.
ASSUME PaymentAssumption == \A t \in Transfer : t.to \in Node \ Rogue

VARIABLES
    db,         \* db[n]: the ledger of node n
    condemned,  \* condemned[n]: accounts n's reputation store has condemned
    stage,      \* stage[t]: how far the request paid with t has come
    reply,      \* reply[t][w]: what witness w has answered about t
    free,       \* free[p]: free places of p's _work_semaphore
    rumour      \* rumour[n]: transfers that reached n before anyone asked n

vars == <<db, condemned, stage, reply, free, rumour>>

Stages == {"absent", "asking", "queued", "working",
           "rejected", "vetoed", "failed", "conflict", "served"}

\* The request has been answered.
Over == {"rejected", "vetoed", "failed", "conflict", "served"}

Awaited == [kind |-> "awaited", evidence |-> {}]

Silence == [kind |-> "silent", evidence |-> {}]

Rivals(r, t) == {u \in TxsOf(r) : SameSlot(t, u) /\ u # t}

Init ==
    /\ db = [n \in Node |-> EmptyReplica]
    /\ condemned = [n \in Node |-> {}]
    /\ stage = [t \in Transfer |-> "absent"]
    /\ reply = [t \in Transfer |-> [w \in Node |-> Awaited]]
    /\ free = [p \in Node |-> MaxWorkers]
    /\ rumour = [n \in Node |-> {}]

Reach(t, s) == stage' = [stage EXCEPT ![t] = s]

\* add_tx at n; a conflict met by a push or an ask condemns the sender.
Store(n, t) == db' = [db EXCEPT ![n] = AddTx(@, t, 0)]

Condemn(n, a) == condemned' = [condemned EXCEPT ![n] = @ \cup {a}]

----------------------------------------------------------------------------
\* The provider.

\* _validate_payment, against this replica and this moment.
Valid(p, t) ==
    /\ t.authentic
    /\ t.amount >= Price
    /\ ~IsFlagged(db[p], t.from)
    /\ t.from \notin condemned[p]
    /\ Balance(db[p], t.from) >= t.amount

Request(t) ==
    /\ stage[t] = "absent"
    /\ Reach(t, IF Valid(t.to, t) THEN "asking" ELSE "rejected")
    /\ UNCHANGED <<db, condemned, reply, free, rumour>>

Answered(t) == \A w \in Committee[t.to] : reply[t][w] # Awaited

Saying(t, kind) == {w \in Committee[t.to] : reply[t][w].kind = kind}

Reachable(t) == Committee[t.to] \ Saying(t, "silent")

\* Mutant: the quorum is not adapted to who is reachable.
Required_Fixed(t) == IF Committee[t.to] = {} THEN 0 ELSE WitnessQuorum

Required(t) == Min({WitnessQuorum, Cardinality(Reachable(t))})

Funded(t) ==
    /\ Saying(t, "conflict") = {}
    /\ Cardinality(Saying(t, "receipt")) >= Required(t)

\* The committee's answers are in.
Accept(t) ==
    /\ stage[t] = "asking" /\ Answered(t)
    /\ Funded(t)
    /\ Reach(t, "queued")
    /\ UNCHANGED <<db, condemned, reply, free, rumour>>

\* The evidence of a conflict goes through add_tx, which need not take it.
Keep(p, E) ==
    \/ E = {} /\ UNCHANGED <<db, rumour>>
    \/ \E u \in E : /\ Store(p, u)
                    /\ rumour' = [rumour EXCEPT ![p] = @ \cup {u}]

\* A witness that says "conflict" is believed, whatever it shows for it.
Veto(t) ==
    /\ stage[t] = "asking" /\ Answered(t)
    /\ ~Funded(t)
    /\ Reach(t, "vetoed")
    /\ \/ /\ Saying(t, "conflict") = {}
          /\ UNCHANGED <<db, condemned, rumour>>
       \/ \E w \in Saying(t, "conflict") :
             /\ Keep(t.to, reply[t][w].evidence)
             /\ Condemn(t.to, t.from)
    /\ UNCHANGED <<reply, free>>

Begin(t) ==
    /\ stage[t] = "queued" /\ free[t.to] > 0
    /\ free' = [free EXCEPT ![t.to] = @ - 1]
    /\ Reach(t, "working")
    /\ UNCHANGED <<db, condemned, reply, rumour>>

\* Mutant: a failed task does not give its place back.
Release_Leak(t, s) == free' = IF s = "failed" THEN free
                              ELSE [free EXCEPT ![t.to] = @ + 1]

Release(t, s) == free' = [free EXCEPT ![t.to] = @ + 1]

\* TaskError, SandboxError or the task's timeout: the payment is not applied.
Fail(t) ==
    /\ stage[t] = "working"
    /\ Release(t, "failed") /\ Reach(t, "failed")
    /\ UNCHANGED <<db, condemned, reply, rumour>>

\* Mutant: the result goes out without the payment being applied.
Settle_Unpaid(t) == UNCHANGED db

Settle(t) == Store(t.to, t)

\* How the last add_tx ends a request: only a transfer it refuses to store or
\* stores as a conflict keeps the result back.
Outcome(r, t) ==
    CASE AddStatus(r, t, 0) = "invalid"  -> "rejected"
      [] AddStatus(r, t, 0) = "conflict" -> "conflict"
      [] OTHER                           -> "served"

\* "Payment before result".
Finish(t) ==
    /\ stage[t] = "working"
    /\ Settle(t)
    /\ LET s == Outcome(db[t.to], t)
       IN /\ Release(t, s) /\ Reach(t, s)
          /\ IF s = "conflict" THEN Condemn(t.to, t.from)
                               ELSE UNCHANGED condemned
    /\ UNCHANGED <<reply, rumour>>

----------------------------------------------------------------------------
\* The witnesses.

\* Mutant: whatever the ledger takes in is receipted.
Answer_Blind(r, t) ==
    IF AddStatus(r, t, 0) = "invalid" THEN {[kind |-> "refused", evidence |-> {}]}
                                      ELSE {[kind |-> "receipt", evidence |-> {}]}

\* What _on_tx_witness answers about t, given what add_tx said.
Answer(r, t) ==
    CASE AddStatus(r, t, 0) = "conflict" ->
            {[kind |-> "conflict", evidence |-> {u}] : u \in Rivals(r, t)}
      [] AddStatus(r, t, 0) = "invalid" -> {[kind |-> "refused", evidence |-> {}]}
      [] OTHER -> {[kind |-> "receipt", evidence |-> {}]}

Asks(t, w) ==
    /\ stage[t] = "asking" /\ w \in Committee[t.to]
    /\ reply[t][w] = Awaited

\* w handles the ask; its reply arrives, or is lost after w has acted on it.
Witness(t, w) ==
    /\ Asks(t, w) /\ w \notin Rogue
    /\ Store(w, t)
    /\ IF AddStatus(db[w], t, 0) = "conflict" THEN Condemn(w, t.from)
                                             ELSE UNCHANGED condemned
    /\ \E a \in Answer(db[w], t) \cup {Silence} :
          reply' = [reply EXCEPT ![t][w] = a]
    /\ UNCHANGED <<stage, free, rumour>>

\* The ask never arrives.
Unreachable(t, w) ==
    /\ Asks(t, w)
    /\ reply' = [reply EXCEPT ![t][w] = Silence]
    /\ UNCHANGED <<db, condemned, stage, free, rumour>>

\* What a reply may say; a conflict need not show a transfer.
Testimony ==
    [kind : {"receipt", "refused", "conflict"}, evidence : {{}}]
        \cup [kind : {"conflict"}, evidence : {{u} : u \in Loot}]

\* A rogue says what it likes, a conflict without a rival included.
Mislead(t, w) ==
    /\ Asks(t, w) /\ w \in Rogue
    /\ \E a \in Testimony : reply' = [reply EXCEPT ![t][w] = a]
    /\ UNCHANGED <<db, condemned, stage, free, rumour>>

----------------------------------------------------------------------------
\* Gossip.

\* What n can pass on.
Offers(n) == IF n \in Rogue THEN Loot ELSE TxsOf(db[n])

Learn(n, m, t) ==
    /\ n # m /\ t \in Offers(n)
    /\ m \notin Rogue
    /\ AddStatus(db[m], t, 0) \in Stored
    /\ Store(m, t)
    /\ rumour' = [rumour EXCEPT ![m] = @ \cup {t}]
    /\ UNCHANGED <<stage, reply, free>>

\* A push records a conflict, a pull does not.
Push(n, m, t) ==
    /\ Learn(n, m, t)
    /\ AddStatus(db[m], t, 0) = "conflict"
    /\ Condemn(m, t.from)

Pull(n, m, t) == Learn(n, m, t) /\ UNCHANGED condemned

Handle(t) == Accept(t) \/ Veto(t) \/ Begin(t) \/ Fail(t) \/ Finish(t)

Consult(t, w) == Witness(t, w) \/ Mislead(t, w) \/ Unreachable(t, w)

Advance(t) == Handle(t) \/ \E w \in Node : Consult(t, w)

Next ==
    \/ \E t \in Transfer : Request(t) \/ Advance(t)
    \/ \E n, m \in Node, t \in Transfer : Push(n, m, t) \/ Pull(n, m, t)

Spec == Init /\ [][Next]_vars

\* The event loop runs what is ready, an ask ends within WITNESS_TIMEOUT and a
\* task within task_timeout; the gossip loop of a node that follows the code
\* pulls what it lacks from the others that do.
Fairness ==
    /\ \A t \in Transfer : WF_vars(Advance(t))
    /\ \A m \in Node \ Rogue :
          WF_vars(\E n \in Node \ (Rogue \cup {m}) : \E t \in TxsOf(db[n]) : Pull(n, m, t))

FairSpec == Spec /\ Fairness

----------------------------------------------------------------------------
Kinds == {"awaited", "silent", "receipt", "conflict", "refused"}

\* The type invariant.
TypeOK ==
    /\ db = [n \in Node |-> db[n]]
    /\ \A n \in Node : ReplicaShape(db[n])
    /\ condemned \in [Node -> SUBSET Account]
    /\ stage \in [Transfer -> Stages]
    /\ reply \in [Transfer -> [Node -> [kind : Kinds, evidence : SUBSET Transfer]]]
    /\ free \in [Node -> 0..MaxWorkers]
    /\ rumour \in [Node -> SUBSET Transfer]

Exists(t) == \E n \in Node : t \in TxsOf(db[n])

\* A witness of p under no discipline has claimed a conflict about t, or
\* withheld its receipt.
Slandered(t) ==
    \E w \in Committee[t.to] \cap Rogue : reply[t][w].kind = "conflict"

Withheld(t) ==
    \E w \in Committee[t.to] \cap Rogue : reply[t][w].kind = "refused"

\* No payment is turned down and nobody is condemned on suspicion: behind every
\* veto, conflict and condemnation there is a rival transfer that some node
\* holds, whatever witnesses are silent and whoever heard of the transfer first.
\* A payer who signs a seq once is vetoed only where a rogue sat in the
\* provider's own committee and lied about that payment, and condemned only by
\* that provider: a lie goes no further than the provider it was told to.
BlameIsBacked ==
    /\ \A t \in Transfer :
          WellFormed(t, 0) /\ (\A u \in Transfer : SameSlot(t, u) /\ Exists(u) => u = t) =>
              /\ stage[t] # "conflict"
              /\ stage[t] = "vetoed" => Slandered(t) \/ Withheld(t)
    /\ \A n \in Node : \A a \in condemned[n] :
          \/ \E t, u \in Transfer :
                t.from = a /\ SameSlot(t, u) /\ u # t /\ Exists(t) /\ Exists(u)
          \/ \E t \in Transfer : t.from = a /\ t.to = n /\ Slandered(t)

\* The lock: a witness that follows the code signs receipts for two rival
\* transfers only if gossip had brought one of them there before it was asked.
LockHolds ==
    \A t, u \in Transfer :
        t # u /\ SameSlot(t, u) =>
            \A w \in (Committee[t.to] \cap Committee[u.to]) \ Rogue :
                reply[t][w].kind = "receipt" /\ reply[u][w].kind = "receipt"
                    => rumour[w] \cap {t, u} # {}

\* What prevention amounts to: of two rival transfers both are paid out only if
\* every witness that both providers asked and that follows the code failed to
\* answer one of them, or had one of them from gossip before anybody asked.
\* Nobody outvotes a witness, a rogue that receipts everything included.
BothServedExplained ==
    \A t, u \in Transfer :
        t # u /\ SameSlot(t, u) /\ stage[t] = "served" /\ stage[u] = "served" =>
            \A w \in (Committee[t.to] \cap Committee[u.to]) \ Rogue :
                \/ "silent" \in {reply[t][w].kind, reply[u][w].kind}
                \/ rumour[w] \cap {t, u} # {}

\* Every request is answered: no place is lost and no committee is waited for
\* forever, so that again and again no request is pending.
EveryRequestAnswered ==
    []<>(\A t \in Transfer : stage[t] \in Over \cup {"absent"})

DoublyFunded(a) ==
    \E t, u \in Transfer :
        /\ t.from = a /\ SameSlot(t, u) /\ t # u
        /\ stage[t] = "served" /\ stage[u] = "served"

\* Detection where prevention failed: when two rival transfers were both paid
\* out, every node that follows the code comes to flag the payer.
DoubleFundingDetected ==
    \A a \in {t.from : t \in Transfer} :
        DoublyFunded(a) ~> \A n \in Node \ Rogue : a \in Proven(db[n])

----------------------------------------------------------------------------
\* "witnesses lock the first transfer seen per (sender, seq), co-sign a receipt
\* and veto conflicts: of two racing payments at most one wins" -- for payments
\* that nobody failed to answer about, before one committee.
AtMostOneFunded ==
    \A t, u \in Transfer :
        /\ t # u /\ SameSlot(t, u)
        /\ Committee[t.to] = Committee[u.to] /\ Committee[t.to] # {}
        /\ Saying(t, "silent") \cup Saying(u, "silent") = {}
        => ~(stage[t] = "served" /\ stage[u] = "served")
=============================================================================
