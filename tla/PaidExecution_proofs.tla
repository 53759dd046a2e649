------------------------ MODULE PaidExecution_proofs ------------------------
(***************************************************************************)
(* Theorems about PaidExecution for every swarm and set of transfers.      *)
(***************************************************************************)
EXTENDS PaidExecution, FiniteSetTheorems, TLAPS

\* The parts of TypeOK that are preserved each for its own reason.
LedgersTyped == db = [n \in Node |-> db[n]] /\ \A n \in Node : ReplicaShape(db[n])

Reply == [kind : Kinds, evidence : SUBSET Transfer]

RecordsTyped ==
    /\ condemned \in [Node -> SUBSET Account]
    /\ stage \in [Transfer -> Stages]
    /\ reply \in [Transfer -> [Node -> Reply]]
    /\ rumour \in [Node -> SUBSET Transfer]

\* Nothing is ever folded into a baseline here.
Unfolded == \A n \in Node : \A a \in Account : db[n].base[a].seq = 0

\* Each place taken is held by a request that is being worked for.
Working(p) == {t \in Transfer : t.to = p /\ stage[t] = "working"}

Seats ==
    \A p \in Node :
        IsFiniteSet(Working(p)) /\ free[p] + Cardinality(Working(p)) = MaxWorkers

\* A request under way carries an authentic payment.
Genuine ==
    \A t \in Transfer : stage[t] \notin {"absent", "rejected"} => t.authentic

\* Who signed a receipt or a conflict holds the transfer; the evidence sent
\* with a conflict is a rival that the witness holds; only a malformed or
\* forged transfer is refused.
Truthful(t, w) ==
    /\ reply[t][w].kind \in {"receipt", "conflict"} => t \in TxsOf(db[w])
    /\ reply[t][w].kind = "conflict" =>
          reply[t][w].evidence \subseteq Rivals(db[w], t) /\ Rivals(db[w], t) # {}
    /\ reply[t][w].kind = "refused" => ~WellFormed(t, 0) \/ ~t.authentic

\* A witness that follows the code answers truthfully.
Answers ==
    \A t \in Transfer, w \in Node :
        /\ reply[t][w].kind = "awaited" => reply[t][w] = Awaited
        /\ w \notin Rogue => Truthful(t, w)

\* A transfer is at a node because it was paid there, because gossip brought
\* it, or because the node was asked about it.
Heard ==
    \A w \in Node : \A t \in TxsOf(db[w]) :
        w = t.to \/ t \in rumour[w] \/ reply[t][w] # Awaited

\* The inductive invariant.
PInv ==
    /\ TypeOK /\ Unfolded /\ Seats /\ Genuine /\ Answers /\ Heard
    /\ LockHolds /\ BlameIsBacked

\* No step takes a transfer away.
Grows == \A n \in Node : TxsOf(db[n]) \subseteq TxsOf(db'[n])

----------------------------------------------------------------------------
\* Storing.

LEMMA EmptyReplicaShape == ReplicaShape(EmptyReplica) /\ TxsOf(EmptyReplica) = {}
BY DEF ReplicaShape, Replica, EmptyReplica, TxsOf, NoBase

\* add_tx stores at most the transfer it is given, and that in two cases.
LEMMA AddTxEffect ==
    ASSUME NEW r, ReplicaShape(r), NEW t \in Transfer, NEW clock
    PROVE  LET q == AddTx(r, t, clock) IN
             /\ ReplicaShape(q) /\ q.base = r.base
             /\ TxsOf(q) = IF AddStatus(r, t, clock) \in Stored THEN TxsOf(r) \cup {t}
                                                               ELSE TxsOf(r)
<1> DEFINE s == Append(r.rows, t)
           q == [r EXCEPT !.rows = s]
<1>1. r.rows \in Seq(Transfer) BY DEF ReplicaShape, Replica
<1>2. /\ s \in Seq(Transfer) /\ DOMAIN s = 1..(Len(r.rows) + 1)
      /\ DOMAIN r.rows = 1..Len(r.rows) /\ Len(r.rows) \in Nat
      /\ \A i \in 1..Len(r.rows) : s[i] = r.rows[i]
      /\ s[Len(r.rows) + 1] = t
  BY <1>1
<1>3. AddTx(r, t, clock) = IF AddStatus(r, t, clock) \in Stored THEN q ELSE r
  BY DEF AddTx
<1> HIDE DEF s
<1>4. ReplicaShape(q) /\ q.rows = s /\ q.base = r.base
  BY <1>2 DEF ReplicaShape, Replica
<1> HIDE DEF q
<1>5. TxsOf(q) = TxsOf(r) \cup {t} BY <1>2, <1>4 DEF TxsOf
<1> QED BY <1>3, <1>4, <1>5

LEMMA StatusHolds ==
    ASSUME NEW r, ReplicaShape(r), NEW t \in Transfer, NEW clock,
           r.base[t.from].seq = 0
    PROVE  /\ AddStatus(r, t, clock) # "invalid" => t \in TxsOf(AddTx(r, t, clock))
           /\ AddStatus(r, t, clock) = "invalid" =>
                 ~WellFormed(t, clock) \/ ~t.authentic
           /\ AddStatus(r, t, clock) = "conflict" => Rivals(r, t) # {}
           /\ AddStatus(r, t, clock) = "known" => t \in TxsOf(r)
           /\ AddStatus(r, t, clock) = "new" => Rivals(r, t) = {}
           /\ AddStatus(r, t, clock) # "stale"
<1>1. TxsOf(r) \subseteq Transfer
  <2>1. r.rows \in Seq(Transfer)
    BY DEF ReplicaShape, Replica
  <2> QED BY <2>1 DEF TxsOf
<1>2. t.seq \in Int /\ (WellFormed(t, clock) => ~IsStale(r, t))
  BY TransferAssumption DEF TransferRecord, WellFormed, IsStale
<1>3. IsKnown(r, t) <=> t \in TxsOf(r)
  BY <1>1, TransferAssumption DEF IsKnown
<1>4. AddStatus(r, t, clock) \in Stored => t \in TxsOf(AddTx(r, t, clock))
  BY AddTxEffect
<1>5. AddStatus(r, t, clock) = "known" => t \in TxsOf(AddTx(r, t, clock))
  BY <1>3 DEF AddTx, AddStatus, Stored
<1>6. AddStatus(r, t, clock) \in {"invalid", "known"} \cup Stored
  BY <1>2 DEF AddStatus, Stored
<1>7. AddStatus(r, t, clock) = "invalid" => ~WellFormed(t, clock) \/ ~t.authentic
  BY DEF AddStatus
<1>8. AddStatus(r, t, clock) = "conflict" => Rivals(r, t) # {}
  BY <1>3 DEF AddStatus, Rivals
<1>9. AddStatus(r, t, clock) = "known" => t \in TxsOf(r)
  BY <1>3 DEF AddStatus
<1>10. AddStatus(r, t, clock) = "new" => Rivals(r, t) = {}
  BY DEF AddStatus, Rivals
<1> QED BY <1>4, <1>5, <1>6, <1>7, <1>8, <1>9, <1>10 DEF Stored

\* What storing t at m leaves behind everywhere.
LEMMA StoreEffect ==
    ASSUME TypeOK, Unfolded, NEW m \in Node, NEW t \in Transfer, Store(m, t)
    PROVE  /\ LedgersTyped' /\ Unfolded' /\ Grows
           /\ \A n \in Node : n # m => db'[n] = db[n]
           /\ TxsOf(db'[m]) \subseteq TxsOf(db[m]) \cup {t}
           /\ AddStatus(db[m], t, 0) # "invalid" => t \in TxsOf(db'[m])
<1> DEFINE q == AddTx(db[m], t, 0)
<1>1. /\ db' = [db EXCEPT ![m] = q]
      /\ db = [n \in Node |-> db[n]] /\ \A n \in Node : ReplicaShape(db[n])
  BY DEF Store, TypeOK
<1>2. /\ ReplicaShape(q) /\ q.base = db[m].base
      /\ TxsOf(q) = TxsOf(db[m]) \/ TxsOf(q) = TxsOf(db[m]) \cup {t}
  BY <1>1, AddTxEffect
<1>3. t.from \in Account
  BY TransferAssumption DEF TransferRecord
<1>4. AddStatus(db[m], t, 0) # "invalid" => t \in TxsOf(q)
  BY <1>1, <1>3, StatusHolds DEF Unfolded
<1> HIDE DEF q
<1>5. db' = [n \in Node |-> IF n = m THEN q ELSE db[n]]
  BY <1>1
<1>6. db'[m] = q /\ \A n \in Node : n # m => db'[n] = db[n]
  BY <1>5
<1>7. db' = [n \in Node |-> db'[n]]
  BY <1>5
<1>8. \A n \in Node : ReplicaShape(db'[n]) /\ db'[n].base = db[n].base
  BY <1>1, <1>2, <1>6
<1>9. LedgersTyped' /\ Unfolded'
  BY <1>7, <1>8 DEF LedgersTyped, Unfolded
<1>10. Grows
  BY <1>2, <1>6 DEF Grows
<1> QED BY <1>2, <1>4, <1>6, <1>7, <1>8, <1>9, <1>10

\* Leaving the ledgers alone is the smallest store.
LEMMA KeepEffect ==
    ASSUME TypeOK, Unfolded, UNCHANGED db
    PROVE  LedgersTyped' /\ Unfolded' /\ Grows
BY DEF TypeOK, LedgersTyped, Unfolded, Grows

LEMMA EvidenceType ==
    ASSUME TypeOK, NEW t \in Transfer, NEW w \in Node
    PROVE  /\ reply[t][w] \in [kind : Kinds, evidence : SUBSET Transfer]
           /\ reply[t][w].evidence \subseteq Transfer /\ reply[t][w].kind \in Kinds
BY DEF TypeOK

\* A veto on a conflict condemns and stores a piece of evidence or nothing.
LEMMA VetoStores ==
    ASSUME TypeOK, NEW t \in Transfer, Veto(t)
    PROVE  \/ Saying(t, "conflict") = {} /\ UNCHANGED <<db, condemned, rumour>>
           \/ /\ Condemn(t.to, t.from)
              /\ \E w \in Committee[t.to] : reply[t][w].kind = "conflict"
              /\ \/ UNCHANGED <<db, rumour>>
                 \/ \E u \in Transfer :
                       /\ Store(t.to, u)
                       /\ rumour' = [rumour EXCEPT ![t.to] = @ \cup {u}]
<1>1. Saying(t, "conflict") \subseteq Node
  BY SwarmAssumption, PaymentAssumption DEF Saying
<1>2. \A w \in Saying(t, "conflict") :
         /\ w \in Committee[t.to] /\ reply[t][w].kind = "conflict"
         /\ reply[t][w].evidence \subseteq Transfer
  BY <1>1, EvidenceType DEF Saying
<1>3. CASE Saying(t, "conflict") = {} /\ UNCHANGED <<db, condemned, rumour>>
  BY <1>3
<1>4. ASSUME NEW w \in Saying(t, "conflict"), Keep(t.to, reply[t][w].evidence)
      PROVE  \/ UNCHANGED <<db, rumour>>
             \/ \E u \in Transfer : /\ Store(t.to, u)
                                   /\ rumour' = [rumour EXCEPT ![t.to] = @ \cup {u}]
  BY <1>2, <1>4 DEF Keep
<1> QED BY <1>2, <1>3, <1>4 DEF Veto

LEMMA StepDb ==
    ASSUME TypeOK, Unfolded, [Next]_vars
    PROVE  LedgersTyped' /\ Unfolded' /\ Grows
<1>1. ASSUME UNCHANGED db PROVE LedgersTyped' /\ Unfolded' /\ Grows
  BY <1>1, KeepEffect
<1>2. ASSUME NEW m \in Node, NEW t \in Transfer, Store(m, t) PROVE LedgersTyped' /\ Unfolded' /\ Grows
  BY <1>2, StoreEffect
<1>3. ASSUME NEW t \in Transfer, Request(t) \/ Accept(t) \/ Begin(t) \/ Fail(t)
      PROVE LedgersTyped' /\ Unfolded' /\ Grows
  BY <1>1, <1>3 DEF Request, Accept, Begin, Fail
<1>4. ASSUME NEW t \in Transfer, Veto(t) PROVE LedgersTyped' /\ Unfolded' /\ Grows
  BY <1>1, <1>2, <1>4, VetoStores, PaymentAssumption
<1>5. ASSUME NEW t \in Transfer, Finish(t) PROVE LedgersTyped' /\ Unfolded' /\ Grows
  BY <1>2, <1>5, PaymentAssumption DEF Finish, Settle
<1>6. ASSUME NEW t \in Transfer, NEW w \in Node, Witness(t, w) PROVE LedgersTyped' /\ Unfolded' /\ Grows
  BY <1>2, <1>6 DEF Witness
<1>7. ASSUME NEW t \in Transfer, NEW w \in Node, Mislead(t, w) \/ Unreachable(t, w)
      PROVE LedgersTyped' /\ Unfolded' /\ Grows
  BY <1>1, <1>7 DEF Mislead, Unreachable
<1>8. ASSUME NEW n \in Node, NEW m \in Node, NEW t \in Transfer,
             Push(n, m, t) \/ Pull(n, m, t)
      PROVE LedgersTyped' /\ Unfolded' /\ Grows
  BY <1>2, <1>8 DEF Push, Pull, Learn
<1>9. CASE UNCHANGED vars
  BY <1>1, <1>9 DEF vars
<1> QED
  BY <1>3, <1>4, <1>5, <1>6, <1>7, <1>8, <1>9 DEF Next, Advance, Handle, Consult

----------------------------------------------------------------------------
\* Types and seats.

LEMMA AnswerType ==
    ASSUME TypeOK, NEW t \in Transfer, NEW w \in Node, NEW a,
           a \in Answer(db[w], t) \cup {Silence}
    PROVE  a \in Reply
<1>1. TxsOf(db[w]) \subseteq Transfer
  <2>1. db[w].rows \in Seq(Transfer)
    BY DEF TypeOK, ReplicaShape, Replica
  <2> QED BY <2>1 DEF TxsOf
<1>2. \A u \in Rivals(db[w], t) :
         [kind |-> "conflict", evidence |-> {u}] \in Reply
  BY <1>1 DEF Rivals, Kinds, Reply
<1> QED BY <1>2 DEF Answer, Silence, Kinds, Reply

LEMMA TestimonyType == Testimony \subseteq Reply
BY SwarmAssumption DEF Testimony, Reply, Kinds

LEMMA StepTypes ==
    ASSUME TypeOK, [Next]_vars
    PROVE  RecordsTyped'
<1>1. /\ condemned \in [Node -> SUBSET Account] /\ stage \in [Transfer -> Stages]
      /\ reply \in [Transfer -> [Node -> Reply]] /\ rumour \in [Node -> SUBSET Transfer]
  BY DEF TypeOK, Reply
<1>2. \A t \in Transfer : t.to \in Node /\ t.from \in Account
  BY PaymentAssumption, TransferAssumption DEF TransferRecord
<1>3. ASSUME NEW t \in Transfer, NEW s \in Stages, Reach(t, s)
      PROVE stage' \in [Transfer -> Stages]
  BY <1>1, <1>3 DEF Reach
<1>4. ASSUME NEW n \in Node, NEW t \in Transfer, Condemn(n, t.from)
      PROVE condemned' \in [Node -> SUBSET Account]
  BY <1>1, <1>2, <1>4 DEF Condemn
<1>5. ASSUME NEW t \in Transfer, NEW w \in Node, NEW a \in Reply,
             reply' = [reply EXCEPT ![t][w] = a]
      PROVE reply' \in [Transfer -> [Node -> Reply]]
  BY <1>1, <1>5
<1>6. ASSUME NEW n \in Node, NEW t \in Transfer,
             rumour' = [rumour EXCEPT ![n] = @ \cup {t}]
      PROVE rumour' \in [Node -> SUBSET Transfer]
  BY <1>1, <1>6
<1>7. ASSUME NEW t \in Transfer, Request(t) \/ Accept(t) \/ Begin(t) \/ Fail(t)
      PROVE RecordsTyped'
  BY <1>1, <1>3, <1>7 DEF Request, Accept, Begin, Fail, Stages, RecordsTyped
<1>8. ASSUME NEW t \in Transfer, Veto(t) PROVE RecordsTyped'
  <2>1. stage' \in [Transfer -> Stages] /\ UNCHANGED reply
    BY <1>3, <1>8 DEF Veto, Stages
  <2>2. CASE UNCHANGED <<db, condemned, rumour>>
    BY <1>1, <2>1, <2>2 DEF RecordsTyped
  <2>3. ASSUME Condemn(t.to, t.from), rumour' \in [Node -> SUBSET Transfer]
        PROVE  RecordsTyped'
    BY <1>1, <1>2, <1>4, <2>1, <2>3 DEF RecordsTyped
  <2> QED BY <1>1, <1>2, <1>6, <1>8, <2>2, <2>3, VetoStores
<1>9. ASSUME NEW t \in Transfer, Finish(t) PROVE RecordsTyped'
  <2>1. Outcome(db[t.to], t) \in Stages
    BY DEF Outcome, Stages
  <2>2. stage' \in [Transfer -> Stages] /\ UNCHANGED <<reply, rumour>>
    BY <1>3, <1>9, <2>1 DEF Finish
  <2> QED BY <1>1, <1>2, <1>4, <1>9, <2>2 DEF Finish, RecordsTyped
<1>10. ASSUME NEW t \in Transfer, NEW w \in Node, Witness(t, w) PROVE RecordsTyped'
  <2>1. reply' \in [Transfer -> [Node -> Reply]]
    BY <1>5, <1>10, AnswerType DEF Witness
  <2> QED BY <1>1, <1>4, <1>10, <2>1 DEF Witness, RecordsTyped
<1>11. ASSUME NEW t \in Transfer, NEW w \in Node, Unreachable(t, w) PROVE RecordsTyped'
  <2>1. Silence \in Reply
    BY DEF Silence, Reply, Kinds
  <2> QED BY <1>1, <1>5, <1>11, <2>1 DEF Unreachable, RecordsTyped
<1>12. ASSUME NEW n \in Node, NEW m \in Node, NEW t \in Transfer,
             Push(n, m, t) \/ Pull(n, m, t)
      PROVE RecordsTyped'
  BY <1>1, <1>4, <1>6, <1>12 DEF Push, Pull, Learn, RecordsTyped
<1>13. CASE UNCHANGED vars
  BY <1>1, <1>13 DEF vars, RecordsTyped
<1>14. ASSUME NEW t \in Transfer, NEW w \in Node, Mislead(t, w) PROVE RecordsTyped'
  BY <1>1, <1>5, <1>14, TestimonyType DEF Mislead, RecordsTyped
<1> QED
  BY <1>7, <1>8, <1>9, <1>10, <1>11, <1>12, <1>13, <1>14 DEF Next, Advance, Handle, Consult

LEMMA KeepSeats ==
    ASSUME Seats, UNCHANGED free, free \in [Node -> 0..MaxWorkers],
           \A p \in Node : Working(p)' = Working(p)
    PROVE  Seats' /\ free' \in [Node -> 0..MaxWorkers]
BY DEF Seats

\* A request that neither starts nor stops working moves no seat.
LEMMA MoveIdle ==
    ASSUME TypeOK, NEW t \in Transfer, NEW s \in Stages, Reach(t, s),
           stage[t] # "working", s # "working"
    PROVE  \A p \in Node : Working(p)' = Working(p)
<1>1. \A u \in Transfer : stage'[u] = IF u = t THEN s ELSE stage[u]
  BY DEF Reach, TypeOK
<1> QED BY <1>1 DEF Working

LEMMA TakeSeat ==
    ASSUME TypeOK, Seats, NEW t \in Transfer, Begin(t)
    PROVE  Seats' /\ free' \in [Node -> 0..MaxWorkers]
<1>1. \A u \in Transfer : stage'[u] = IF u = t THEN "working" ELSE stage[u]
  BY DEF Begin, Reach, TypeOK
<1>2. /\ t.to \in Node /\ stage[t] = "queued" /\ free \in [Node -> 0..MaxWorkers]
      /\ MaxWorkers \in Nat /\ free[t.to] > 0
  BY PaymentAssumption, SwarmAssumption DEF Begin, TypeOK
<1>3. \A p \in Node : free'[p] = IF p = t.to THEN free[p] - 1 ELSE free[p]
  BY <1>2 DEF Begin
<1>4. free' \in [Node -> 0..MaxWorkers]
  BY <1>2 DEF Begin
<1>5. ASSUME NEW p \in Node, p # t.to
      PROVE  IsFiniteSet(Working(p)') /\ free'[p] + Cardinality(Working(p)') = MaxWorkers
  <2>1. Working(p)' = Working(p)
    BY <1>1, <1>5 DEF Working
  <2> QED BY <1>3, <1>5, <2>1 DEF Seats
<1>6. /\ IsFiniteSet(Working(t.to)')
      /\ free'[t.to] + Cardinality(Working(t.to)') = MaxWorkers
  <2>1. Working(t.to)' = Working(t.to) \cup {t} /\ t \notin Working(t.to)
    BY <1>1, <1>2 DEF Working
  <2>2. /\ IsFiniteSet(Working(t.to))
        /\ free[t.to] + Cardinality(Working(t.to)) = MaxWorkers
    BY <1>2 DEF Seats
  <2>3. /\ IsFiniteSet(Working(t.to) \cup {t})
        /\ Cardinality(Working(t.to) \cup {t}) = Cardinality(Working(t.to)) + 1
        /\ Cardinality(Working(t.to)) \in Nat
    BY <2>1, <2>2, FS_AddElement, FS_CardinalityType
  <2>4. free'[t.to] = free[t.to] - 1 /\ free[t.to] \in Nat
    BY <1>2, <1>3
  <2>5. free'[t.to] + Cardinality(Working(t.to) \cup {t}) = MaxWorkers
    BY <1>2, <2>2, <2>3, <2>4
  <2> QED BY <2>1, <2>3, <2>5
<1> QED BY <1>2, <1>4, <1>5, <1>6 DEF Seats

LEMMA GiveSeat ==
    ASSUME TypeOK, Seats, NEW t \in Transfer, NEW s \in Stages, s # "working",
           stage[t] = "working", Reach(t, s), Release(t, s)
    PROVE  Seats' /\ free' \in [Node -> 0..MaxWorkers]
<1>1. \A u \in Transfer : stage'[u] = IF u = t THEN s ELSE stage[u]
  BY DEF Reach, TypeOK
<1>2. /\ t.to \in Node /\ free \in [Node -> 0..MaxWorkers] /\ MaxWorkers \in Nat
  BY PaymentAssumption, SwarmAssumption DEF TypeOK
<1>3. \A p \in Node : free'[p] = IF p = t.to THEN free[p] + 1 ELSE free[p]
  BY <1>2 DEF Release
<1>4. ASSUME NEW p \in Node, p # t.to
      PROVE  IsFiniteSet(Working(p)') /\ free'[p] + Cardinality(Working(p)') = MaxWorkers
  <2>1. Working(p)' = Working(p)
    BY <1>1, <1>4 DEF Working
  <2> QED BY <1>3, <1>4, <2>1 DEF Seats
<1>5. /\ IsFiniteSet(Working(t.to)')
      /\ free'[t.to] + Cardinality(Working(t.to)') = MaxWorkers
      /\ free[t.to] < MaxWorkers
  <2>1. Working(t.to)' = Working(t.to) \ {t} /\ t \in Working(t.to)
    BY <1>1, <1>2 DEF Working
  <2>2. /\ IsFiniteSet(Working(t.to))
        /\ free[t.to] + Cardinality(Working(t.to)) = MaxWorkers
    BY <1>2 DEF Seats
  <2>3. /\ IsFiniteSet(Working(t.to) \ {t})
        /\ Cardinality(Working(t.to) \ {t}) = Cardinality(Working(t.to)) - 1
        /\ Cardinality(Working(t.to)) \in Nat
        /\ Cardinality(Working(t.to) \ {t}) \in Nat
    BY <2>1, <2>2, FS_RemoveElement, FS_CardinalityType
  <2>4. free'[t.to] = free[t.to] + 1 /\ free[t.to] \in Nat
    BY <1>2, <1>3
  <2>5. /\ free'[t.to] + Cardinality(Working(t.to) \ {t}) = MaxWorkers
        /\ free[t.to] < MaxWorkers
    BY <1>2, <2>2, <2>3, <2>4
  <2> QED BY <2>1, <2>3, <2>5
<1>6. free' \in [Node -> 0..MaxWorkers]
  BY <1>2, <1>5 DEF Release
<1> QED BY <1>2, <1>4, <1>5, <1>6 DEF Seats

LEMMA StepSeats ==
    ASSUME TypeOK, Seats, [Next]_vars
    PROVE  Seats' /\ free' \in [Node -> 0..MaxWorkers]
<1>1. free \in [Node -> 0..MaxWorkers]
  BY DEF TypeOK
<1>2. ASSUME UNCHANGED <<stage, free>>
      PROVE  Seats' /\ free' \in [Node -> 0..MaxWorkers]
  BY <1>1, <1>2, KeepSeats DEF Working
<1>3. ASSUME NEW t \in Transfer, Request(t) \/ Accept(t) \/ Veto(t)
      PROVE  Seats' /\ free' \in [Node -> 0..MaxWorkers]
  <2>1. /\ UNCHANGED free /\ stage[t] # "working"
        /\ \E s \in Stages : s # "working" /\ Reach(t, s)
    BY <1>3 DEF Request, Accept, Veto, Stages
  <2> QED BY <1>1, <2>1, MoveIdle, KeepSeats
<1>4. ASSUME NEW t \in Transfer, Begin(t)
      PROVE  Seats' /\ free' \in [Node -> 0..MaxWorkers]
  BY <1>4, TakeSeat
<1>5. ASSUME NEW t \in Transfer, Fail(t) \/ Finish(t)
      PROVE  Seats' /\ free' \in [Node -> 0..MaxWorkers]
  <2>1. /\ stage[t] = "working"
        /\ \E s \in Stages : s # "working" /\ Reach(t, s) /\ Release(t, s)
    BY <1>5 DEF Fail, Finish, Outcome, Stages
  <2> QED BY <2>1, GiveSeat
<1>6. ASSUME NEW t \in Transfer, NEW w \in Node, Consult(t, w)
      PROVE  Seats' /\ free' \in [Node -> 0..MaxWorkers]
  BY <1>2, <1>6 DEF Consult, Witness, Mislead, Unreachable
<1>7. ASSUME NEW n \in Node, NEW m \in Node, NEW t \in Transfer,
             Push(n, m, t) \/ Pull(n, m, t)
      PROVE  Seats' /\ free' \in [Node -> 0..MaxWorkers]
  BY <1>2, <1>7 DEF Push, Pull, Learn
<1>8. CASE UNCHANGED vars
  BY <1>2, <1>8 DEF vars
<1> QED BY <1>3, <1>4, <1>5, <1>6, <1>7, <1>8 DEF Next, Advance, Handle

----------------------------------------------------------------------------
\* What the answers stand for.

LEMMA StepGenuine ==
    ASSUME TypeOK, Genuine, [Next]_vars
    PROVE  Genuine'
<1>1. ASSUME NEW t \in Transfer, NEW s, Reach(t, s), s # "rejected" => t.authentic
      PROVE  Genuine'
  <2>1. \A u \in Transfer : stage'[u] = IF u = t THEN s ELSE stage[u]
    BY <1>1 DEF Reach, TypeOK
  <2> QED BY <1>1, <2>1 DEF Genuine
<1>2. ASSUME UNCHANGED stage PROVE Genuine'
  BY <1>2 DEF Genuine
<1>3. ASSUME NEW t \in Transfer, Request(t) PROVE Genuine'
  BY <1>1, <1>3 DEF Request, Valid
<1>4. ASSUME NEW t \in Transfer, Handle(t) PROVE Genuine'
  <2>1. t.authentic
    BY <1>4 DEF Handle, Accept, Veto, Begin, Fail, Finish, Genuine
  <2>2. \E s \in Stages : Reach(t, s)
    BY <1>4 DEF Handle, Accept, Veto, Begin, Fail, Finish, Outcome, Stages
  <2> QED BY <1>1, <2>1, <2>2
<1>5. ASSUME NEW t \in Transfer, NEW w \in Node, Consult(t, w) PROVE Genuine'
  BY <1>2, <1>5 DEF Consult, Witness, Mislead, Unreachable
<1>6. ASSUME NEW n \in Node, NEW m \in Node, NEW t \in Transfer,
             Push(n, m, t) \/ Pull(n, m, t)
      PROVE  Genuine'
  BY <1>2, <1>6 DEF Push, Pull, Learn
<1>7. CASE UNCHANGED vars
  BY <1>2, <1>7 DEF vars
<1> QED BY <1>3, <1>4, <1>5, <1>6, <1>7 DEF Next, Advance

\* A step answers for at most one witness: with silence, after that witness has
\* handled the ask, or with what a rogue likes.
LEMMA StepAnswer ==
    ASSUME TypeOK, [Next]_vars, NEW t \in Transfer, NEW w \in Node
    PROVE  \/ reply'[t][w] = reply[t][w]
           \/ reply[t][w] = Awaited /\ reply'[t][w] = Silence
           \/ reply[t][w] = Awaited /\ Witness(t, w)
              /\ reply'[t][w] \in Answer(db[w], t)
           \/ /\ reply[t][w] = Awaited /\ w \in Rogue
              /\ reply'[t][w] \in Testimony
<1>1. ASSUME NEW u \in Transfer, NEW v \in Node, NEW a,
             reply' = [reply EXCEPT ![u][v] = a]
      PROVE  reply'[t][w] = IF u = t /\ v = w THEN a ELSE reply[t][w]
  BY <1>1 DEF TypeOK
<1>2. ASSUME NEW u \in Transfer, NEW v \in Node, Witness(u, v)
      PROVE  \/ reply'[t][w] = reply[t][w]
             \/ reply[t][w] = Awaited /\ reply'[t][w] = Silence
             \/ reply[t][w] = Awaited /\ Witness(t, w)
                /\ reply'[t][w] \in Answer(db[w], t)
  <2>1. PICK a \in Answer(db[v], u) \cup {Silence} : reply' = [reply EXCEPT ![u][v] = a]
    BY <1>2 DEF Witness
  <2>2. reply[u][v] = Awaited
    BY <1>2 DEF Witness, Asks
  <2>3. reply'[t][w] = IF u = t /\ v = w THEN a ELSE reply[t][w]
    BY <1>1, <2>1
  <2>4. CASE u = t /\ v = w
    BY <1>2, <2>1, <2>2, <2>3, <2>4
  <2> QED BY <2>3, <2>4
<1>3. ASSUME NEW u \in Transfer, NEW v \in Node, Unreachable(u, v)
      PROVE  \/ reply'[t][w] = reply[t][w]
             \/ reply[t][w] = Awaited /\ reply'[t][w] = Silence
  BY <1>1, <1>3 DEF Unreachable, Asks
<1>4. ASSUME NEW u \in Transfer, Request(u) \/ Handle(u)
      PROVE  UNCHANGED reply
  BY <1>4 DEF Request, Handle, Accept, Veto, Begin, Fail, Finish
<1>5. ASSUME NEW n \in Node, NEW m \in Node, NEW u \in Transfer,
             Push(n, m, u) \/ Pull(n, m, u)
      PROVE  UNCHANGED reply
  BY <1>5 DEF Push, Pull, Learn
<1>6. CASE UNCHANGED vars
  BY <1>6 DEF vars
<1>7. ASSUME NEW u \in Transfer, NEW v \in Node, Mislead(u, v)
      PROVE  \/ reply'[t][w] = reply[t][w]
             \/ /\ reply[t][w] = Awaited /\ w \in Rogue
                /\ reply'[t][w] \in Testimony
  BY <1>1, <1>7 DEF Mislead, Asks
<1>8. CASE Next
  BY <1>2, <1>3, <1>4, <1>5, <1>7, <1>8 DEF Next, Advance, Consult
<1> QED BY <1>6, <1>8

\* An answer that has been given stands.
LEMMA AnswersStand ==
    ASSUME TypeOK, [Next]_vars, NEW t \in Transfer, NEW w \in Node,
           reply[t][w].kind # "awaited"
    PROVE  reply'[t][w] = reply[t][w]
<1>1. reply[t][w] # Awaited
  BY DEF Awaited
<1> QED BY <1>1, StepAnswer

LEMMA StepRumour ==
    ASSUME TypeOK, [Next]_vars, NEW n \in Node
    PROVE  rumour[n] \subseteq rumour'[n]
<1>1. ASSUME NEW m \in Node, NEW t, rumour' = [rumour EXCEPT ![m] = @ \cup {t}]
      PROVE  rumour[n] \subseteq rumour'[n]
  BY <1>1 DEF TypeOK
<1>2. ASSUME NEW t \in Transfer, Veto(t)
      PROVE  rumour[n] \subseteq rumour'[n]
  <2>1. \/ UNCHANGED rumour
        \/ \E u \in Transfer : rumour' = [rumour EXCEPT ![t.to] = @ \cup {u}]
    BY <1>2, VetoStores
  <2> QED BY <1>1, <2>1, PaymentAssumption
<1>3. ASSUME NEW t \in Transfer,
             Request(t) \/ Accept(t) \/ Begin(t) \/ Fail(t) \/ Finish(t)
      PROVE  UNCHANGED rumour
  BY <1>3 DEF Request, Accept, Begin, Fail, Finish
<1>4. ASSUME NEW t \in Transfer, NEW w \in Node, Consult(t, w)
      PROVE  UNCHANGED rumour
  BY <1>4 DEF Consult, Witness, Mislead, Unreachable
<1>5. ASSUME NEW k \in Node, NEW m \in Node, NEW t \in Transfer,
             Push(k, m, t) \/ Pull(k, m, t)
      PROVE  rumour[n] \subseteq rumour'[n]
  BY <1>1, <1>5 DEF Push, Pull, Learn
<1>6. CASE UNCHANGED vars
  BY <1>6 DEF vars
<1> QED BY <1>2, <1>3, <1>4, <1>5, <1>6 DEF Next, Advance, Handle

LEMMA AnswerMeans ==
    ASSUME TypeOK, Unfolded, NEW t \in Transfer, NEW w \in Node,
           Witness(t, w), NEW a \in Answer(db[w], t)
    PROVE  /\ a.kind \in {"receipt", "conflict"} => t \in TxsOf(db'[w])
           /\ a.kind = "conflict" =>
                 a.evidence \subseteq Rivals(db[w], t) /\ Rivals(db[w], t) # {}
           /\ a.kind = "refused" => ~WellFormed(t, 0) \/ ~t.authentic
           /\ a.kind # "awaited"
           /\ a.kind = "receipt" => t \in TxsOf(db[w]) \/ Rivals(db[w], t) = {}
<1>1. ReplicaShape(db[w]) /\ db[w].base[t.from].seq = 0 /\ Store(w, t)
  BY TransferAssumption DEF TransferRecord, TypeOK, Unfolded, Witness
<1>2. AddStatus(db[w], t, 0) # "invalid" => t \in TxsOf(db'[w])
  BY <1>1, StoreEffect
<1>3. CASE AddStatus(db[w], t, 0) = "conflict"
  BY <1>2, <1>3 DEF Answer
<1>4. CASE AddStatus(db[w], t, 0) = "invalid"
  BY <1>1, <1>4, StatusHolds DEF Answer
<1>5. CASE AddStatus(db[w], t, 0) \notin {"conflict", "invalid"}
  <2>1. a = [kind |-> "receipt", evidence |-> {}]
    BY <1>5 DEF Answer
  <2>2. AddStatus(db[w], t, 0) \in {"new", "known"}
    BY <1>5, <1>1, StatusHolds DEF AddStatus
  <2> QED BY <1>1, <1>2, <1>5, <2>1, <2>2, StatusHolds
<1> QED BY <1>3, <1>4, <1>5

LEMMA StepAnswers ==
    ASSUME TypeOK, Unfolded, Answers, Grows, [Next]_vars
    PROVE  Answers'
<1> SUFFICES ASSUME NEW t \in Transfer, NEW w \in Node
             PROVE  (/\ reply[t][w].kind = "awaited" => reply[t][w] = Awaited
                     /\ w \notin Rogue => Truthful(t, w))'
  BY DEF Answers
<1>1. TxsOf(db[w]) \subseteq TxsOf(db'[w]) /\ Rivals(db[w], t) \subseteq Rivals(db'[w], t)
  BY DEF Grows, Rivals
<1>2. CASE reply'[t][w] = reply[t][w]
  BY <1>1, <1>2 DEF Answers, Truthful
<1>3. CASE reply'[t][w] = Silence
  BY <1>3 DEF Silence, Truthful
<1>4. CASE Witness(t, w) /\ reply'[t][w] \in Answer(db[w], t)
  BY <1>1, <1>4, AnswerMeans DEF Truthful
<1>5. CASE w \in Rogue /\ reply'[t][w] \in Testimony
  BY <1>5 DEF Testimony
<1> QED BY <1>2, <1>3, <1>4, <1>5, StepAnswer

----------------------------------------------------------------------------
\* The lock.

\* Where a transfer is stored for the first time.
LEMMA StepStores ==
    ASSUME TypeOK, Unfolded, [Next]_vars, NEW w \in Node,
           NEW t \in Transfer, t \in TxsOf(db'[w]), t \notin TxsOf(db[w])
    PROVE  w = t.to \/ t \in rumour'[w] \/ (reply[t][w] = Awaited /\ reply'[t][w] # Awaited)
<1> DEFINE Told == w = t.to \/ t \in rumour'[w]
                   \/ (reply[t][w] = Awaited /\ reply'[t][w] # Awaited)
<1>1. ASSUME NEW m \in Node, NEW u \in Transfer, Store(m, u)
      PROVE  u = t /\ m = w
  BY <1>1, StoreEffect
<1>2. ~UNCHANGED db
  OBVIOUS
<1>3. ASSUME NEW m \in Node, NEW u, rumour' = [rumour EXCEPT ![m] = @ \cup {u}]
      PROVE  u \in rumour'[m]
  BY <1>3 DEF TypeOK
<1>4. ASSUME NEW u \in Transfer, Veto(u) PROVE Told
  BY <1>1, <1>2, <1>3, <1>4, VetoStores, PaymentAssumption
<1>5. ASSUME NEW u \in Transfer, Finish(u) PROVE Told
  BY <1>1, <1>5, PaymentAssumption DEF Finish, Settle
<1>6. ASSUME NEW u \in Transfer, NEW v \in Node, Witness(u, v) PROVE Told
  <2>1. u = t /\ v = w /\ reply[u][v] = Awaited
    BY <1>1, <1>6 DEF Witness, Asks
  <2>2. PICK a \in Answer(db[v], u) \cup {Silence} : reply' = [reply EXCEPT ![u][v] = a]
    BY <1>6 DEF Witness
  <2>3. a # Awaited
    BY <2>2 DEF Answer, Silence, Awaited
  <2>4. reply'[u][v] = a
    BY <2>2 DEF TypeOK
  <2> QED BY <2>1, <2>3, <2>4
<1>7. ASSUME NEW n \in Node, NEW m \in Node, NEW u \in Transfer,
             Push(n, m, u) \/ Pull(n, m, u)
      PROVE  Told
  BY <1>1, <1>3, <1>7 DEF Push, Pull, Learn
<1>8. ASSUME NEW u \in Transfer, Request(u) \/ Accept(u) \/ Begin(u) \/ Fail(u)
      PROVE  UNCHANGED db
  BY <1>8 DEF Request, Accept, Begin, Fail
<1>9. ASSUME NEW u \in Transfer, NEW v \in Node, Mislead(u, v) \/ Unreachable(u, v)
      PROVE  UNCHANGED db
  BY <1>9 DEF Mislead, Unreachable
<1>10. CASE Next
  <2> HIDE DEF Told
  <2>1. Told
    BY <1>2, <1>4, <1>5, <1>6, <1>7, <1>8, <1>9, <1>10 DEF Next, Advance, Handle, Consult
  <2> QED BY <2>1 DEF Told
<1>11. ~UNCHANGED vars
  BY <1>2 DEF vars
<1> QED BY <1>10, <1>11

LEMMA StepHeard ==
    ASSUME TypeOK, Unfolded, Heard, LedgersTyped', [Next]_vars
    PROVE  Heard'
<1> SUFFICES ASSUME NEW w \in Node, NEW t \in TxsOf(db'[w])
             PROVE  w = t.to \/ t \in rumour'[w] \/ reply'[t][w] # Awaited
  BY DEF Heard
<1>1. t \in Transfer
  <2>1. db'[w].rows \in Seq(Transfer)
    BY DEF LedgersTyped, ReplicaShape, Replica
  <2> QED BY <2>1 DEF TxsOf
<1>2. CASE t \notin TxsOf(db[w])
  BY <1>1, <1>2, StepStores
<1>3. CASE t \in TxsOf(db[w])
  <2>1. rumour[w] \subseteq rumour'[w]
    BY StepRumour
  <2>2. reply'[t][w] = reply[t][w] \/ reply[t][w] = Awaited
    BY <1>1, StepAnswer
  <2> QED BY <1>3, <2>1, <2>2 DEF Heard
<1> QED BY <1>2, <1>3

\* A witness that has signed for a rival signs for t only if t was there.
LEMMA SecondReceipt ==
    ASSUME TypeOK, Unfolded, Answers, Heard,
           NEW t \in Transfer, NEW u \in Transfer, t # u, SameSlot(t, u),
           NEW w \in Committee[t.to], w \notin Rogue,
           reply[u][w].kind = "receipt", reply[t][w] = Awaited, Witness(t, w),
           NEW a \in Answer(db[w], t), a.kind = "receipt"
    PROVE  t \in rumour[w]
<1>1. w \in Node /\ w # t.to
  BY SwarmAssumption, PaymentAssumption
<1>2. u \in TxsOf(db[w])
  BY <1>1 DEF Answers, Truthful
<1>3. u \in Rivals(db[w], t)
  BY <1>2 DEF Rivals
<1>4. t \in TxsOf(db[w])
  BY <1>1, <1>3, AnswerMeans
<1> QED BY <1>1, <1>4 DEF Heard

LEMMA StepLock ==
    ASSUME TypeOK, Unfolded, Answers, Heard, LockHolds, [Next]_vars
    PROVE  LockHolds'
<1> SUFFICES ASSUME NEW t \in Transfer, NEW u \in Transfer, t # u, SameSlot(t, u),
                    NEW w \in (Committee[t.to] \cap Committee[u.to]) \ Rogue,
                    reply'[t][w].kind = "receipt", reply'[u][w].kind = "receipt"
             PROVE  rumour'[w] \cap {t, u} # {}
  BY DEF LockHolds
<1>1. w \in Node /\ SameSlot(u, t)
  BY SwarmAssumption, PaymentAssumption DEF SameSlot
<1>2. rumour[w] \subseteq rumour'[w]
  BY <1>1, StepRumour
<1>3. \A x \in {t, u} :
         \/ reply'[x][w] = reply[x][w]
         \/ reply[x][w] = Awaited /\ Witness(x, w) /\ reply'[x][w] \in Answer(db[w], x)
  BY <1>1, StepAnswer DEF Silence
<1>4. CASE reply'[t][w] = reply[t][w] /\ reply'[u][w] = reply[u][w]
  BY <1>2, <1>4 DEF LockHolds
<1>5. CASE reply'[t][w] # reply[t][w] /\ reply'[u][w] = reply[u][w]
  BY <1>1, <1>2, <1>3, <1>5, SecondReceipt
<1>6. CASE reply'[t][w] = reply[t][w] /\ reply'[u][w] # reply[u][w]
  BY <1>1, <1>2, <1>3, <1>6, SecondReceipt
<1>7. reply'[t][w] = reply[t][w] \/ reply'[u][w] = reply[u][w]
  <2>1. ASSUME Witness(t, w), Witness(u, w) PROVE FALSE
    <3>1. PICK a : reply' = [reply EXCEPT ![t][w] = a]
      BY <2>1 DEF Witness
    <3>2. PICK b \in Answer(db[w], u) \cup {Silence} : reply' = [reply EXCEPT ![u][w] = b]
      BY <2>1 DEF Witness
    <3>3. reply'[u][w] = b /\ reply'[u][w] = reply[u][w]
      BY <1>1, <3>1, <3>2 DEF TypeOK
    <3>4. reply[u][w] = Awaited
      BY <2>1 DEF Witness, Asks
    <3>5. b # Awaited
      BY <3>2 DEF Answer, Silence, Awaited
    <3> QED BY <3>3, <3>4, <3>5
  <2> QED BY <1>3, <2>1
<1> QED BY <1>4, <1>5, <1>6, <1>7

----------------------------------------------------------------------------
\* Blame.

Proof(a) ==
    \E t, u \in Transfer :
        t.from = a /\ SameSlot(t, u) /\ u # t /\ Exists(t) /\ Exists(u)

Rivalled(t) == \E u \in Transfer : SameSlot(t, u) /\ u # t /\ Exists(u)

LEMMA ProofStays ==
    ASSUME Grows
    PROVE  /\ \A t \in Transfer : Exists(t) => Exists(t)'
           /\ \A t \in Transfer : Rivalled(t) => Rivalled(t)'
           /\ \A a \in Account : Proof(a) => Proof(a)'
BY DEF Grows, Exists, Rivalled, Proof

LEMMA RivalsAreTransfers ==
    ASSUME TypeOK, NEW n \in Node, NEW t \in Transfer, NEW u \in Rivals(db[n], t)
    PROVE  u \in Transfer /\ SameSlot(t, u) /\ u # t /\ Exists(u)
<1>1. db[n].rows \in Seq(Transfer)
  BY DEF TypeOK, ReplicaShape, Replica
<1> QED BY <1>1 DEF Rivals, TxsOf, Exists

\* A committee that answers with nothing but receipts and silence suffices.
LEMMA QuorumAdapts ==
    ASSUME TypeOK, NEW t \in Transfer, Reachable(t) \subseteq Saying(t, "receipt")
    PROVE  Cardinality(Saying(t, "receipt")) >= Required(t)
<1>1. IsFiniteSet(Committee[t.to])
  BY SwarmAssumption, PaymentAssumption
<1>2. /\ Saying(t, "receipt") \subseteq Committee[t.to]
      /\ Saying(t, "receipt") \cap Saying(t, "silent") = {}
  BY DEF Saying
<1>3. Reachable(t) = Saying(t, "receipt")
  BY <1>2 DEF Reachable
<1>4. Cardinality(Reachable(t)) \in Nat
  BY <1>1, <1>2, <1>3, FS_Subset, FS_CardinalityType
<1>5. \A c \in Nat : c >= Min({2, c})
  BY DEF Min
<1> QED BY <1>3, <1>4, <1>5 DEF Required, WitnessQuorum

\* A veto without a conflict is a refusal of a malformed transfer, or a rogue
\* has withheld its receipt.
LEMMA VetoWithoutConflict ==
    ASSUME TypeOK, Genuine, Answers, NEW t \in Transfer, Veto(t),
           Saying(t, "conflict") = {}
    PROVE  ~WellFormed(t, 0) \/ Withheld(t)
<1> SUFFICES ASSUME WellFormed(t, 0), ~Withheld(t) PROVE FALSE
  OBVIOUS
<1>1. t.authentic /\ Answered(t) /\ ~Funded(t)
  BY DEF Veto, Genuine
<1>2. \A w \in Committee[t.to] : w \in Node /\ reply[t][w].kind \in Kinds
  BY SwarmAssumption, PaymentAssumption, EvidenceType
<1>3. \A w \in Committee[t.to] : reply[t][w].kind \in {"silent", "receipt"}
  <2> SUFFICES ASSUME NEW w \in Committee[t.to]
               PROVE  reply[t][w].kind \in {"silent", "receipt"}
    OBVIOUS
  <2>1. w \in Node /\ reply[t][w].kind \in Kinds
    BY <1>2
  <2>2. reply[t][w].kind \notin {"conflict", "awaited"}
    BY <1>1, <2>1 DEF Answered, Answers, Saying
  <2>3. reply[t][w].kind # "refused"
    BY <1>1, <2>1 DEF Answers, Truthful, Withheld
  <2> QED BY <2>1, <2>2, <2>3 DEF Kinds
<1>4. Reachable(t) \subseteq Saying(t, "receipt")
  BY <1>3 DEF Reachable, Saying
<1> QED BY <1>1, <1>4, QuorumAdapts DEF Funded

\* A conflict at n is proof against the payer.
LEMMA ConflictIsProof ==
    ASSUME TypeOK, Unfolded, NEW n \in Node, NEW t \in Transfer,
           Store(n, t), AddStatus(db[n], t, 0) = "conflict"
    PROVE  Proof(t.from)' /\ Rivalled(t)'
<1>1. ReplicaShape(db[n]) /\ db[n].base[t.from].seq = 0
  BY TransferAssumption DEF TransferRecord, TypeOK, Unfolded
<1>2. PICK u : u \in Rivals(db[n], t)
  BY <1>1, StatusHolds
<1>3. u \in Transfer /\ SameSlot(t, u) /\ u # t /\ Exists(u)
  BY <1>2, RivalsAreTransfers
<1>4. Grows /\ t \in TxsOf(db'[n])
  BY StoreEffect
<1>5. Exists(t)' /\ Exists(u)'
  BY <1>3, <1>4, ProofStays DEF Exists
<1> QED BY <1>3, <1>5 DEF Proof, Rivalled

LEMMA EvidenceIsProof ==
    ASSUME TypeOK, Answers, NEW t \in Transfer, NEW w \in Node \ Rogue,
           reply[t][w].kind = "conflict"
    PROVE  Proof(t.from) /\ Rivalled(t)
<1>1. t \in TxsOf(db[w]) /\ Rivals(db[w], t) # {}
  BY DEF Answers, Truthful
<1>2. PICK u : u \in Rivals(db[w], t)
  BY <1>1
<1>3. u \in Transfer /\ SameSlot(t, u) /\ u # t /\ Exists(u)
  BY <1>2, RivalsAreTransfers
<1> QED BY <1>1, <1>3 DEF Proof, Rivalled, Exists

\* A rogue told n of a conflict about a payment of a.
LiedAbout(n, a) == \E t \in Transfer : t.from = a /\ t.to = n /\ Slandered(t)

Condemned == \A n \in Node : \A a \in condemned[n] : Proof(a) \/ LiedAbout(n, a)

LiedTo(t) == Slandered(t) \/ Withheld(t)

TurnedDown ==
    \A t \in Transfer :
        stage[t] \in {"vetoed", "conflict"} /\ WellFormed(t, 0) =>
            Rivalled(t) \/ (stage[t] = "vetoed" /\ LiedTo(t))

LEMMA BlameParts == BlameIsBacked <=> TurnedDown /\ Condemned
<1>1. \A t \in Transfer :
         Rivalled(t) <=> ~\A u \in Transfer : SameSlot(t, u) /\ Exists(u) => u = t
  BY DEF Rivalled
<1>2. \A t \in Transfer : (stage[t] = "vetoed") => (stage[t] # "conflict")
  OBVIOUS
<1> QED BY <1>1, <1>2 DEF BlameIsBacked, TurnedDown, Condemned, Proof, LiedAbout, LiedTo

LEMMA LiesStay ==
    ASSUME TypeOK, [Next]_vars
    PROVE  /\ \A t \in Transfer : Slandered(t) => Slandered(t)'
           /\ \A t \in Transfer : LiedTo(t) => LiedTo(t)'
           /\ \A n, a : LiedAbout(n, a) => LiedAbout(n, a)'
<1>1. \A t \in Transfer : t.to \in Node /\ \A w \in Committee[t.to] : w \in Node
  BY SwarmAssumption, PaymentAssumption
<1>2. \A t \in Transfer, w \in Node :
         reply[t][w].kind \in {"conflict", "refused"} => reply'[t][w] = reply[t][w]
  BY AnswersStand
<1>3. \A t \in Transfer : Slandered(t) => Slandered(t)'
  BY <1>1, <1>2 DEF Slandered
<1>4. \A t \in Transfer : Withheld(t) => Withheld(t)'
  BY <1>1, <1>2 DEF Withheld
<1> QED BY <1>3, <1>4 DEF LiedTo, LiedAbout

\* Whoever says "conflict" has a rival to show, or is a rogue.
LEMMA ConflictIsBacked ==
    ASSUME TypeOK, Answers, NEW t \in Transfer, NEW w \in Committee[t.to],
           reply[t][w].kind = "conflict"
    PROVE  Slandered(t) \/ (Proof(t.from) /\ Rivalled(t))
<1>1. w \in Node
  BY SwarmAssumption, PaymentAssumption
<1>2. CASE w \in Rogue
  BY <1>2 DEF Slandered
<1>3. CASE w \notin Rogue
  BY <1>1, <1>3, EvidenceIsProof
<1> QED BY <1>2, <1>3

LEMMA StepCondemned ==
    ASSUME TypeOK, Unfolded, Answers, Condemned, Grows, [Next]_vars
    PROVE  Condemned'
<1>1. \A n \in Node : \A a \in condemned[n] : a \in Account /\ (Proof(a)' \/ LiedAbout(n, a)')
  BY ProofStays, LiesStay DEF Condemned, TypeOK
<1>2. ASSUME UNCHANGED condemned PROVE Condemned'
  BY <1>1, <1>2 DEF Condemned
<1>3. ASSUME NEW n \in Node, NEW t \in Transfer, Condemn(n, t.from),
             Proof(t.from)' \/ LiedAbout(n, t.from)'
      PROVE  Condemned'
  BY <1>1, <1>3 DEF Condemned, Condemn, TypeOK
<1>4. ASSUME NEW t \in Transfer, Veto(t) PROVE Condemned'
  <2>1. ASSUME NEW w \in Committee[t.to], reply[t][w].kind = "conflict"
        PROVE  Proof(t.from)' \/ LiedAbout(t.to, t.from)'
    <3>1. Slandered(t) \/ Proof(t.from)
      BY <2>1, ConflictIsBacked
    <3>2. Slandered(t) => LiedAbout(t.to, t.from)
      BY DEF LiedAbout
    <3> QED BY <3>1, <3>2, ProofStays, LiesStay, TransferAssumption DEF TransferRecord
  <2> QED BY <1>2, <1>3, <1>4, <2>1, VetoStores, PaymentAssumption
<1>5. ASSUME NEW t \in Transfer, Finish(t) PROVE Condemned'
  <2>1. CASE Outcome(db[t.to], t) = "conflict"
    <3>1. AddStatus(db[t.to], t, 0) = "conflict" /\ Store(t.to, t) /\ Condemn(t.to, t.from)
      BY <1>5, <2>1 DEF Finish, Settle, Outcome
    <3> QED BY <1>3, <3>1, ConflictIsProof, PaymentAssumption
  <2>2. CASE Outcome(db[t.to], t) # "conflict"
    BY <1>2, <1>5, <2>2 DEF Finish
  <2> QED BY <2>1, <2>2
<1>6. ASSUME NEW t \in Transfer, NEW w \in Node, Witness(t, w) PROVE Condemned'
  <2>1. CASE AddStatus(db[w], t, 0) = "conflict"
    BY <1>3, <1>6, <2>1, ConflictIsProof DEF Witness
  <2>2. CASE AddStatus(db[w], t, 0) # "conflict"
    BY <1>2, <1>6, <2>2 DEF Witness
  <2> QED BY <2>1, <2>2
<1>7. ASSUME NEW n \in Node, NEW m \in Node, NEW t \in Transfer, Push(n, m, t)
      PROVE  Condemned'
  BY <1>3, <1>7, ConflictIsProof DEF Push, Learn
<1>8. ASSUME NEW n \in Node, NEW m \in Node, NEW t \in Transfer, Pull(n, m, t)
      PROVE  UNCHANGED condemned
  BY <1>8 DEF Pull
<1>9. ASSUME NEW t \in Transfer, NEW w \in Node, Mislead(t, w) \/ Unreachable(t, w)
      PROVE  UNCHANGED condemned
  BY <1>9 DEF Mislead, Unreachable
<1>10. ASSUME NEW t \in Transfer, Request(t) \/ Accept(t) \/ Begin(t) \/ Fail(t)
       PROVE  UNCHANGED condemned
  BY <1>10 DEF Request, Accept, Begin, Fail
<1>11. CASE UNCHANGED vars
  BY <1>2, <1>11 DEF vars
<1> QED
  BY <1>2, <1>4, <1>5, <1>6, <1>7, <1>8, <1>9, <1>10, <1>11 DEF Next, Advance, Handle, Consult

LEMMA StepTurnedDown ==
    ASSUME TypeOK, Unfolded, Genuine, Answers, TurnedDown, Grows, [Next]_vars
    PROVE  TurnedDown'
<1>1. ASSUME NEW t \in Transfer, NEW s, Reach(t, s),
             s \in {"vetoed", "conflict"} /\ WellFormed(t, 0) =>
                Rivalled(t)' \/ (s = "vetoed" /\ LiedTo(t)')
      PROVE  TurnedDown'
  <2>1. \A u \in Transfer : stage'[u] = IF u = t THEN s ELSE stage[u]
    BY <1>1 DEF Reach, TypeOK
  <2> QED BY <1>1, <2>1, ProofStays, LiesStay DEF TurnedDown
<1>2. ASSUME UNCHANGED stage PROVE TurnedDown'
  BY <1>2, ProofStays, LiesStay DEF TurnedDown
<1>3. ASSUME NEW t \in Transfer, Request(t) \/ Accept(t) \/ Begin(t) \/ Fail(t)
      PROVE  TurnedDown'
  BY <1>1, <1>3 DEF Request, Accept, Begin, Fail
<1>4. ASSUME NEW t \in Transfer, Veto(t) PROVE TurnedDown'
  <2>1. CASE Saying(t, "conflict") = {}
    <3>1. ~WellFormed(t, 0) \/ LiedTo(t)
      BY <1>4, <2>1, VetoWithoutConflict DEF LiedTo
    <3>2. ~WellFormed(t, 0) \/ LiedTo(t)'
      BY <3>1, LiesStay
    <3> QED BY <1>1, <1>4, <3>2 DEF Veto
  <2>2. CASE Saying(t, "conflict") # {}
    <3>1. PICK w \in Committee[t.to] : reply[t][w].kind = "conflict"
      BY <2>2 DEF Saying
    <3>2. Rivalled(t)' \/ LiedTo(t)'
      BY <3>1, ConflictIsBacked, ProofStays, LiesStay DEF LiedTo
    <3> QED BY <1>1, <1>4, <3>2 DEF Veto
  <2> QED BY <2>1, <2>2
<1>5. ASSUME NEW t \in Transfer, Finish(t) PROVE TurnedDown'
  <2>1. Reach(t, Outcome(db[t.to], t)) /\ Store(t.to, t)
    BY <1>5 DEF Finish, Settle
  <2>2. CASE AddStatus(db[t.to], t, 0) = "conflict"
    <3>1. Rivalled(t)'
      BY <2>1, <2>2, ConflictIsProof, PaymentAssumption
    <3> QED BY <1>1, <2>1, <3>1
  <2>3. CASE AddStatus(db[t.to], t, 0) # "conflict"
    <3>1. Outcome(db[t.to], t) \in {"rejected", "served"}
      BY <2>3 DEF Outcome
    <3> QED BY <1>1, <2>1, <3>1
  <2> QED BY <2>2, <2>3
<1>6. ASSUME NEW t \in Transfer, NEW w \in Node, Consult(t, w)
      PROVE  UNCHANGED stage
  BY <1>6 DEF Consult, Witness, Mislead, Unreachable
<1>7. ASSUME NEW n \in Node, NEW m \in Node, NEW t \in Transfer,
             Push(n, m, t) \/ Pull(n, m, t)
      PROVE  UNCHANGED stage
  BY <1>7 DEF Push, Pull, Learn
<1>8. CASE UNCHANGED vars
  BY <1>2, <1>8 DEF vars
<1> QED BY <1>2, <1>3, <1>4, <1>5, <1>6, <1>7, <1>8 DEF Next, Advance, Handle

----------------------------------------------------------------------------
\* The theorems.

LEMMA InitPInv == Init => PInv
<1> SUFFICES ASSUME Init PROVE PInv
  OBVIOUS
<1>1. \A n \in Node : db[n] = EmptyReplica
  BY DEF Init
<1>2. \A t \in Transfer, w \in Node : reply[t][w] = Awaited
  BY DEF Init
<1>3. \A t \in Transfer : stage[t] = "absent"
  BY DEF Init
<1>4. MaxWorkers \in Nat
  BY SwarmAssumption
<1>5. TypeOK
  <2>1. db = [n \in Node |-> db[n]] /\ \A n \in Node : ReplicaShape(db[n])
    BY <1>1, EmptyReplicaShape DEF Init
  <2>2. Awaited \in [kind : Kinds, evidence : SUBSET Transfer]
    BY DEF Awaited, Kinds
  <2> QED BY <1>4, <2>1, <2>2 DEF Init, TypeOK, Stages
<1>6. Unfolded
  BY <1>1 DEF Unfolded, EmptyReplica, NoBase
<1>7. Seats
  <2>1. \A p \in Node : Working(p) = {}
    BY <1>3 DEF Working
  <2>2. \A p \in Node : free[p] = MaxWorkers
    BY DEF Init
  <2> QED BY <1>4, <2>1, <2>2, FS_EmptySet DEF Seats
<1>8. Genuine /\ TurnedDown
  BY <1>3 DEF Genuine, TurnedDown
<1>9. Answers /\ LockHolds
  BY <1>2, SwarmAssumption, PaymentAssumption DEF Answers, Truthful, LockHolds, Awaited
<1>10. Heard
  BY <1>1, EmptyReplicaShape DEF Heard
<1>11. Condemned
  BY DEF Init, Condemned
<1> QED BY <1>5, <1>6, <1>7, <1>8, <1>9, <1>10, <1>11, BlameParts DEF PInv

LEMMA NextPInv == PInv /\ [Next]_vars => PInv'
<1> SUFFICES ASSUME PInv, [Next]_vars PROVE PInv'
  OBVIOUS
<1>1. /\ TypeOK /\ Unfolded /\ Seats /\ Genuine /\ Answers /\ Heard
      /\ LockHolds /\ TurnedDown /\ Condemned
  BY BlameParts DEF PInv
<1>2. LedgersTyped' /\ Unfolded' /\ Grows
  BY <1>1, StepDb
<1>3. Seats' /\ free' \in [Node -> 0..MaxWorkers]
  BY <1>1, StepSeats
<1>4. TypeOK'
  BY <1>1, <1>2, <1>3, StepTypes DEF TypeOK, LedgersTyped, RecordsTyped, Reply
<1>5. Genuine' /\ Answers' /\ Heard'
  BY <1>1, <1>2, StepGenuine, StepAnswers, StepHeard
<1>6. LockHolds'
  BY <1>1, StepLock
<1>7. TurnedDown' /\ Condemned'
  BY <1>1, <1>2, StepTurnedDown, StepCondemned
<1>8. BlameIsBacked'
  BY <1>7, BlameParts, PTL
<1> QED BY <1>2, <1>3, <1>4, <1>5, <1>6, <1>8 DEF PInv

\* The inductive invariant of paid execution: in every reachable state each
\* taken place belongs to a request being worked for, and each answer of a
\* witness that follows the code reflects what that witness holds
\* (_on_tx_witness, _on_task_execute).
THEOREM PaidInvariance == Spec => []PInv
BY InitPInv, NextPInv, PTL DEF Spec

\* A witness that follows the code signs receipts for two rivals only after
\* gossip brought one of them to it (_on_tx_witness), for any committees,
\* rogues and payers.
THEOREM TheLockHolds == Spec => []LockHolds
<1>1. PInv => LockHolds
  BY DEF PInv
<1> QED BY <1>1, PaidInvariance, PTL

\* No payment is vetoed or found in conflict, and nobody is condemned, without
\* a rival transfer that some node holds (_witness_check, _on_task_execute), or
\* a rogue in the committee of the very provider that turns the payer down: for
\* any number of rogues, saying anything, the adaptive quorum turns no honest
\* payer down by itself and a lie reaches only the provider it was told to.
THEOREM BlameIsAlwaysBacked == Spec => []BlameIsBacked
<1>1. PInv => BlameIsBacked
  BY DEF PInv
<1> QED BY <1>1, PaidInvariance, PTL

----------------------------------------------------------------------------
\* Both paid out.

\* What a request has been through that was let in, and that was served.
LetIn ==
    \A t \in Transfer : stage[t] \in {"queued", "working", "served"} =>
        /\ \A w \in Committee[t.to] : reply[t][w].kind \notin {"awaited", "conflict"}
        /\ stage[t] = "served" => WellFormed(t, 0)

LEMMA StepLetIn ==
    ASSUME PInv, LetIn, [Next]_vars
    PROVE  LetIn'
<1> USE DEF PInv
<1>1. \A t \in Transfer : t.to \in Node /\ \A w \in Committee[t.to] : w \in Node
  BY PaymentAssumption, SwarmAssumption
<1>2. ASSUME NEW t \in Transfer, NEW w \in Node, reply[t][w].kind # "awaited"
      PROVE  reply'[t][w] = reply[t][w]
  <2>1. reply[t][w] # Awaited BY <1>2 DEF Awaited
  <2> QED BY <2>1, StepAnswer
<1>3. ASSUME NEW t \in Transfer, stage[t] \in {"queued", "working", "served"},
             stage'[t] = "served" => stage[t] = "served" \/ WellFormed(t, 0)
      PROVE  /\ \A w \in Committee[t.to] : reply'[t][w].kind \notin {"awaited", "conflict"}
             /\ stage'[t] = "served" => WellFormed(t, 0)
  BY <1>1, <1>2, <1>3 DEF LetIn
<1>4. ASSUME NEW t \in Transfer, NEW s, Reach(t, s),
             s \in {"queued", "working", "served"} =>
                \/ stage[t] \in {"queued", "working", "served"} /\ (s = "served" => WellFormed(t, 0))
                \/ /\ \A w \in Committee[t.to] : reply'[t][w].kind \notin {"awaited", "conflict"}
                   /\ s # "served"
      PROVE  LetIn'
  <2>1. \A u \in Transfer : stage'[u] = IF u = t THEN s ELSE stage[u]
    BY <1>4 DEF Reach, TypeOK
  <2> QED BY <1>3, <1>4, <2>1 DEF LetIn
<1>5. ASSUME UNCHANGED stage PROVE LetIn'
  BY <1>3, <1>5 DEF LetIn
<1>6. ASSUME NEW t \in Transfer, Request(t) PROVE LetIn'
  BY <1>4, <1>6 DEF Request
<1>7. ASSUME NEW t \in Transfer, Accept(t) PROVE LetIn'
  <2>1. Reach(t, "queued") /\ UNCHANGED reply BY <1>7 DEF Accept
  <2>2. \A w \in Committee[t.to] : reply[t][w].kind \notin {"awaited", "conflict"}
    <3> SUFFICES ASSUME NEW w \in Committee[t.to]
                 PROVE  reply[t][w].kind \notin {"awaited", "conflict"}
      OBVIOUS
    <3>1. reply[t][w] # Awaited BY <1>7 DEF Accept, Answered
    <3>2. reply[t][w].kind # "awaited" BY <1>1, <3>1 DEF Answers
    <3>3. reply[t][w].kind # "conflict" BY <1>7 DEF Accept, Funded, Saying
    <3> QED BY <3>2, <3>3
  <2> QED BY <1>4, <2>1, <2>2
<1>8. ASSUME NEW t \in Transfer, Veto(t) PROVE LetIn'
  BY <1>4, <1>8 DEF Veto
<1>9. ASSUME NEW t \in Transfer, Begin(t) \/ Fail(t) PROVE LetIn'
  BY <1>4, <1>9 DEF Begin, Fail
<1>10. ASSUME NEW t \in Transfer, Finish(t) PROVE LetIn'
  <2> DEFINE s == Outcome(db[t.to], t)
  <2>1. stage[t] = "working" /\ Reach(t, s) BY <1>10 DEF Finish
  <2>2. s = "served" => WellFormed(t, 0)
    BY DEF Outcome, AddStatus
  <2> HIDE DEF s
  <2> QED BY <1>4, <2>1, <2>2
<1>11. ASSUME NEW t \in Transfer, NEW w \in Node, Consult(t, w) PROVE LetIn'
  BY <1>5, <1>11 DEF Consult, Witness, Mislead, Unreachable
<1>12. ASSUME NEW n \in Node, NEW m \in Node, NEW t \in Transfer,
              Push(n, m, t) \/ Pull(n, m, t)
       PROVE  LetIn'
  BY <1>5, <1>12 DEF Push, Pull, Learn
<1>13. CASE UNCHANGED vars
  BY <1>5, <1>13 DEF vars
<1> QED BY <1>6, <1>7, <1>8, <1>9, <1>10, <1>11, <1>12, <1>13 DEF Next, Advance, Handle

\* Of two racing payments both are served only past witnesses that were silent
\* about one or had heard of one by gossip (_witness_check, _on_tx_witness), for
\* any committees, rogues in them, quorums and order of asks, answers and pushes.
THEOREM BothServedIsExplained == Spec => []BothServedExplained
<1>1. Init => LetIn BY DEF Init, LetIn
<1>2. PInv /\ LetIn /\ [Next]_vars => LetIn' BY StepLetIn
<1>3. PInv /\ LetIn => BothServedExplained
  <2> SUFFICES ASSUME PInv, LetIn,
                      NEW t \in Transfer, NEW u \in Transfer, t # u, SameSlot(t, u),
                      stage[t] = "served", stage[u] = "served",
                      NEW w \in (Committee[t.to] \cap Committee[u.to]) \ Rogue,
                      reply[t][w].kind # "silent", reply[u][w].kind # "silent"
               PROVE  rumour[w] \cap {t, u} # {}
    BY DEF BothServedExplained
  <2>1. ASSUME NEW x \in {t, u} PROVE reply[x][w].kind = "receipt"
    <3>1. x \in Transfer /\ w \in Committee[x.to] \ Rogue /\ stage[x] = "served"
          /\ reply[x][w].kind # "silent"
      OBVIOUS
    <3>2. w \in Node BY <3>1, PaymentAssumption, SwarmAssumption
    <3>3. reply[x][w].kind \notin {"awaited", "conflict"} /\ WellFormed(x, 0)
      BY <3>1 DEF LetIn
    <3>4. x.authentic BY <3>1 DEF PInv, Genuine
    <3>5. reply[x][w].kind # "refused" BY <3>1, <3>2, <3>3, <3>4 DEF PInv, Answers, Truthful
    <3>6. reply[x][w] \in Reply BY <3>1, <3>2 DEF PInv, TypeOK, Reply
    <3> QED BY <3>1, <3>3, <3>5, <3>6 DEF Reply, Kinds
  <2> QED BY <2>1 DEF PInv, LockHolds
<1> QED BY <1>1, <1>2, <1>3, PaidInvariance, PTL DEF Spec
=============================================================================
