---------------------- MODULE LedgerReplication_proofs ----------------------
(***************************************************************************)
(* Theorems about LedgerReplication for every set of nodes and transfers.  *)
(***************************************************************************)
EXTENDS LedgerReplication, FiniteSetTheorems, WellFoundedInduction, TLAPS

----------------------------------------------------------------------------
\* One replica.

\* Writing table txs leaves the other tables alone.
LEMMA SetRows ==
    ASSUME NEW r, ReplicaShape(r), NEW s \in Seq(Transfer)
    PROVE  LET q == [r EXCEPT !.rows = s] IN
             /\ ReplicaShape(q)
             /\ q.rows = s /\ q.base = r.base
             /\ q.flaggedBase = r.flaggedBase /\ q.reserved = r.reserved
BY DEF ReplicaShape, Replica

\* Claiming a seq leaves the tables of transfers and accounts alone.
LEMMA ReserveEffect ==
    ASSUME NEW r, ReplicaShape(r), NEW s \in Int
    PROVE  LET q == Reserve(r, s) IN
             /\ ReplicaShape(q)
             /\ q.rows = r.rows /\ q.base = r.base
             /\ q.flaggedBase = r.flaggedBase /\ q.reserved = s
BY DEF ReplicaShape, Replica, Reserve

\* Appending a row adds that transfer to the stored ones and no other.
LEMMA AppendRow ==
    ASSUME NEW r, ReplicaShape(r), NEW t \in Transfer
    PROVE  LET q == [r EXCEPT !.rows = Append(@, t)] IN
             /\ ReplicaShape(q)
             /\ TxsOf(q) = TxsOf(r) \cup {t}
             /\ q.base = r.base /\ q.flaggedBase = r.flaggedBase
             /\ q.reserved = r.reserved
<1> DEFINE s == Append(r.rows, t)
<1> DEFINE q == [r EXCEPT !.rows = s]
<1>1. /\ r.rows \in Seq(Transfer) /\ s \in Seq(Transfer)
      /\ DOMAIN s = 1..(Len(r.rows) + 1)
      /\ DOMAIN r.rows = 1..Len(r.rows)
      /\ Len(r.rows) \in Nat
      /\ \A i \in 1..Len(r.rows) : s[i] = r.rows[i]
      /\ s[Len(r.rows) + 1] = t
  <2>1. r.rows \in Seq(Transfer)
    BY DEF ReplicaShape, Replica
  <2> QED BY <2>1
<1> HIDE DEF s
<1>2. /\ ReplicaShape(q) /\ q.rows = s /\ q.base = r.base
      /\ q.flaggedBase = r.flaggedBase /\ q.reserved = r.reserved
  BY <1>1, SetRows
<1> HIDE DEF q
<1>3. TxsOf(q) = TxsOf(r) \cup {t}
  BY <1>1, <1>2 DEF TxsOf
<1> QED BY <1>2, <1>3 DEF q, s

\* add_tx leaves everything but the rows alone, stores at most the transfer
\* it is given, and that only when it is authentic and not stale.
LEMMA AddTxEffect ==
    ASSUME NEW r, ReplicaShape(r), NEW t \in Transfer, NEW clock
    PROVE  LET q == AddTx(r, t, clock) IN
             /\ ReplicaShape(q)
             /\ q.base = r.base /\ q.flaggedBase = r.flaggedBase
             /\ q.reserved = r.reserved
             /\ \/ q = r
                \/ TxsOf(q) = TxsOf(r) \cup {t} /\ t.authentic /\ ~IsStale(r, t)
<1>1. CASE AddStatus(r, t, clock) \in Stored
  <2>1. AddTx(r, t, clock) = [r EXCEPT !.rows = Append(@, t)]
    BY <1>1 DEF AddTx
  <2>2. t.authentic /\ ~IsStale(r, t)
    BY <1>1 DEF AddStatus, Stored
  <2> DEFINE q == AddTx(r, t, clock)
  <2>3. /\ ReplicaShape(q) /\ TxsOf(q) = TxsOf(r) \cup {t} /\ q.base = r.base
        /\ q.flaggedBase = r.flaggedBase /\ q.reserved = r.reserved
    BY <2>1, AppendRow
  <2> HIDE DEF q
  <2>4. /\ ReplicaShape(q) /\ q.base = r.base /\ q.flaggedBase = r.flaggedBase
        /\ q.reserved = r.reserved
        /\ \/ q = r
           \/ TxsOf(q) = TxsOf(r) \cup {t} /\ t.authentic /\ ~IsStale(r, t)
    BY <2>2, <2>3
  <2> QED BY <2>4 DEF q
<1>2. CASE AddStatus(r, t, clock) \notin Stored
  BY <1>2 DEF AddTx
<1> QED BY <1>1, <1>2

\* A conflict is with an authentic transfer of the same slot, a different one.
LEMMA ConflictEvidence ==
    ASSUME NEW r, NEW t, NEW clock, AddStatus(r, t, clock) = "conflict"
    PROVE  t.authentic /\ \E u \in TxsOf(r) : SameSlot(t, u) /\ u.id # t.id
BY DEF AddStatus, IsKnown

LEMMA SnapshotShape ==
    ASSUME NEW r, ReplicaShape(r)
    PROVE  Snapshot(r).flagged = Proven(r) /\ Proven(r) \subseteq Account
BY DEF Snapshot, Proven, DoubleSpenders, ReplicaShape, Replica

\* Installing a snapshot changes the baseline and its verdicts only.
LEMMA InstallEffect ==
    ASSUME NEW r, ReplicaShape(r), NEW snap, snap.flagged \subseteq Account
    PROVE  LET q == Install(r, snap) IN
             /\ ReplicaShape(q)
             /\ q.rows = r.rows /\ q.reserved = r.reserved
             /\ q.flaggedBase = snap.flagged
BY DEF Install, ReplicaShape, Replica

\* The first half of prune leaves no rows, no baseline and no verdicts, but
\* the claimed seq.
LEMMA DeletedEffect ==
    ASSUME NEW r, ReplicaShape(r)
    PROVE  LET q == Deleted(r) IN
             /\ ReplicaShape(q)
             /\ q.rows = <<>> /\ q.reserved = r.reserved /\ q.flaggedBase = {}
<1> DEFINE c == r.cut + Len(r.rows)
           s == <<>>
           b == [a \in Account |-> NoBase]
<1>1. c \in Nat /\ s \in Seq(Transfer)
  <2>1. r.cut \in Nat /\ r.rows \in Seq(Transfer)
    BY DEF ReplicaShape, Replica
  <2>2. Len(r.rows) \in Nat
    BY <2>1
  <2>3. <<>> \in Seq(Transfer)
    OBVIOUS
  <2> QED BY <2>1, <2>2, <2>3
<1>2. Deleted(r) = [r EXCEPT !.cut = c, !.rows = s, !.base = b, !.flaggedBase = {}]
  BY DEF Deleted
<1>3. s = <<>>
  OBVIOUS
<1> HIDE DEF c, s, b
<1>4. /\ ReplicaShape(Deleted(r))
      /\ Deleted(r).rows = s /\ Deleted(r).reserved = r.reserved
      /\ Deleted(r).flaggedBase = {}
  BY <1>1, <1>2 DEF ReplicaShape, Replica
<1> QED BY <1>3, <1>4

LEMMA NoRows ==
    ASSUME NEW r, r.rows = <<>>
    PROVE  TxsOf(r) = {}
BY DEF TxsOf

\* A prune leaves no rows, the claimed seq and the proven double-spenders.
LEMMA PruneEffect ==
    ASSUME NEW r, ReplicaShape(r)
    PROVE  LET q == Prune(r) IN
             /\ ReplicaShape(q)
             /\ TxsOf(q) = {} /\ q.reserved = r.reserved
             /\ q.flaggedBase = Proven(r)
<1>1. ReplicaShape(Deleted(r)) /\ Deleted(r).rows = <<>> /\ Deleted(r).reserved = r.reserved
  BY DeletedEffect
<1>2. Snapshot(r).flagged = Proven(r) /\ Proven(r) \subseteq Account
  BY SnapshotShape
<1>3. /\ ReplicaShape(Prune(r))
      /\ Prune(r).rows = <<>> /\ Prune(r).reserved = r.reserved
      /\ Prune(r).flaggedBase = Proven(r)
  BY <1>1, <1>2, InstallEffect DEF Prune
<1> QED BY <1>3, NoRows

LEMMA EmptyReplicaShape ==
    /\ ReplicaShape(EmptyReplica)
    /\ TxsOf(EmptyReplica) = {} /\ EmptyReplica.flaggedBase = {}
BY DEF ReplicaShape, Replica, EmptyReplica, TxsOf, NoBase

----------------------------------------------------------------------------
\* The swarm.

\* What a replica stores was signed by its sender.
RowsGenuine == \A n \in Node : TxsOf(db[n]) \subseteq Authentic

\* An honest sender's signed seqs are all claimed.
SeqsClaimed ==
    \A t \in Authentic : t.from \in Honest => t.seq <= db[t.from].reserved

\* Those of flagged who are honest had all been named by one of the sources.
Spared(sources, flagged) ==
    \E origin \in sources : flagged \cap Honest \subseteq origin.flagged

\* Verdicts that are written down spare the honest, but for what was told.
VerdictsClean ==
    \A n \in Node :
        /\ Spared(Origins, db[n].flaggedBase)
        /\ condemned[n] \cap Honest = {}
        /\ \A m \in DOMAIN offers[n] : Spared(Origins, offers[n][m].flagged)

OffersShape ==
    \A n \in Node : \A m \in DOMAIN offers[n] :
        offers[n][m].flagged \subseteq Account

\* The inductive invariant.
IInv ==
    Shape /\ OffersShape /\ RowsGenuine /\ SeqsClaimed /\ SeqNeverReused /\ VerdictsClean

----------------------------------------------------------------------------
\* Who is spared.

\* Nobody honest is condemned by nobody's verdict.
LEMMA SparedNobody ==
    ASSUME NEW flagged, flagged \cap Honest = {}
    PROVE  Spared(Origins, flagged)
BY DEF Spared, Origins

LEMMA SparedAlike ==
    ASSUME NEW sources, NEW flagged, Spared(sources, flagged), NEW more,
           more \cap Honest \subseteq flagged \cap Honest
    PROVE  Spared(sources, more)
BY DEF Spared

LEMMA SparedLater ==
    ASSUME told \subseteq told', NEW flagged, Spared(Origins, flagged)
    PROVE  Spared(Origins', flagged)
<1>1. Origins \subseteq Origins' BY DEF Origins, Nothing
<1> QED BY <1>1 DEF Spared

----------------------------------------------------------------------------
\* The initial state.

LEMMA InitIInv == Init => IInv
<1> SUFFICES ASSUME Init PROVE IInv
  OBVIOUS
<1>1. \A n \in Node : db[n] = EmptyReplica
  BY DEF Init
<1>2. Shape
  <2>1. \A n \in Node : ReplicaShape(db[n])
    BY <1>1, EmptyReplicaShape
  <2>2. booting \subseteq Node /\ now \in 0..MaxTime /\ restarts \in 0..MaxRestarts
    BY ReplicationAssumption DEF Init
  <2>3. cursor \in [Node -> [Node -> Nat]]
    BY DEF Init, ZeroCursors
  <2>4. offers = [n \in Node |-> offers[n]] /\ \A n \in Node : DOMAIN offers[n] = {}
    BY DEF Init, NoOffer
  <2>5. /\ condemned \in [Node -> SUBSET Account] /\ wire \subseteq Transfer
        /\ told \subseteq Tale
    BY DEF Init
  <2>6. db = [n \in Node |-> db[n]]
    BY DEF Init
  <2> QED BY <2>1, <2>2, <2>3, <2>4, <2>5, <2>6 DEF Shape
<1>3. \A n \in Node : DOMAIN offers[n] = {} /\ condemned[n] = {}
  BY DEF Init, NoOffer
<1>4. RowsGenuine /\ VerdictsClean /\ OffersShape
  <2>1. \A n \in Node : Spared(Origins, db[n].flaggedBase)
    BY <1>1, EmptyReplicaShape, SparedNobody
  <2> QED BY <1>1, <1>3, <2>1, EmptyReplicaShape DEF RowsGenuine, VerdictsClean, OffersShape
<1>5. SeqsClaimed /\ SeqNeverReused
  BY DEF Init, SeqsClaimed, SeqNeverReused, Authentic
<1> QED BY <1>2, <1>4, <1>5 DEF IInv

----------------------------------------------------------------------------
\* Consequences of the invariant used by the steps.

\* Proof in the rows is never against an honest account.
LEMMA NoHonestDoubleSpender ==
    ASSUME IInv, NEW n \in Node
    PROVE  /\ DoubleSpenders(db[n]) \cap Honest = {}
           /\ Spared(Origins, Proven(db[n]))
<1>1. DoubleSpenders(db[n]) \cap Honest = {}
  <2> SUFFICES ASSUME NEW t \in TxsOf(db[n]), NEW u \in TxsOf(db[n]),
                      t.from \in Honest, SameSlot(t, u), t.id # u.id
               PROVE  FALSE
    BY DEF DoubleSpenders
  <2>1. t \in Authentic /\ u \in Authentic
    BY DEF IInv, RowsGenuine
  <2> QED BY <2>1 DEF IInv, SeqNeverReused
<1>2. Spared(Origins, db[n].flaggedBase) BY DEF IInv, VerdictsClean
<1> QED BY <1>1, <1>2, SparedAlike DEF Proven

\* A node's ledger replaced by one that stores genuine rows and spares the
\* honest, with the same claims, keeps the invariant's ledger part.
LEMMA ReplaceLedger ==
    ASSUME IInv, NEW n \in Node, NEW r,
           ReplicaShape(r), TxsOf(r) \subseteq Authentic,
           Spared(Origins, r.flaggedBase),
           n \in Honest => r.reserved = db[n].reserved,
           db' = [db EXCEPT ![n] = r], wire' = wire
    PROVE  /\ db' = [k \in Node |-> db'[k]]
           /\ \A k \in Node : ReplicaShape(db'[k])
           /\ \A k \in Node : Spared(Origins, db'[k].flaggedBase)
           /\ RowsGenuine' /\ SeqsClaimed' /\ SeqNeverReused'
<1>1. \A k \in Node : db'[k] = IF k = n THEN r ELSE db[k]
  BY DEF IInv, Shape
<1>2. db' = [k \in Node |-> db'[k]]
  BY DEF IInv, Shape
<1>3. \A k \in Node : ReplicaShape(db'[k])
  BY <1>1 DEF IInv, Shape
<1>4. \A k \in Node : Spared(Origins, db'[k].flaggedBase)
  BY <1>1 DEF IInv, VerdictsClean
<1>5. Authentic' = Authentic
  BY DEF Authentic
<1>6. RowsGenuine'
  BY <1>1, <1>5 DEF IInv, RowsGenuine
<1>7. SeqsClaimed'
  <2> SUFFICES ASSUME NEW t \in Authentic, t.from \in Honest
               PROVE  t.seq <= db'[t.from].reserved
    BY <1>5 DEF SeqsClaimed
  <2>1. t.from \in Node /\ db'[t.from].reserved = db[t.from].reserved
    BY <1>1, ReplicationAssumption
  <2> QED BY <2>1 DEF IInv, SeqsClaimed
<1>8. SeqNeverReused'
  BY <1>5 DEF IInv, SeqNeverReused
<1> QED BY <1>2, <1>3, <1>4, <1>6, <1>7, <1>8

----------------------------------------------------------------------------
\* Every action preserves the invariant.

LEMMA SignIInv ==
    ASSUME IInv, NEW n \in Node, NEW t \in Transfer, Sign(n, t)
    PROVE  IInv'
<1>1. /\ n \in Honest /\ t.from = n /\ t.authentic /\ t.seq \in Int
      /\ db[n].reserved < t.seq /\ db[n].reserved \in Int
  <2>1. db[n].reserved < t.seq
    BY DEF Sign, Claims
  <2>2. t.seq \in Int
    BY TransferAssumption DEF TransferRecord
  <2>3. db[n].reserved \in Int
    BY DEF IInv, Shape, ReplicaShape, Replica
  <2> QED BY <2>1, <2>2, <2>3 DEF Sign
<1> DEFINE r == Reserve(db[n], t.seq)
<1>2. /\ ReplicaShape(r)
      /\ r.rows = db[n].rows /\ r.flaggedBase = db[n].flaggedBase
      /\ r.reserved = t.seq
  BY <1>1, ReserveEffect DEF IInv, Shape
<1>3. db' = [db EXCEPT ![n] = r] /\ wire' = wire \cup {t}
  BY DEF Sign
<1> HIDE DEF r
<1>4. \A k \in Node : db'[k] = IF k = n THEN r ELSE db[k]
  BY <1>3 DEF IInv, Shape
<1>5. Authentic' = Authentic \cup {t}
  BY <1>1, <1>3 DEF Authentic
<1>6. UNCHANGED <<cursor, booting, offers, told, condemned, now, restarts>>
  BY DEF Sign
<1>7. Shape' /\ OffersShape'
  <2>1. db' = [k \in Node |-> db'[k]]
    BY <1>3 DEF IInv, Shape
  <2>2. \A k \in Node : ReplicaShape(db'[k])
    BY <1>2, <1>4 DEF IInv, Shape
  <2>3. wire' \subseteq Transfer
    BY <1>3 DEF IInv, Shape
  <2> QED BY <1>6, <2>1, <2>2, <2>3 DEF IInv, Shape, OffersShape
<1>8. RowsGenuine'
  <2>1. \A k \in Node : TxsOf(db'[k]) = TxsOf(db[k])
    BY <1>2, <1>4 DEF TxsOf
  <2> QED BY <1>5, <2>1 DEF IInv, RowsGenuine
<1>9. ASSUME NEW u \in Authentic, u.from = n
      PROVE  u.seq < t.seq
  <2>1. u.seq <= db[n].reserved
    BY <1>1, <1>9 DEF IInv, SeqsClaimed
  <2>2. u.seq \in Int
    BY TransferAssumption DEF IInv, Shape, Authentic, TransferRecord
  <2> QED BY <1>1, <2>1, <2>2
<1>10. SeqsClaimed'
  <2> SUFFICES ASSUME NEW u \in Authentic', u.from \in Honest
               PROVE  u.seq <= db'[u.from].reserved
    BY DEF SeqsClaimed
  <2>1. u.from \in Node
    BY ReplicationAssumption
  <2>2. CASE u = t
    BY <1>1, <1>2, <1>4, <2>2
  <2>3. CASE u # t /\ u.from = n
    <3>1. u \in Authentic
      BY <1>5, <2>3
    <3>2. u.seq \in Int
      BY <3>1, TransferAssumption DEF IInv, Shape, Authentic, TransferRecord
    <3> QED BY <1>1, <1>2, <1>4, <1>9, <2>3, <3>1, <3>2
  <2>4. CASE u # t /\ u.from # n
    BY <1>4, <1>5, <2>1, <2>4 DEF IInv, SeqsClaimed
  <2> QED BY <2>2, <2>3, <2>4
<1>11. SeqNeverReused'
  <2> SUFFICES ASSUME NEW u \in Authentic', NEW v \in Authentic',
                      u.from \in Honest, SameSlot(u, v)
               PROVE  u = v
    BY DEF SeqNeverReused
  <2>1. \A w \in Authentic : w.from = n => w.seq # t.seq
    <3> SUFFICES ASSUME NEW w \in Authentic, w.from = n PROVE w.seq # t.seq
      OBVIOUS
    <3>1. w.seq \in Int
      BY TransferAssumption DEF IInv, Shape, Authentic, TransferRecord
    <3> QED BY <1>1, <1>9, <3>1
  <2> QED BY <1>1, <1>5, <2>1 DEF IInv, SeqNeverReused, SameSlot
<1>12. VerdictsClean'
  <2>1. Origins' = Origins BY <1>6 DEF Origins
  <2> QED BY <1>2, <1>4, <1>6, <2>1 DEF IInv, VerdictsClean
<1> QED BY <1>7, <1>8, <1>10, <1>11, <1>12 DEF IInv

LEMMA InjectIInv ==
    ASSUME IInv, NEW t \in Transfer, Inject(t)
    PROVE  IInv'
<1>1. wire' = wire \cup {t} /\ (t.from \notin Honest \/ ~t.authentic)
  BY DEF Inject
<1>2. UNCHANGED <<db, cursor, booting, offers, told, condemned, now, restarts>>
  BY DEF Inject
<1>3. /\ Authentic \subseteq Authentic'
      /\ \A u \in Authentic' : u.from \in Honest => u \in Authentic
  BY <1>1 DEF Authentic
<1>4. Shape' /\ OffersShape' /\ VerdictsClean'
  BY <1>1, <1>2 DEF IInv, Shape, OffersShape, VerdictsClean, Origins
<1>5. RowsGenuine' /\ SeqsClaimed'
  BY <1>2, <1>3 DEF IInv, RowsGenuine, SeqsClaimed
<1>6. SeqNeverReused'
  BY <1>3 DEF IInv, SeqNeverReused, SameSlot
<1> QED BY <1>4, <1>5, <1>6 DEF IInv

LEMMA ReceiveIInv ==
    ASSUME IInv, NEW n \in Node, NEW t \in wire, Receive(n, t)
    PROVE  IInv'
<1> DEFINE r == AddTx(db[n], t, Clock(n))
<1>1. /\ t \in Transfer /\ ReplicaShape(db[n])
  BY DEF IInv, Shape
<1>2. /\ ReplicaShape(r)
      /\ r.flaggedBase = db[n].flaggedBase /\ r.reserved = db[n].reserved
      /\ r = db[n] \/ (TxsOf(r) = TxsOf(db[n]) \cup {t} /\ t.authentic)
  BY <1>1, AddTxEffect
<1>3. db' = [db EXCEPT ![n] = r]
  BY DEF Receive
<1> HIDE DEF r
<1>4. UNCHANGED <<wire, cursor, booting, offers, told, now, restarts>>
  BY DEF Receive
<1>5. TxsOf(r) \subseteq Authentic /\ Spared(Origins, r.flaggedBase)
  BY <1>2 DEF IInv, RowsGenuine, Authentic, VerdictsClean
<1>6. /\ db' = [k \in Node |-> db'[k]]
      /\ \A k \in Node : ReplicaShape(db'[k])
      /\ \A k \in Node : Spared(Origins, db'[k].flaggedBase)
      /\ RowsGenuine' /\ SeqsClaimed' /\ SeqNeverReused'
  BY <1>2, <1>3, <1>4, <1>5, ReplaceLedger
<1>7. /\ condemned' \in [Node -> SUBSET Account]
      /\ \A k \in Node : condemned'[k] \cap Honest = {}
  <2>1. CASE AddStatus(db[n], t, Clock(n)) = "conflict"
    <3>1. condemned' = [condemned EXCEPT ![n] = @ \cup {t.from}]
      BY <2>1 DEF Receive
    <3>2. t.from \notin Honest
      <4> SUFFICES ASSUME t.from \in Honest PROVE FALSE
        OBVIOUS
      <4>1. PICK u \in TxsOf(db[n]) : SameSlot(t, u) /\ u.id # t.id
        BY <2>1, ConflictEvidence
      <4>2. t.authentic
        BY <2>1, ConflictEvidence
      <4>3. u \in Authentic /\ t \in Authentic
        BY <4>2 DEF IInv, RowsGenuine, Authentic
      <4> QED BY <4>1, <4>3 DEF IInv, SeqNeverReused
    <3>3. t.from \in Account
      BY <1>1, TransferAssumption DEF TransferRecord
    <3> QED BY <3>1, <3>2, <3>3 DEF IInv, Shape, VerdictsClean
  <2>2. CASE AddStatus(db[n], t, Clock(n)) # "conflict"
    BY <2>2 DEF Receive, IInv, Shape, VerdictsClean
  <2> QED BY <2>1, <2>2
<1>8. Shape' /\ OffersShape' /\ VerdictsClean'
  <2>1. Origins' = Origins BY <1>4 DEF Origins
  <2> QED BY <1>4, <1>6, <1>7, <2>1 DEF IInv, Shape, OffersShape, VerdictsClean
<1> QED BY <1>6, <1>8 DEF IInv

\* What a step that only replaces one ledger, and changes nothing else the
\* verdicts are in, has left to show.
LEMMA ReplaceIInv ==
    ASSUME IInv, NEW n \in Node, NEW r,
           ReplicaShape(r), TxsOf(r) \subseteq Authentic,
           Spared(Origins, r.flaggedBase),
           n \in Honest => r.reserved = db[n].reserved,
           db' = [db EXCEPT ![n] = r], wire' = wire,
           cursor' \in [Node -> [Node -> Nat]], booting' \subseteq Node,
           offers' = [k \in Node |-> offers'[k]],
           \A k \in Node : offers'[k] = offers[k] \/ DOMAIN offers'[k] = {},
           told' = told, condemned' = condemned, now' = now, restarts' \in 0..MaxRestarts
    PROVE  IInv'
<1>1. /\ db' = [k \in Node |-> db'[k]]
      /\ \A k \in Node : ReplicaShape(db'[k])
      /\ \A k \in Node : Spared(Origins, db'[k].flaggedBase)
      /\ RowsGenuine' /\ SeqsClaimed' /\ SeqNeverReused'
  BY ReplaceLedger
<1>2. Shape'
  BY <1>1 DEF IInv, Shape
<1>3. Origins' = Origins BY DEF Origins
<1>4. OffersShape' /\ VerdictsClean'
  BY <1>1, <1>3 DEF IInv, OffersShape, VerdictsClean
<1> QED BY <1>1, <1>2, <1>4 DEF IInv

LEMMA PullIInv ==
    ASSUME IInv, NEW n \in Node, NEW m \in Node, Pull(n, m)
    PROVE  IInv'
<1> DEFINE rowid == FirstAfter(db[m], cursor[n][m])
           t == RowAt(db[m], rowid)
           r == AddTx(db[n], t, Clock(n))
<1>1. /\ db' = [db EXCEPT ![n] = r]
      /\ cursor' = [cursor EXCEPT ![n][m] = rowid]
      /\ HasRow(db[m], rowid)
      /\ UNCHANGED <<wire, booting, offers, told, condemned, now, restarts>>
  BY DEF Pull
<1>2. rowid \in Nat
  <2>1. db[m].cut \in Nat /\ cursor[n][m] \in Nat
    BY DEF IInv, Shape, ReplicaShape, Replica
  <2> QED BY <2>1 DEF FirstAfter
<1> HIDE DEF rowid
<1>3. t \in TxsOf(db[m])
  BY <1>1 DEF HasRow, RowAt, TxsOf
<1> HIDE DEF t
<1>4. t \in Authentic /\ t \in Transfer
  BY <1>3 DEF IInv, RowsGenuine, Shape, Authentic
<1>5. ReplicaShape(db[n])
  BY DEF IInv, Shape
<1>6. /\ ReplicaShape(r)
      /\ r.flaggedBase = db[n].flaggedBase /\ r.reserved = db[n].reserved
      /\ r = db[n] \/ (TxsOf(r) = TxsOf(db[n]) \cup {t} /\ t.authentic)
  BY <1>4, <1>5, AddTxEffect
<1> HIDE DEF r
<1>7. TxsOf(r) \subseteq Authentic /\ Spared(Origins, r.flaggedBase)
  BY <1>4, <1>6 DEF IInv, RowsGenuine, VerdictsClean
<1>8. cursor' \in [Node -> [Node -> Nat]]
  BY <1>1, <1>2 DEF IInv, Shape
<1>9. booting' \subseteq Node /\ offers' = [k \in Node |-> offers'[k]]
      /\ restarts' \in 0..MaxRestarts
  BY <1>1 DEF IInv, Shape
<1> QED BY <1>1, <1>6, <1>7, <1>8, <1>9, ReplaceIInv

LEMMA PruneIInv ==
    ASSUME IInv, NEW n \in Node, PruneLedger(n)
    PROVE  IInv'
<1> DEFINE r == Prune(db[n])
<1>1. /\ db' = [db EXCEPT ![n] = r]
      /\ cursor' = [cursor EXCEPT ![n] = ZeroCursors]
      /\ UNCHANGED <<wire, booting, offers, told, condemned, now, restarts>>
  BY DEF PruneLedger
<1>2. /\ ReplicaShape(r) /\ TxsOf(r) = {} /\ r.reserved = db[n].reserved
      /\ r.flaggedBase = Proven(db[n])
  BY PruneEffect DEF IInv, Shape
<1> HIDE DEF r
<1>3. Spared(Origins, r.flaggedBase)
  BY <1>2, NoHonestDoubleSpender
<1>4. cursor' \in [Node -> [Node -> Nat]]
  BY <1>1 DEF IInv, Shape, ZeroCursors
<1>5. booting' \subseteq Node /\ offers' = [k \in Node |-> offers'[k]]
      /\ restarts' \in 0..MaxRestarts
  BY <1>1 DEF IInv, Shape
<1> QED BY <1>1, <1>2, <1>3, <1>4, <1>5, ReplaceIInv

LEMMA ComeBackIInv ==
    ASSUME IInv, NEW n \in Node, NEW r,
           ReplicaShape(r), TxsOf(r) \subseteq Authentic,
           Spared(Origins, r.flaggedBase),
           n \in Honest => r.reserved = db[n].reserved,
           ComeBack(n, r)
    PROVE  IInv'
<1>1. /\ db' = [db EXCEPT ![n] = r]
      /\ wire' = wire /\ told' = told /\ condemned' = condemned /\ now' = now
      /\ cursor' = [cursor EXCEPT ![n] = ZeroCursors]
      /\ offers' = [offers EXCEPT ![n] = NoOffer]
  BY DEF ComeBack
<1>2. cursor' \in [Node -> [Node -> Nat]]
  BY <1>1 DEF IInv, Shape, ZeroCursors
<1>3. booting' \subseteq Node
  BY DEF IInv, Shape, ComeBack
<1>4. restarts' \in 0..MaxRestarts
  BY ReplicationAssumption DEF IInv, Shape, ComeBack
<1>5. offers' = [k \in Node |-> offers'[k]]
  BY <1>1 DEF IInv, Shape
<1>6. \A k \in Node : offers'[k] = offers[k] \/ DOMAIN offers'[k] = {}
  BY <1>1 DEF IInv, Shape, NoOffer
<1> QED BY <1>1, <1>2, <1>3, <1>4, <1>5, <1>6, ReplaceIInv

LEMMA RestartIInv ==
    ASSUME IInv, NEW n \in Node, Restart(n)
    PROVE  IInv'
<1>1. /\ ReplicaShape(db[n]) /\ TxsOf(db[n]) \subseteq Authentic
      /\ Spared(Origins, db[n].flaggedBase)
  BY DEF IInv, Shape, RowsGenuine, VerdictsClean
<1> QED BY <1>1, ComeBackIInv DEF Restart

LEMMA WipeIInv ==
    ASSUME IInv, NEW n \in Node, Wipe(n)
    PROVE  IInv'
<1>1. n \notin Honest
  BY ReplicationAssumption DEF Wipe
<1>2. ComeBack(n, EmptyReplica)
  BY DEF Wipe
<1> QED BY <1>1, <1>2, EmptyReplicaShape, SparedNobody, ComeBackIInv

LEMMA DieInPruneIInv ==
    ASSUME IInv, NEW n \in Node, DieInPrune(n)
    PROVE  IInv'
<1> DEFINE r == Deleted(db[n])
<1>1. ComeBack(n, r)
  BY DEF DieInPrune
<1>2. /\ ReplicaShape(r) /\ r.rows = <<>>
      /\ r.reserved = db[n].reserved /\ r.flaggedBase = {}
  BY DeletedEffect DEF IInv, Shape
<1> HIDE DEF r
<1>3. TxsOf(r) \subseteq Authentic /\ Spared(Origins, r.flaggedBase)
  BY <1>2, NoRows, SparedNobody
<1> QED BY <1>1, <1>2, <1>3, ComeBackIInv

\* A snapshot that names nobody honest but who was named before, or is now.
LEMMA HearIInv ==
    ASSUME IInv, NEW n \in Node, NEW m \in Node \cup Impostor, NEW snap,
           snap.flagged \subseteq Account, Hear(n, m, snap),
           told \subseteq told', told' \subseteq Tale,
           Spared(Origins', snap.flagged)
    PROVE  IInv'
<1> DEFINE offer == [k \in DOMAIN offers[n] \cup {m} |->
                        IF k = m THEN snap ELSE offers[n][k]]
<1>1. /\ offers' = [offers EXCEPT ![n] = offer] /\ n # m
      /\ UNCHANGED <<wire, db, cursor, booting, condemned, now, restarts>>
  BY DEF Hear
<1>2. \A k \in Node : offers'[k] = IF k = n THEN offer ELSE offers[k]
  BY <1>1 DEF IInv, Shape
<1>3. \A k \in DOMAIN offers[n] : Spared(Origins', offers[n][k].flagged)
  BY SparedLater DEF IInv, VerdictsClean
<1>4. \A k \in DOMAIN offer : /\ k \in (Node \ {n}) \cup Impostor
                              /\ offer[k].flagged \subseteq Account
                              /\ Spared(Origins', offer[k].flagged)
  BY <1>1, <1>3, TaleAssumption DEF IInv, Shape, OffersShape
<1> HIDE DEF offer
<1>5. Shape'
  <2>1. offers' = [k \in Node |-> offers'[k]]
    BY <1>1 DEF IInv, Shape
  <2>2. \A k \in Node : DOMAIN offers'[k] \subseteq (Node \ {k}) \cup Impostor
    BY <1>2, <1>4 DEF IInv, Shape
  <2> QED BY <1>1, <2>1, <2>2 DEF IInv, Shape
<1>6. OffersShape'
  BY <1>1, <1>2, <1>4 DEF IInv, OffersShape
<1>7. VerdictsClean'
  <2>1. \A k \in Node : Spared(Origins', db[k].flaggedBase)
    BY SparedLater DEF IInv, VerdictsClean
  <2>2. \A k \in Node : \A j \in DOMAIN offers[k] :
            Spared(Origins', offers[k][j].flagged)
    BY SparedLater DEF IInv, VerdictsClean
  <2> QED BY <1>1, <1>2, <1>4, <2>1, <2>2 DEF IInv, VerdictsClean
<1>8. RowsGenuine' /\ SeqsClaimed' /\ SeqNeverReused'
  BY <1>1 DEF IInv, RowsGenuine, SeqsClaimed, SeqNeverReused, Authentic
<1> QED BY <1>5, <1>6, <1>7, <1>8 DEF IInv

LEMMA FetchSnapshotIInv ==
    ASSUME IInv, NEW n \in Node, NEW m \in Node, FetchSnapshot(n, m)
    PROVE  IInv'
<1>1. told' = told /\ told \subseteq Tale BY DEF FetchSnapshot, IInv, Shape
<1>2. Snapshot(db[m]).flagged = Proven(db[m]) /\ Proven(db[m]) \subseteq Account
  BY SnapshotShape DEF IInv, Shape
<1>3. Origins' = Origins BY <1>1 DEF Origins
<1>4. Spared(Origins, Proven(db[m])) BY NoHonestDoubleSpender
<1>5. Hear(n, m, Snapshot(db[m])) BY DEF FetchSnapshot
<1> QED BY <1>1, <1>2, <1>3, <1>4, <1>5, HearIInv

LEMMA HearTaleIInv ==
    ASSUME IInv, NEW n \in Node, NEW x \in Impostor, NEW tale \in Tale,
           HearTale(n, x, tale)
    PROVE  IInv'
<1>1. told' = told \cup {tale} /\ told \subseteq Tale /\ Hear(n, x, tale)
  BY DEF HearTale, IInv, Shape
<1>2. tale.flagged \subseteq Account BY TaleAssumption
<1>3. tale \in Origins' BY <1>1 DEF Origins
<1>4. Spared(Origins', tale.flagged) BY <1>3 DEF Spared
<1> QED BY <1>1, <1>2, <1>4, HearIInv

\* A start without a snapshot and a tick change nothing the invariant is about.
LEMMA JoinBareIInv ==
    ASSUME IInv, NEW n \in Node, JoinBare(n)
    PROVE  IInv'
<1>1. /\ offers' = [offers EXCEPT ![n] = NoOffer] /\ booting' = booting \ {n}
      /\ UNCHANGED <<wire, db, cursor, told, condemned, now, restarts>>
  BY DEF JoinBare
<1>2. /\ offers' = [k \in Node |-> offers'[k]]
      /\ \A k \in Node : offers'[k] = offers[k] \/ DOMAIN offers'[k] = {}
  BY <1>1 DEF IInv, Shape, NoOffer
<1>3. Origins' = Origins BY <1>1 DEF Origins
<1>4. Shape' /\ OffersShape' /\ VerdictsClean'
  BY <1>1, <1>2, <1>3 DEF IInv, Shape, OffersShape, VerdictsClean
<1>5. RowsGenuine' /\ SeqsClaimed' /\ SeqNeverReused'
  BY <1>1 DEF IInv, RowsGenuine, SeqsClaimed, SeqNeverReused, Authentic
<1> QED BY <1>4, <1>5 DEF IInv

LEMMA JoinFromIInv ==
    ASSUME IInv, NEW n \in Node, NEW snap \in Favoured(n), JoinFrom(n, snap)
    PROVE  IInv'
<1> DEFINE r == Adopt(db[n], snap)
<1>1. /\ db' = [db EXCEPT ![n] = r] /\ booting' = booting \ {n}
      /\ offers' = [offers EXCEPT ![n] = NoOffer]
      /\ UNCHANGED <<wire, cursor, told, condemned, now, restarts>>
  BY DEF JoinFrom
<1>2. snap.flagged \subseteq Account /\ Spared(Origins, snap.flagged)
  BY DEF Favoured, IInv, OffersShape, VerdictsClean
<1>3. ReplicaShape(db[n])
  BY DEF IInv, Shape
<1>4. /\ ReplicaShape(r) /\ TxsOf(r) = TxsOf(db[n])
      /\ r.reserved = db[n].reserved
      /\ r.flaggedBase = db[n].flaggedBase \/ r.flaggedBase = snap.flagged
  BY <1>2, <1>3, InstallEffect DEF Adopt, TxsOf
<1> HIDE DEF r
<1>5. TxsOf(r) \subseteq Authentic /\ Spared(Origins, r.flaggedBase)
  BY <1>2, <1>4 DEF IInv, RowsGenuine, VerdictsClean
<1>6. /\ offers' = [k \in Node |-> offers'[k]]
      /\ \A k \in Node : offers'[k] = offers[k] \/ DOMAIN offers'[k] = {}
  BY <1>1 DEF IInv, Shape, NoOffer
<1>7. /\ cursor' \in [Node -> [Node -> Nat]] /\ booting' \subseteq Node
      /\ restarts' \in 0..MaxRestarts
  BY <1>1 DEF IInv, Shape
<1> QED BY <1>1, <1>4, <1>5, <1>6, <1>7, ReplaceIInv

LEMMA TickIInv ==
    ASSUME IInv, Tick
    PROVE  IInv'
<1>1. /\ now' \in 0..MaxTime
      /\ UNCHANGED <<wire, db, cursor, booting, offers, told, condemned, restarts>>
  BY ReplicationAssumption DEF Tick, IInv, Shape
<1> QED BY <1>1 DEF IInv, Shape, OffersShape, VerdictsClean, RowsGenuine,
                    SeqsClaimed, SeqNeverReused, Authentic, Origins

LEMMA NextIInv == IInv /\ [Next]_vars => IInv'
<1> SUFFICES ASSUME IInv, [Next]_vars PROVE IInv'
  OBVIOUS
<1>1. CASE Next
  BY <1>1, SignIInv, InjectIInv, ReceiveIInv, PullIInv, PruneIInv, RestartIInv,
     WipeIInv, DieInPruneIInv, FetchSnapshotIInv, HearTaleIInv, JoinBareIInv, JoinFromIInv,
     TickIInv DEF Next
<1>2. CASE UNCHANGED vars
  BY <1>2 DEF vars, IInv, Shape, OffersShape, VerdictsClean, RowsGenuine,
              SeqsClaimed, SeqNeverReused, Authentic, Origins
<1> QED BY <1>1, <1>2

THEOREM Invariance == Spec => []IInv
BY InitIInv, NextIInv, PTL DEF Spec

----------------------------------------------------------------------------
\* An honest account never signs one seq twice, through any crash, prune or
\* bootstrap and whatever the other accounts sign (reserve_seq).
THEOREM SeqsAreNeverReused == Spec => []SeqNeverReused
<1>1. IInv => SeqNeverReused
  BY DEF IInv
<1> QED BY <1>1, Invariance, PTL

\* No reputation store ever condemns an honest account, and no replica or
\* snapshot on offer holds one for a double-spender unless a single tale that
\* was told had named it (add_tx, snapshot, adopt_snapshot, _on_ledger_push;
\* what a source of snapshots says is not checked).
THEOREM HonestAreUnblamed == Spec => []HonestUnblamed
<1>1. IInv => HonestUnblamed
  BY NoHonestDoubleSpender DEF IInv, VerdictsClean, Spared, HonestUnblamed
<1> QED BY <1>1, Invariance, PTL

----------------------------------------------------------------------------
\* Nothing is both folded into a baseline and live.

\* A node is answered a snapshot, or a tale.
Hears(n) ==
    \/ \E m \in Node : FetchSnapshot(n, m)
    \/ \E x \in Impostor, tale \in Tale : HearTale(n, x, tale)

LEMMA HearsOnly ==
    ASSUME NEW n, Hears(n)
    PROVE  n \in booting /\ UNCHANGED <<wire, db, cursor, booting, condemned, now, restarts>>
BY DEF Hears, FetchSnapshot, HearTale, Hear

LiveRows(r) == \A t \in TxsOf(r) : ~IsStale(r, t)

LEMMA AddTxLive ==
    ASSUME NEW r, ReplicaShape(r), LiveRows(r), NEW t \in Transfer, NEW clock
    PROVE  LiveRows(AddTx(r, t, clock))
BY AddTxEffect DEF LiveRows, IsStale

LEMMA NoRowsLive ==
    ASSUME NEW r, TxsOf(r) = {}
    PROVE  LiveRows(r)
BY DEF LiveRows

\* A snapshot goes only into a replica without rows.
LEMMA AdoptLive ==
    ASSUME NEW r, ReplicaShape(r), LiveRows(r), NEW snap, snap.flagged \subseteq Account
    PROVE  LiveRows(Adopt(r, snap))
<1>1. CASE IsEmpty(r)
  <2>1. Install(r, snap).rows = r.rows
    BY InstallEffect
  <2>2. r.rows \in Seq(Transfer) /\ Len(r.rows) = 0
    BY <1>1 DEF ReplicaShape, Replica, IsEmpty, TxCount
  <2>3. DOMAIN r.rows = {}
    BY <2>2
  <2>4. TxsOf(Install(r, snap)) = {}
    BY <2>1, <2>3 DEF TxsOf
  <2> QED BY <1>1, <2>4, NoRowsLive DEF Adopt
<1>2. CASE ~IsEmpty(r)
  BY <1>2 DEF Adopt
<1> QED BY <1>1, <1>2

\* A step either leaves a node's rows and baseline alone or leaves them live.
LEMMA StepLive ==
    ASSUME IInv, NothingCountedTwice, [Next]_vars, NEW k \in Node
    PROVE  LiveRows(db'[k])
<1>1. ReplicaShape(db[k]) /\ LiveRows(db[k]) /\ db = [n \in Node |-> db[n]]
  BY DEF IInv, Shape, NothingCountedTwice, LiveRows
<1>2. ASSUME NEW n \in Node, NEW r, LiveRows(r), db' = [db EXCEPT ![n] = r]
      PROVE  LiveRows(db'[k])
  BY <1>1, <1>2
<1>3. ASSUME NEW n \in Node, NEW t \in Transfer, Sign(n, t)
      PROVE  LiveRows(db'[k])
  <2> DEFINE r == Reserve(db[n], t.seq)
  <2>1. ReplicaShape(db[n]) /\ LiveRows(db[n]) /\ t.seq \in Int
    BY TransferAssumption DEF TransferRecord, IInv, Shape, NothingCountedTwice, LiveRows
  <2>2. r.rows = db[n].rows /\ r.base = db[n].base
    BY <2>1, ReserveEffect
  <2>3. db' = [db EXCEPT ![n] = r]
    BY <1>3 DEF Sign
  <2> HIDE DEF r
  <2>4. LiveRows(r)
    BY <2>1, <2>2 DEF LiveRows, TxsOf, IsStale
  <2> QED BY <1>2, <2>3, <2>4
<1>4. ASSUME NEW t \in Transfer, Inject(t)
      PROVE  LiveRows(db'[k])
  BY <1>1, <1>4 DEF Inject
<1>5. ASSUME NEW n \in Node, NEW t \in wire, Receive(n, t)
      PROVE  LiveRows(db'[k])
  <2>1. ReplicaShape(db[n]) /\ LiveRows(db[n]) /\ t \in Transfer
    BY DEF IInv, Shape, NothingCountedTwice, LiveRows
  <2>2. db' = [db EXCEPT ![n] = AddTx(db[n], t, Clock(n))]
    BY <1>5 DEF Receive
  <2> QED BY <1>2, <2>1, <2>2, AddTxLive
<1>6. ASSUME NEW n \in Node, NEW m \in Node, Pull(n, m)
      PROVE  LiveRows(db'[k])
  <2> DEFINE t == RowAt(db[m], FirstAfter(db[m], cursor[n][m]))
  <2>1. db' = [db EXCEPT ![n] = AddTx(db[n], t, Clock(n))]
    BY <1>6 DEF Pull
  <2>2. t \in TxsOf(db[m])
    BY <1>6 DEF Pull, HasRow, RowAt, TxsOf
  <2> HIDE DEF t
  <2>3. ReplicaShape(db[n]) /\ LiveRows(db[n]) /\ t \in Transfer
    BY <2>2 DEF IInv, Shape, NothingCountedTwice, LiveRows, RowsGenuine, Authentic
  <2> QED BY <1>2, <2>1, <2>3, AddTxLive
<1>7. ASSUME NEW n \in Node, PruneLedger(n)
      PROVE  LiveRows(db'[k])
  <2>1. db' = [db EXCEPT ![n] = Prune(db[n])]
    BY <1>7 DEF PruneLedger
  <2>2. TxsOf(Prune(db[n])) = {}
    BY PruneEffect DEF IInv, Shape
  <2> QED BY <1>2, <2>1, <2>2, NoRowsLive
<1>8. ASSUME NEW n \in Node, Restart(n) \/ Wipe(n) \/ DieInPrune(n)
      PROVE  LiveRows(db'[k])
  <2>1. CASE Restart(n)
    <3>1. LiveRows(db[n])
      BY DEF NothingCountedTwice, LiveRows
    <3>2. db' = [db EXCEPT ![n] = db[n]]
      BY <2>1 DEF Restart, ComeBack
    <3> QED BY <1>2, <3>1, <3>2
  <2>2. CASE Wipe(n)
    <3>1. db' = [db EXCEPT ![n] = EmptyReplica]
      BY <2>2 DEF Wipe, ComeBack
    <3> QED BY <1>2, <3>1, EmptyReplicaShape, NoRowsLive
  <2>3. CASE DieInPrune(n)
    <3>1. db' = [db EXCEPT ![n] = Deleted(db[n])]
      BY <2>3 DEF DieInPrune, ComeBack
    <3>2. TxsOf(Deleted(db[n])) = {}
      BY DeletedEffect, NoRows DEF IInv, Shape
    <3> QED BY <1>2, <3>1, <3>2, NoRowsLive
  <2> QED BY <1>8, <2>1, <2>2, <2>3
<1>9. ASSUME NEW n \in Node, Hears(n)
      PROVE  LiveRows(db'[k])
  BY <1>1, <1>9, HearsOnly
<1>10. ASSUME NEW n \in Node, JoinBare(n)
       PROVE  LiveRows(db'[k])
  BY <1>1, <1>10 DEF JoinBare
<1>11. ASSUME NEW n \in Node, NEW snap \in Favoured(n), JoinFrom(n, snap)
       PROVE  LiveRows(db'[k])
  <2>1. db' = [db EXCEPT ![n] = Adopt(db[n], snap)]
    BY <1>11 DEF JoinFrom
  <2>2. snap.flagged \subseteq Account
    BY DEF Favoured, IInv, OffersShape
  <2>3. ReplicaShape(db[n]) /\ LiveRows(db[n])
    BY DEF IInv, Shape, NothingCountedTwice, LiveRows
  <2> QED BY <1>2, <2>1, <2>2, <2>3, AdoptLive
<1>12. CASE Tick \/ UNCHANGED vars
  BY <1>1, <1>12 DEF Tick, vars
<1> QED
  BY <1>3, <1>4, <1>5, <1>6, <1>7, <1>8, <1>9, <1>10, <1>11, <1>12 DEF Next, Hears

\* Replays of what a checkpoint folded are never counted again, whatever is
\* pruned, adopted, lost or received in between (add_tx, prune).
THEOREM NothingIsCountedTwice == Spec => []NothingCountedTwice
<1>1. Init => NothingCountedTwice
  BY EmptyReplicaShape DEF Init, NothingCountedTwice
<1>2. IInv /\ NothingCountedTwice /\ [Next]_vars => NothingCountedTwice'
  BY StepLive DEF NothingCountedTwice, LiveRows
<1> QED BY <1>1, <1>2, Invariance, PTL DEF Spec

----------------------------------------------------------------------------
\* Without checkpoints and lost files the swarm is a grow-only set per node.

NeverForgets == PruneAbove = 0 /\ Volatile = {}

LEMMA InitRefines == Init => Grow!Init
BY EmptyReplicaShape DEF Init, Grow!Init, Authentic

\* Storing a genuine transfer is learning it.
LEMMA StoreRefines ==
    ASSUME IInv, NEW n \in Node, NEW r, NEW t \in Authentic,
           r = db[n] \/ TxsOf(r) = TxsOf(db[n]) \cup {t},
           db' = [db EXCEPT ![n] = r], wire' = wire
    PROVE  [Grow!Next]_Grow!vars
<1>1. \A k \in Node : db'[k] = IF k = n THEN r ELSE db[k]
  BY DEF IInv, Shape
<1>2. Authentic' = Authentic
  BY DEF Authentic
<1>3. CASE r = db[n]
  <2>1. \A k \in Node : TxsOf(db'[k]) = TxsOf(db[k])
    BY <1>1, <1>3
  <2> QED BY <1>2, <2>1 DEF Grow!vars
<1>4. CASE TxsOf(r) = TxsOf(db[n]) \cup {t}
  <2>1. [k \in Node |-> TxsOf(db'[k])] =
          [[k \in Node |-> TxsOf(db[k])] EXCEPT ![n] = @ \cup {t}]
    <3> DEFINE v == [k \in Node |-> TxsOf(db[k])]
               w == [k \in Node |-> TxsOf(db'[k])]
    <3>1. \A k \in Node : w[k] = IF k = n THEN v[n] \cup {t} ELSE v[k]
      <4>1. \A k \in Node : k # n => TxsOf(db'[k]) = TxsOf(db[k])
        BY <1>1
      <4>2. TxsOf(db'[n]) = TxsOf(db[n]) \cup {t}
        BY <1>1, <1>4
      <4> QED BY <4>1, <4>2
    <3>2. v = [k \in Node |-> v[k]] /\ w = [k \in Node |-> w[k]]
      OBVIOUS
    <3> HIDE DEF v, w
    <3>3. w = [v EXCEPT ![n] = v[n] \cup {t}]
      BY <3>1, <3>2
    <3> QED BY <3>3 DEF v, w
  <2> QED BY <1>2, <2>1 DEF Grow!Next, Grow!Learn
<1> QED BY <1>3, <1>4

\* A step that keeps every node's rows and the envelopes is a stutter.
LEMMA KeepRefines ==
    ASSUME wire' = wire, \A k \in Node : TxsOf(db'[k]) = TxsOf(db[k])
    PROVE  [Grow!Next]_Grow!vars
BY DEF Grow!vars, Authentic

LEMMA StepRefines ==
    ASSUME NeverForgets, IInv, [Next]_vars
    PROVE  [Grow!Next]_Grow!vars
<1>1. db = [n \in Node |-> db[n]]
  BY DEF IInv, Shape
<1>2. ASSUME NEW n \in Node, NEW r, TxsOf(r) = TxsOf(db[n]),
             db' = [db EXCEPT ![n] = r], wire' = wire
      PROVE  [Grow!Next]_Grow!vars
  <2>1. \A k \in Node : TxsOf(db'[k]) = TxsOf(db[k])
    BY <1>1, <1>2
  <2> QED BY <1>2, <2>1, KeepRefines
<1>3. ASSUME NEW n \in Node, NEW t \in Transfer, Sign(n, t)
      PROVE  [Grow!Next]_Grow!vars
  <2>1. t.seq \in Int /\ ReplicaShape(db[n])
    BY TransferAssumption DEF TransferRecord, IInv, Shape
  <2> DEFINE r == Reserve(db[n], t.seq)
  <2>2. r.rows = db[n].rows
    BY <2>1, ReserveEffect
  <2>3. db' = [db EXCEPT ![n] = r] /\ wire' = wire \cup {t} /\ t.authentic
    BY <1>3 DEF Sign
  <2> HIDE DEF r
  <2>4. \A k \in Node : TxsOf(db'[k]) = TxsOf(db[k])
    BY <1>1, <2>2, <2>3 DEF TxsOf
  <2>5. Authentic' = Authentic \cup {t}
    BY <2>3 DEF Authentic
  <2> QED BY <2>4, <2>5 DEF Grow!Next, Grow!Issue
<1>4. ASSUME NEW t \in Transfer, Inject(t)
      PROVE  [Grow!Next]_Grow!vars
  <2>1. wire' = wire \cup {t} /\ db' = db
    BY <1>4 DEF Inject
  <2>2. CASE t.authentic
    <3>1. Authentic' = Authentic \cup {t}
      BY <2>1, <2>2 DEF Authentic
    <3> QED BY <2>1, <3>1 DEF Grow!Next, Grow!Issue
  <2>3. CASE ~t.authentic
    <3>1. Authentic' = Authentic
      BY <2>1, <2>3 DEF Authentic
    <3> QED BY <2>1, <3>1 DEF Grow!vars
  <2> QED BY <2>2, <2>3
<1>5. ASSUME NEW n \in Node, NEW t \in wire, Receive(n, t)
      PROVE  [Grow!Next]_Grow!vars
  <2>1. db' = [db EXCEPT ![n] = AddTx(db[n], t, Clock(n))] /\ wire' = wire
    BY <1>5 DEF Receive
  <2>2. ReplicaShape(db[n]) /\ t \in Transfer
    BY DEF IInv, Shape
  <2>3. \/ AddTx(db[n], t, Clock(n)) = db[n]
        \/ TxsOf(AddTx(db[n], t, Clock(n))) = TxsOf(db[n]) \cup {t} /\ t.authentic
    BY <2>2, AddTxEffect
  <2>4. CASE t \in Authentic
    BY <2>1, <2>3, <2>4, StoreRefines
  <2>5. CASE t \notin Authentic
    <3>1. AddTx(db[n], t, Clock(n)) = db[n]
      BY <2>3, <2>5 DEF Authentic
    <3> QED BY <1>2, <2>1, <3>1
  <2> QED BY <2>4, <2>5
<1>6. ASSUME NEW n \in Node, NEW m \in Node, Pull(n, m)
      PROVE  [Grow!Next]_Grow!vars
  <2> DEFINE t == RowAt(db[m], FirstAfter(db[m], cursor[n][m]))
  <2>1. db' = [db EXCEPT ![n] = AddTx(db[n], t, Clock(n))] /\ wire' = wire
    BY <1>6 DEF Pull
  <2>2. t \in TxsOf(db[m])
    BY <1>6 DEF Pull, HasRow, RowAt, TxsOf
  <2> HIDE DEF t
  <2>3. ReplicaShape(db[n]) /\ t \in Transfer /\ t \in Authentic
    BY <2>2 DEF IInv, Shape, RowsGenuine, Authentic
  <2>4. \/ AddTx(db[n], t, Clock(n)) = db[n]
        \/ TxsOf(AddTx(db[n], t, Clock(n))) = TxsOf(db[n]) \cup {t}
    BY <2>3, AddTxEffect
  <2> QED BY <2>1, <2>3, <2>4, StoreRefines
<1>7. ASSUME NEW n \in Node, PruneLedger(n) \/ Wipe(n) \/ DieInPrune(n)
      PROVE  [Grow!Next]_Grow!vars
  BY <1>7 DEF NeverForgets, PruneLedger, Wipe, DieInPrune, MustPrune
<1>8. ASSUME NEW n \in Node, Restart(n)
      PROVE  [Grow!Next]_Grow!vars
  BY <1>2, <1>8 DEF Restart, ComeBack
<1>9. ASSUME NEW n \in Node, Hears(n)
      PROVE  [Grow!Next]_Grow!vars
  BY <1>9, HearsOnly, KeepRefines
<1>10. ASSUME NEW n \in Node, JoinBare(n)
       PROVE  [Grow!Next]_Grow!vars
  BY <1>10, KeepRefines DEF JoinBare
<1>11. ASSUME NEW n \in Node, NEW snap \in Favoured(n), JoinFrom(n, snap)
       PROVE  [Grow!Next]_Grow!vars
  <2>1. db' = [db EXCEPT ![n] = Adopt(db[n], snap)] /\ wire' = wire
    BY <1>11 DEF JoinFrom
  <2>2. ReplicaShape(db[n]) /\ snap.flagged \subseteq Account
    BY DEF Favoured, IInv, OffersShape, Shape
  <2>3. TxsOf(Adopt(db[n], snap)) = TxsOf(db[n])
    BY <2>2, InstallEffect DEF Adopt, TxsOf
  <2> QED BY <1>2, <2>1, <2>3
<1>12. CASE Tick \/ UNCHANGED vars
  BY <1>12, KeepRefines DEF Tick, vars
<1> QED
  BY <1>3, <1>4, <1>5, <1>6, <1>7, <1>8, <1>9, <1>10, <1>11, <1>12 DEF Next, Hears

\* Replicas that never checkpoint and never lose their file implement the
\* grow-only set the module docstring promises, crashes and bootstraps
\* included.
THEOREM ImplementsGrowOnly == NeverForgets => (Spec => RefinesGrowOnly)
<1> SUFFICES ASSUME NeverForgets PROVE Spec => RefinesGrowOnly
  OBVIOUS
<1>1. Init => Grow!Init
  BY InitRefines
<1>2. IInv /\ [Next]_vars => [Grow!Next]_Grow!vars
  BY StepRefines
<1> QED BY <1>1, <1>2, Invariance, PTL DEF Spec, RefinesGrowOnly, Grow!Spec

----------------------------------------------------------------------------
\* What replicas that were offered everything agree on, in a swarm without
\* checkpoints: nothing is pruned, lost or bootstrapped.
NoCheckpoints ==
    PruneAbove = 0 /\ Volatile = {} /\ Joining = {} /\ MaxRestarts = 0

ClocksAgree == \A n, m \in Node : Ahead[n] = Ahead[m]

\* A replica that only add_tx has written.
OnlyAdded(r, clock) ==
    /\ r.base = [a \in Account |-> NoBase] /\ r.flaggedBase = {}
    /\ \A t \in TxsOf(r) : WellFormed(t, clock)

NeverBooted ==
    /\ booting = {} /\ restarts = 0
    /\ \A n \in Node : OnlyAdded(db[n], Clock(n))

LEMMA AddTxOnlyAdds ==
    ASSUME NEW r, ReplicaShape(r), NEW t \in Transfer, NEW clock, OnlyAdded(r, clock)
    PROVE  OnlyAdded(AddTx(r, t, clock), clock)
<1> DEFINE q == AddTx(r, t, clock)
<1>1. /\ q.base = r.base /\ q.flaggedBase = r.flaggedBase
      /\ q = r \/ TxsOf(q) = TxsOf(r) \cup {t}
  BY AddTxEffect
<1>2. WellFormed(t, clock) \/ q = r
  BY DEF AddTx, AddStatus, Stored
<1> HIDE DEF q
<1>3. OnlyAdded(q, clock)
  <2>1. CASE q = r
    BY <2>1 DEF OnlyAdded
  <2>2. CASE WellFormed(t, clock) /\ TxsOf(q) = TxsOf(r) \cup {t}
    BY <1>1, <2>2 DEF OnlyAdded
  <2> QED BY <1>1, <1>2, <2>1, <2>2
<1> QED BY <1>3 DEF q

LEMMA InitNeverBooted == NoCheckpoints /\ Init => NeverBooted
<1> SUFFICES ASSUME NoCheckpoints, Init PROVE NeverBooted
  OBVIOUS
<1>1. /\ EmptyReplica.base = [a \in Account |-> NoBase]
      /\ EmptyReplica.flaggedBase = {} /\ TxsOf(EmptyReplica) = {}
  BY EmptyReplicaShape DEF EmptyReplica
<1>2. ASSUME NEW n \in Node PROVE OnlyAdded(db[n], Clock(n))
  <2>1. db[n] = EmptyReplica
    BY DEF Init
  <2> QED BY <1>1, <2>1 DEF OnlyAdded
<1> QED BY <1>2 DEF NoCheckpoints, Init, NeverBooted

LEMMA StepNeverBooted ==
    ASSUME NoCheckpoints, IInv, NeverBooted, [Next]_vars
    PROVE  NeverBooted'
<1>1. /\ db = [n \in Node |-> db[n]]
      /\ \A n \in Node : ReplicaShape(db[n]) /\ OnlyAdded(db[n], Clock(n))
      /\ booting = {} /\ restarts = 0 /\ wire \subseteq Transfer
  BY DEF IInv, Shape, NeverBooted
<1>2. ASSUME NEW n \in Node, NEW r, OnlyAdded(r, Clock(n)),
             db' = [db EXCEPT ![n] = r],
             booting' = booting, restarts' = restarts, now' = now
      PROVE  NeverBooted'
  <2>1. \A k \in Node : db'[k] = IF k = n THEN r ELSE db[k]
    BY <1>1, <1>2
  <2>2. \A k \in Node : OnlyAdded(db'[k], Clock(k))
    BY <1>1, <1>2, <2>1
  <2> QED BY <1>1, <1>2, <2>2 DEF NeverBooted, Clock
<1>3. ASSUME UNCHANGED <<db, booting, restarts, now>>
      PROVE  NeverBooted'
  BY <1>3 DEF NeverBooted, Clock
<1>4. ASSUME NEW n \in Node, NEW t \in Transfer, Sign(n, t)
      PROVE  NeverBooted'
  <2> DEFINE r == Reserve(db[n], t.seq)
  <2>1. t.seq \in Int
    BY TransferAssumption DEF TransferRecord
  <2>2. /\ r.rows = db[n].rows /\ r.base = db[n].base
        /\ r.flaggedBase = db[n].flaggedBase
    BY <1>1, <2>1, ReserveEffect
  <2>3. /\ db' = [db EXCEPT ![n] = r]
        /\ UNCHANGED <<booting, restarts, now>>
    BY <1>4 DEF Sign
  <2> HIDE DEF r
  <2>4. OnlyAdded(r, Clock(n))
    BY <1>1, <2>2 DEF OnlyAdded, TxsOf
  <2> QED BY <1>2, <2>3, <2>4
<1>5. ASSUME NEW t \in Transfer, Inject(t)
      PROVE  NeverBooted'
  BY <1>3, <1>5 DEF Inject
<1>6. ASSUME NEW n \in Node, NEW t \in wire, Receive(n, t)
      PROVE  NeverBooted'
  <2>1. OnlyAdded(AddTx(db[n], t, Clock(n)), Clock(n))
    BY <1>1, AddTxOnlyAdds
  <2>2. /\ db' = [db EXCEPT ![n] = AddTx(db[n], t, Clock(n))]
        /\ UNCHANGED <<booting, restarts, now>>
    BY <1>6 DEF Receive
  <2> QED BY <1>2, <2>1, <2>2
<1>7. ASSUME NEW n \in Node, NEW m \in Node, Pull(n, m)
      PROVE  NeverBooted'
  <2> DEFINE t == RowAt(db[m], FirstAfter(db[m], cursor[n][m]))
  <2>1. /\ db' = [db EXCEPT ![n] = AddTx(db[n], t, Clock(n))]
        /\ UNCHANGED <<booting, restarts, now>>
    BY <1>7 DEF Pull
  <2>2. t \in TxsOf(db[m])
    BY <1>7 DEF Pull, HasRow, RowAt, TxsOf
  <2> HIDE DEF t
  <2>3. t \in Transfer
    BY <1>1, <2>2 DEF IInv, RowsGenuine, Authentic
  <2>4. OnlyAdded(AddTx(db[n], t, Clock(n)), Clock(n))
    BY <1>1, <2>3, AddTxOnlyAdds
  <2> QED BY <1>2, <2>1, <2>4
<1>8. ASSUME NEW n \in Node, PruneLedger(n) \/ DieInPrune(n)
      PROVE  FALSE
  BY <1>8 DEF PruneLedger, DieInPrune, MustPrune, NoCheckpoints
<1>9. ASSUME NEW n \in Node, Restart(n) \/ Wipe(n)
      PROVE  FALSE
  BY <1>1, <1>9 DEF Restart, Wipe, ComeBack, NoCheckpoints
<1>10. ASSUME NEW n \in Node, Hears(n)
       PROVE  FALSE
  BY <1>1, <1>10, HearsOnly
<1>11. ASSUME NEW n \in Node, JoinBare(n) \/ \E snap \in Favoured(n) : JoinFrom(n, snap)
       PROVE  FALSE
  BY <1>1, <1>11 DEF JoinBare, JoinFrom
<1>12. ASSUME Tick
       PROVE  NeverBooted'
  <2>1. /\ UNCHANGED <<db, booting, restarts>>
        /\ now \in Int /\ now' = now + 1
    BY <1>12, ReplicationAssumption DEF Tick, IInv, Shape
  <2>2. ASSUME NEW n \in Node
        PROVE  OnlyAdded(db[n], now' + Ahead[n])
    <3>1. \A t \in TxsOf(db[n]) : t \in Transfer /\ t.ts \in Int
      BY TransferAssumption DEF TransferRecord, IInv, RowsGenuine, Authentic, Shape
    <3>2. Ahead[n] \in Int /\ MaxClockSkew \in Int
      BY ReplicationAssumption, LedgerConstants
    <3>3. \A t \in TxsOf(db[n]) : WellFormed(t, now + Ahead[n])
      BY <1>1 DEF OnlyAdded, Clock
    <3>4. \A t \in TxsOf(db[n]) : WellFormed(t, now' + Ahead[n])
      BY <2>1, <3>1, <3>2, <3>3 DEF WellFormed
    <3> QED BY <1>1, <3>4 DEF OnlyAdded
  <2> QED BY <1>1, <2>1, <2>2 DEF NeverBooted, Clock
<1>13. CASE UNCHANGED vars
  BY <1>3, <1>13 DEF vars
<1> QED
  BY <1>4, <1>5, <1>6, <1>7, <1>8, <1>9, <1>10, <1>11, <1>12, <1>13 DEF Next, Hears

LEMMA BootsNever == NoCheckpoints => (Spec => []NeverBooted)
<1> SUFFICES ASSUME NoCheckpoints PROVE Spec => []NeverBooted
  OBVIOUS
<1>1. Init => NeverBooted
  BY InitNeverBooted
<1>2. IInv /\ NeverBooted /\ [Next]_vars => NeverBooted'
  BY StepNeverBooted
<1> QED BY <1>1, <1>2, Invariance, PTL DEF Spec

\* A quiescent replica holds every transfer that add_tx could accept.
LEMMA QuiescentHoldsAll ==
    ASSUME IInv, NeverBooted, NEW n \in Node, Quiescent(n),
           NEW t \in Authentic, WellFormed(t, Clock(n))
    PROVE  t \in TxsOf(db[n])
<1>1. t \in wire /\ t.authentic /\ t \in Transfer
  BY DEF Authentic, IInv, Shape
<1>2. t.from \in Account /\ t.seq \in Int
  BY <1>1, TransferAssumption DEF TransferRecord
<1>3. ~IsStale(db[n], t)
  BY <1>2 DEF IsStale, NeverBooted, OnlyAdded, NoBase, WellFormed
<1>4. AddStatus(db[n], t, Clock(n)) \notin Stored
  BY <1>1 DEF Quiescent
<1>5. IsKnown(db[n], t)
  BY <1>1, <1>3, <1>4 DEF AddStatus, Stored
<1>6. PICK u \in TxsOf(db[n]) : u.id = t.id
  BY <1>5 DEF IsKnown
<1>7. u \in Transfer
  BY DEF IInv, Shape, RowsGenuine, Authentic
<1> QED BY <1>1, <1>6, <1>7, TransferAssumption

\* A replica that has been offered both halves of a double-spend flags the
\* spender: add_tx keeps the second half as evidence, however it arrives.
THEOREM DoubleSpendsAreFlagged == NoCheckpoints => (Spec => []DoubleSpendFlagged)
<1> SUFFICES ASSUME NoCheckpoints PROVE Spec => []DoubleSpendFlagged
  OBVIOUS
<1>1. IInv /\ NeverBooted => DoubleSpendFlagged
  <2> SUFFICES ASSUME IInv, NeverBooted, NEW n \in Node, Quiescent(n),
                      NEW t \in Authentic, NEW u \in Authentic,
                      WellFormed(t, Clock(n)), WellFormed(u, Clock(n)),
                      SameSlot(t, u), t # u
               PROVE  t.from \in Proven(db[n])
    BY DEF DoubleSpendFlagged
  <2>1. t \in TxsOf(db[n]) /\ u \in TxsOf(db[n])
    BY QuiescentHoldsAll
  <2>2. t.from \in Account /\ t.id # u.id
    BY TransferAssumption DEF TransferRecord, Authentic, IInv, Shape
  <2> QED BY <2>1, <2>2 DEF Proven, DoubleSpenders
<1> QED BY <1>1, Invariance, BootsNever, PTL

\* Replicas whose clocks agree and that have been offered everything hold the
\* same balances, earnings and verdicts (module docstring: "replicas converge
\* regardless of delivery order").
THEOREM ReplicasConverge == NoCheckpoints /\ ClocksAgree => (Spec => []Converged)
<1> SUFFICES ASSUME NoCheckpoints, ClocksAgree PROVE Spec => []Converged
  OBVIOUS
<1>1. IInv /\ NeverBooted => Converged
  <2> SUFFICES ASSUME IInv, NeverBooted, NEW n \in Node, NEW m \in Node,
                      Quiescent(n), Quiescent(m)
               PROVE  SameBooks(n, m)
    BY DEF Converged
  <2>1. Clock(n) = Clock(m)
    BY DEF ClocksAgree, Clock
  <2>2. /\ \A t \in TxsOf(db[n]) : t \in Authentic /\ WellFormed(t, Clock(n))
        /\ \A t \in TxsOf(db[m]) : t \in Authentic /\ WellFormed(t, Clock(m))
    BY DEF NeverBooted, OnlyAdded, IInv, RowsGenuine
  <2>3. TxsOf(db[n]) = TxsOf(db[m])
    BY <2>1, <2>2, QuiescentHoldsAll
  <2>4. Counted(db[n]) = Counted(db[m])
    BY <2>3 DEF Counted
  <2>5. /\ db[n].base = db[m].base
        /\ db[n].flaggedBase = db[m].flaggedBase
    BY DEF NeverBooted, OnlyAdded
  <2>6. \A a : /\ Incoming(db[n], a) = Incoming(db[m], a)
               /\ Outgoing(db[n], a) = Outgoing(db[m], a)
    BY <2>4 DEF Incoming, Outgoing
  <2>7. Proven(db[n]) = Proven(db[m])
    BY <2>3, <2>5 DEF Proven, DoubleSpenders
  <2>8. \A a : /\ Balance(db[n], a) = Balance(db[m], a)
               /\ TotalEarned(db[n], a) = TotalEarned(db[m], a)
    BY <2>5, <2>6 DEF Balance, TotalEarned
  <2> QED BY <2>7, <2>8 DEF SameBooks, IsFlagged
<1> QED BY <1>1, Invariance, BootsNever, PTL

----------------------------------------------------------------------------
\* Numbers, and sums of transfers.

\* A set of naturals has a least element.
LEMMA HasLeast ==
    ASSUME NEW S \in SUBSET Nat, S # {}
    PROVE  \E m \in S : \A n \in S : m <= n
<1> DEFINE R == OpToRel(<, Nat)
<1>1. IsWellFoundedOn(R, Nat) BY NatLessThanWellFounded
<1>2. \A m, n \in Nat : n < m => <<n, m>> \in R BY DEF OpToRel
<1> HIDE DEF R
<1>3. PICK m \in S : \A n \in S : <<n, m>> \notin R BY <1>1, WFMin
<1>4. ASSUME NEW n \in S PROVE m <= n
  <2>1. m \in Nat /\ n \in Nat /\ ~(n < m) BY <1>2, <1>3
  <2> QED BY <2>1
<1> QED BY <1>4

\* A finite set of naturals has a greatest element.
LEMMA HasGreatest ==
    ASSUME NEW S \in SUBSET Nat, IsFiniteSet(S), S # {}
    PROVE  \E m \in S : \A n \in S : n <= m
<1> DEFINE Bounded(T) == \E b \in Nat : \A n \in T : n <= b
           Bad == {T \in FiniteSubsetsOf(S) : ~Bounded(T)}
           R == StrictSubsetOrdering(S)
<1>1. Bounded(S)
  <2>1. SUFFICES ASSUME ~Bounded(S) PROVE FALSE OBVIOUS
  <2>2. S \in Bad BY <2>1 DEF FiniteSubsetsOf
  <2>3. IsWellFoundedOn(R, FiniteSubsetsOf(S)) BY FS_StrictSubsetOrderingWellFounded
  <2>4. PICK T \in Bad : \A U \in Bad : <<U, T>> \notin R
    <3>1. Bad \subseteq FiniteSubsetsOf(S) /\ Bad # {} BY <2>2
    <3> HIDE DEF Bad, R
    <3> QED BY <2>3, <3>1, WFMin
  <2>5. T \in SUBSET S /\ IsFiniteSet(T) /\ ~Bounded(T) BY DEF FiniteSubsetsOf
  <2>6. T # {} BY <2>5
  <2>7. PICK x \in T : TRUE BY <2>6
  <2> DEFINE U == T \ {x}
  <2>8. U \in SUBSET S /\ IsFiniteSet(U) BY <2>5, FS_RemoveElement
  <2>9. <<U, T>> \in R BY <2>5, <2>7, <2>8 DEF StrictSubsetOrdering
  <2>10. Bounded(U)
    <3>1. U \notin Bad BY <2>4, <2>9
    <3> QED BY <3>1, <2>8 DEF FiniteSubsetsOf
  <2>11. PICK b \in Nat : \A n \in U : n <= b BY <2>10
  <2>12. x \in Nat BY <2>5
  <2>13. PICK d \in Nat : d >= b /\ d >= x BY <2>12
  <2>14. \A n \in T : n <= d
    <3> SUFFICES ASSUME NEW n \in T PROVE n <= d OBVIOUS
    <3>1. n \in Nat BY <2>5
    <3> QED BY <2>11, <2>13, <3>1
  <2> QED BY <2>5, <2>14
<1> HIDE DEF Bad, R
<1>2. PICK b \in Nat : \A n \in S : n <= b BY <1>1
<1> DEFINE V == {u \in Nat : \A n \in S : n <= u}
<1>3. b \in V BY <1>2
<1>4. PICK m \in V : \A n \in V : m <= n
  <2>1. V \in SUBSET Nat /\ V # {} BY <1>3
  <2> HIDE DEF V
  <2> QED BY <2>1, HasLeast
<1>5. m \in S
  <2> SUFFICES ASSUME m \notin S PROVE FALSE OBVIOUS
  <2>1. PICK n \in S : TRUE OBVIOUS
  <2>2. n < m BY <2>1
  <2>3. m - 1 \in V BY <2>2
  <2> QED BY <1>4, <2>3
<1> QED BY <1>5

LEMMA RowsFinite ==
    ASSUME NEW r, ReplicaShape(r)
    PROVE  IsFiniteSet(TxsOf(r))
<1> DEFINE l == Len(r.rows)
           f == [i \in 1..l |-> r.rows[i]]
<1>1. r.rows \in Seq(Transfer) BY DEF ReplicaShape, Replica
<1>2. l \in Nat /\ DOMAIN r.rows = 1..l BY <1>1
<1>3. f \in Surjection(1..l, TxsOf(r)) BY <1>2 DEF TxsOf, Surjection
<1>4. IsFiniteSet(1..l)
  <2>1. PICK one \in Int : one = 1 OBVIOUS
  <2>2. IsFiniteSet(one..l) BY <1>2, FS_Interval
  <2> QED BY <2>1, <2>2
<1> HIDE DEF f, l
<1> QED BY <1>3, <1>4, FS_Surjection

LEMMA CreditsFinite ==
    ASSUME NEW S \in SUBSET Transfer, IsFiniteSet(S)
    PROVE  IsFiniteSet(Credits(S)) /\ Amounts(S) \in Nat
<1> DEFINE Of == {{t} \X (1..t.amount) : t \in S}
           f == [t \in S |-> {t} \X (1..t.amount)]
<1>1. f \in Surjection(S, Of) BY DEF Surjection
<1>2. IsFiniteSet(Of)
  <2> HIDE DEF f, Of
  <2> QED BY <1>1, FS_Surjection
<1>3. ASSUME NEW t \in S PROVE IsFiniteSet({t} \X (1..t.amount))
  <2>1. t.amount \in Int BY TransferAssumption DEF TransferRecord
  <2>2. IsFiniteSet(1..t.amount)
    <3>1. PICK one \in Int : one = 1 OBVIOUS
    <3>2. IsFiniteSet(one..t.amount) BY <2>1, FS_Interval
    <3> QED BY <3>1, <3>2
  <2>3. IsFiniteSet({t}) BY FS_Singleton
  <2> QED BY <2>2, <2>3, FS_Product
<1>4. \A C \in Of : IsFiniteSet(C) BY <1>3
<1>5. IsFiniteSet(UNION Of)
  <2> HIDE DEF f, Of
  <2> QED BY <1>2, <1>4, FS_UNION
<1>6. Credits(S) = UNION Of BY DEF Credits
<1> HIDE DEF f, Of
<1> QED BY <1>5, <1>6, FS_CardinalityType DEF Amounts

LEMMA AmountsEmpty == Amounts({}) = 0
<1>1. Credits({}) = {} BY DEF Credits
<1> QED BY <1>1, FS_EmptySet DEF Amounts

\* Transfers that are not among each other's are counted one after the other.
LEMMA AmountsAdd ==
    ASSUME NEW S \in SUBSET Transfer, NEW T \in SUBSET Transfer,
           IsFiniteSet(S), IsFiniteSet(T), S \cap T = {}
    PROVE  Amounts(S \cup T) = Amounts(S) + Amounts(T)
<1>1. Credits(S \cup T) = Credits(S) \cup Credits(T) BY DEF Credits
<1>2. Credits(S) \cap Credits(T) = {} BY DEF Credits
<1>3. /\ IsFiniteSet(Credits(S)) /\ IsFiniteSet(Credits(T))
      /\ Amounts(S) \in Nat /\ Amounts(T) \in Nat
  BY CreditsFinite
<1>4. Cardinality(Credits(S) \cup Credits(T))
        = Cardinality(Credits(S)) + Cardinality(Credits(T))
            - Cardinality(Credits(S) \cap Credits(T))
  BY <1>3, FS_Union
<1>5. Cardinality(Credits(S) \cap Credits(T)) = 0 BY <1>2, FS_EmptySet
<1>6. Cardinality(Credits(S) \cup Credits(T)) = Amounts(S) + Amounts(T)
  BY <1>3, <1>4, <1>5 DEF Amounts
<1> QED BY <1>1, <1>6 DEF Amounts

\* The greatest of finitely many naturals is what Max picks.
LEMMA MaxIs ==
    ASSUME NEW S \in SUBSET Nat, IsFiniteSet(S), S # {}
    PROVE  Max(S) \in S /\ \A n \in S : n <= Max(S)
<1>1. PICK m \in S : \A n \in S : n <= m BY HasGreatest
<1>2. \A n \in S : m >= n BY <1>1
<1>3. Max(S) \in S /\ \A n \in S : Max(S) >= n BY <1>2 DEF Max
<1> QED BY <1>3

----------------------------------------------------------------------------
\* Books and the transfers they are the effect of.

PaidTo(F, a) == {t \in F : t.to = a}

PaidBy(F, a) == {t \in F : t.from = a}

\* What the transfers of F make of an account that the origin o says of what
\* it says.
Effect(o, F, a) ==
    [balance |-> o[a].balance + Amounts(PaidTo(F, a)) - Amounts(PaidBy(F, a)),
     earned  |-> o[a].earned + Amounts(PaidTo(F, a))]

\* The baseline b is the effect of F on o: finitely many transfers, one per
\* slot, above the seq o holds for their sender and not above the one b holds.
Explains(o, F, b) ==
    /\ IsFiniteSet(F)
    /\ \A t, u \in F : SameSlot(t, u) => t = u
    /\ \A t \in F : o[t.from].seq < t.seq /\ t.seq <= b[t.from].seq
    /\ \A a \in Account : /\ b[a].balance = Effect(o, F, a).balance
                          /\ b[a].earned = Effect(o, F, a).earned
                          /\ o[a].seq <= b[a].seq

\* Whoever condemns holds a row of some account.
Grounded(b, flagged) == flagged # {} => \E a \in Account : b[a] # NoBase

Books == [Account -> BaseRow]

\* Books that one of the sources and transfers out of A account for.
Sound(sources, A, b) ==
    /\ b \in Books
    /\ \E origin \in sources :
          /\ origin.accounts \in Books
          /\ \E F \in SUBSET A : Explains(origin.accounts, F, b)

\* The rows that count are among the stored ones, one per slot, and every
\* stored row has one of its slot among them.
LEMMA CountedRows ==
    ASSUME NEW r, ReplicaShape(r)
    PROVE  /\ Counted(r) \subseteq TxsOf(r) /\ TxsOf(r) \subseteq Transfer
           /\ IsFiniteSet(Counted(r))
           /\ \A t, u \in Counted(r) : SameSlot(t, u) => t = u
           /\ \A t \in TxsOf(r) : \E u \in Counted(r) : SameSlot(t, u)
<1>1. Counted(r) \subseteq TxsOf(r) BY DEF Counted
<1>2. TxsOf(r) \subseteq Transfer
  <2>1. r.rows \in Seq(Transfer) BY DEF ReplicaShape, Replica
  <2> QED BY <2>1 DEF TxsOf
<1>3. IsFiniteSet(Counted(r)) BY <1>1, RowsFinite, FS_Subset
<1>4. ASSUME NEW t \in Counted(r), NEW u \in Counted(r), SameSlot(t, u)
      PROVE  t = u
  <2>1. t.id <= u.id /\ u.id <= t.id BY <1>1, <1>4 DEF Counted, SameSlot
  <2>2. t \in Transfer /\ u \in Transfer BY <1>1, <1>2
  <2>3. t.id \in Nat /\ u.id \in Nat BY <2>2, TransferAssumption DEF TransferRecord
  <2>4. t.id = u.id BY <2>1, <2>3
  <2> QED BY <2>2, <2>4, TransferAssumption
<1>5. ASSUME NEW t \in TxsOf(r) PROVE \E u \in Counted(r) : SameSlot(t, u)
  <2> DEFINE D == {v.id : v \in {w \in TxsOf(r) : SameSlot(t, w)}}
  <2>1. D \in SUBSET Nat BY <1>2, TransferAssumption DEF TransferRecord
  <2>2. t.id \in D BY DEF SameSlot
  <2>3. PICK d \in D : \A e \in D : d <= e
    <3> HIDE DEF D
    <3> QED BY <2>1, <2>2, HasLeast
  <2>4. PICK u \in TxsOf(r) : SameSlot(t, u) /\ u.id = d BY <2>3
  <2>5. \A w \in TxsOf(r) : SameSlot(u, w) => u.id <= w.id
    BY <2>3, <2>4 DEF SameSlot
  <2> QED BY <2>4, <2>5 DEF Counted
<1> QED BY <1>1, <1>2, <1>3, <1>4, <1>5

\* The seq a snapshot folds is the highest the replica knows of an account.
LEMMA FoldedIs ==
    ASSUME NEW r, ReplicaShape(r), NEW a \in Account, r.base[a].seq \in Nat, LiveRows(r)
    PROVE  /\ FoldedSeq(r, a) \in Nat /\ FoldedSeq(r, a) >= r.base[a].seq
           /\ \A t \in TxsOf(r) : t.from = a => t.seq <= FoldedSeq(r, a) /\ t.seq >= 1
           /\ NextSeq(r, a) = FoldedSeq(r, a) + 1
<1> DEFINE C == {t.seq : t \in {u \in Counted(r) : u.from = a}}
           T == {t.seq : t \in {u \in TxsOf(r) : u.from = a}}
           Q == {r.base[a].seq} \cup C
<1>1. C = T
  <2>1. C \subseteq T BY CountedRows
  <2>2. T \subseteq C BY CountedRows DEF SameSlot
  <2> QED BY <2>1, <2>2
<1>2. \A t \in TxsOf(r) : t.from = a => t.seq \in Nat /\ t.seq >= 1
  <2> SUFFICES ASSUME NEW t \in TxsOf(r), t.from = a PROVE t.seq \in Nat /\ t.seq >= 1
    OBVIOUS
  <2>1. t.seq \in Int BY CountedRows, TransferAssumption DEF TransferRecord
  <2>2. ~(t.seq <= r.base[a].seq) BY DEF LiveRows, IsStale
  <2> QED BY <2>1, <2>2
<1>3. Q \in SUBSET Nat
  <2>1. T \in SUBSET Nat BY <1>2
  <2> QED BY <1>1, <2>1
<1>4. IsFiniteSet(Q)
  <2> DEFINE S == {u \in Counted(r) : u.from = a}
             f == [t \in S |-> t.seq]
  <2>1. IsFiniteSet(S) BY CountedRows, FS_Subset
  <2>2. f \in Surjection(S, C) BY DEF Surjection
  <2> HIDE DEF f, S, C
  <2>3. IsFiniteSet(C) BY <2>1, <2>2, FS_Surjection
  <2>4. IsFiniteSet(C \cup {r.base[a].seq}) BY <2>3, FS_AddElement
  <2>5. Q = C \cup {r.base[a].seq} OBVIOUS
  <2> QED BY <2>4, <2>5
<1>5. r.base[a].seq \in Q OBVIOUS
<1>6. FoldedSeq(r, a) = Max(Q) BY DEF FoldedSeq
<1>7. NextSeq(r, a) = Max(Q) + 1 BY <1>1 DEF NextSeq, SeqsOf
<1>8. \A t \in TxsOf(r) : t.from = a => t.seq \in Q BY <1>1
<1> HIDE DEF Q, C, T
<1>9. Max(Q) \in Q /\ \A n \in Q : n <= Max(Q) BY <1>3, <1>4, <1>5, MaxIs
<1> QED BY <1>2, <1>3, <1>5, <1>6, <1>7, <1>8, <1>9

\* Splitting what a set of transfers moves by payer and payee.
LEMMA EffectAdd ==
    ASSUME NEW F \in SUBSET Transfer, NEW C \in SUBSET Transfer,
           IsFiniteSet(F), IsFiniteSet(C), F \cap C = {}, NEW a
    PROVE  /\ Amounts(PaidTo(F \cup C, a))
                = Amounts(PaidTo(F, a)) + Amounts(PaidTo(C, a))
           /\ Amounts(PaidBy(F \cup C, a))
                = Amounts(PaidBy(F, a)) + Amounts(PaidBy(C, a))
           /\ \A S \in {F, C} : /\ Amounts(PaidTo(S, a)) \in Nat
                                /\ Amounts(PaidBy(S, a)) \in Nat
<1>1. \A S \in {F, C} : /\ IsFiniteSet(PaidTo(S, a))
                        /\ IsFiniteSet(PaidBy(S, a))
  <2>1. ASSUME NEW S \in {F, C}, NEW T \in SUBSET S PROVE IsFiniteSet(T)
    BY <2>1, FS_Subset
  <2> QED BY <2>1 DEF PaidTo, PaidBy
<1>2. /\ PaidTo(F \cup C, a) = PaidTo(F, a) \cup PaidTo(C, a)
      /\ PaidBy(F \cup C, a) = PaidBy(F, a) \cup PaidBy(C, a)
      /\ PaidTo(F, a) \cap PaidTo(C, a) = {}
      /\ PaidBy(F, a) \cap PaidBy(C, a) = {}
  BY DEF PaidTo, PaidBy
<1>3. ASSUME NEW S \in {F, C}
      PROVE  /\ Amounts(PaidTo(S, a)) \in Nat
             /\ Amounts(PaidBy(S, a)) \in Nat
  <2>1. PaidTo(S, a) \in SUBSET Transfer /\ PaidBy(S, a) \in SUBSET Transfer
    BY DEF PaidTo, PaidBy
  <2> QED BY <1>1, <2>1, CreditsFinite
<1>4. /\ Amounts(PaidTo(F, a) \cup PaidTo(C, a))
           = Amounts(PaidTo(F, a)) + Amounts(PaidTo(C, a))
      /\ Amounts(PaidBy(F, a) \cup PaidBy(C, a))
           = Amounts(PaidBy(F, a)) + Amounts(PaidBy(C, a))
  <2>1. /\ PaidTo(F, a) \in SUBSET Transfer /\ PaidTo(C, a) \in SUBSET Transfer
        /\ PaidBy(F, a) \in SUBSET Transfer /\ PaidBy(C, a) \in SUBSET Transfer
    BY DEF PaidTo, PaidBy
  <2> QED BY <1>1, <1>2, <2>1, AmountsAdd
<1> QED BY <1>2, <1>3, <1>4

\* A snapshot of a replica whose baseline is explained is explained by the
\* folded transfers and the rows that count, which share no slot.
LEMMA Folding ==
    ASSUME NEW r, ReplicaShape(r), LiveRows(r), r.base \in Books, NEW o \in Books,
           NEW F \in SUBSET Transfer, Explains(o, F, r.base)
    PROVE  /\ Explains(o, F \cup Counted(r), Snapshot(r).accounts)
           /\ Snapshot(r).accounts \in Books
<1> DEFINE C == Counted(r)
           b == Snapshot(r).accounts
<1>1. /\ C \subseteq TxsOf(r) /\ C \in SUBSET Transfer /\ IsFiniteSet(C)
      /\ \A t, u \in C : SameSlot(t, u) => t = u
  BY CountedRows
<1>2. b = [a \in Account |-> [balance |-> Balance(r, a), seq |-> FoldedSeq(r, a),
                              earned |-> TotalEarned(r, a)]]
  BY DEF Snapshot
<1>3. \A a \in Account : /\ r.base[a].seq \in Nat /\ r.base[a].balance \in Int
                         /\ r.base[a].earned \in Nat
                         /\ o[a].seq \in Nat /\ o[a].balance \in Int
                         /\ o[a].earned \in Nat
  BY DEF Books, BaseRow
<1>4. ASSUME NEW a \in Account
      PROVE  /\ b[a].seq \in Nat /\ b[a].seq >= r.base[a].seq
             /\ \A t \in C : t.from = a => t.seq <= b[a].seq
  <2>1. b[a].seq = FoldedSeq(r, a) BY <1>2
  <2> HIDE DEF b, C
  <2> QED BY <1>1, <1>3, <2>1, FoldedIs
<1>5. \A t \in Transfer : t.from \in Account /\ t.seq \in Int
  BY TransferAssumption DEF TransferRecord
<1>6. ASSUME NEW t \in F, NEW u \in C PROVE ~SameSlot(t, u)
  <2>1. t.seq <= r.base[t.from].seq BY DEF Explains
  <2>2. ~(u.seq <= r.base[u.from].seq) BY <1>1 DEF LiveRows, IsStale
  <2> QED BY <2>1, <2>2 DEF SameSlot
<1>7. IsFiniteSet(F) BY DEF Explains
<1>8. F \cap C = {} BY <1>6 DEF SameSlot
<1>9. ASSUME NEW a \in Account
      PROVE  /\ b[a].balance \in Int /\ b[a].earned \in Nat
             /\ b[a].balance = Effect(o, F \cup C, a).balance
             /\ b[a].earned = Effect(o, F \cup C, a).earned
  <2>1. /\ b[a].balance = r.base[a].balance + Amounts(PaidTo(C, a))
                             - Amounts(PaidBy(C, a))
        /\ b[a].earned = r.base[a].earned + Amounts(PaidTo(C, a))
    BY <1>2 DEF Balance, TotalEarned, Incoming, Outgoing, PaidTo, PaidBy
  <2>2. /\ r.base[a].balance = o[a].balance + Amounts(PaidTo(F, a))
                                 - Amounts(PaidBy(F, a))
        /\ r.base[a].earned = o[a].earned + Amounts(PaidTo(F, a))
    BY DEF Explains, Effect
  <2>3. /\ Effect(o, F \cup C, a).balance = o[a].balance + Amounts(PaidTo(F \cup C, a))
                                               - Amounts(PaidBy(F \cup C, a))
        /\ Effect(o, F \cup C, a).earned = o[a].earned + Amounts(PaidTo(F \cup C, a))
    BY DEF Effect
  <2> HIDE DEF b, C
  <2>4. /\ Amounts(PaidTo(F \cup C, a))
                = Amounts(PaidTo(F, a)) + Amounts(PaidTo(C, a))
        /\ Amounts(PaidBy(F \cup C, a))
                = Amounts(PaidBy(F, a)) + Amounts(PaidBy(C, a))
        /\ \A S \in {F, C} : /\ Amounts(PaidTo(S, a)) \in Nat
                             /\ Amounts(PaidBy(S, a)) \in Nat
    BY <1>1, <1>7, <1>8, EffectAdd
  <2>6. /\ r.base[a].balance \in Int /\ r.base[a].earned \in Nat
        /\ o[a].balance \in Int /\ o[a].earned \in Nat
    BY <1>3
  <2>7. b[a].balance = Effect(o, F \cup C, a).balance
    BY <2>1, <2>2, <2>3, <2>4, <2>6
  <2>8. b[a].earned = Effect(o, F \cup C, a).earned
    BY <2>1, <2>2, <2>3, <2>4, <2>6
  <2>9. b[a].balance \in Int /\ b[a].earned \in Nat BY <2>1, <2>4, <2>6
  <2> QED BY <2>7, <2>8, <2>9
<1>10. b \in Books
  <2>1. \A a \in Account : b[a] = [balance |-> b[a].balance, seq |-> b[a].seq, earned |-> b[a].earned]
    BY <1>2
  <2>2. b = [a \in Account |-> b[a]] BY <1>2
  <2> HIDE DEF b, C
  <2>3. ASSUME NEW a \in Account PROVE b[a] \in BaseRow
    <3>1. b[a].balance \in Int /\ b[a].seq \in Nat /\ b[a].earned \in Nat BY <1>4, <1>9
    <3>2. b[a] = [balance |-> b[a].balance, seq |-> b[a].seq, earned |-> b[a].earned]
      BY <2>1
    <3> QED BY <3>1, <3>2 DEF BaseRow
  <2> QED BY <2>2, <2>3 DEF Books
<1>11. Explains(o, F \cup C, b)
  <2>1. IsFiniteSet(F \cup C) BY <1>1, <1>7, FS_Union
  <2>2. ASSUME NEW t \in F \cup C, NEW u \in F \cup C, SameSlot(t, u) PROVE t = u
    <3>1. SameSlot(u, t) BY <2>2 DEF SameSlot
    <3>2. CASE t \in F /\ u \in F BY <2>2, <3>2 DEF Explains
    <3>3. CASE t \in C /\ u \in C BY <1>1, <2>2, <3>3
    <3> HIDE DEF C
    <3> QED BY <1>6, <2>2, <3>1, <3>2, <3>3
  <2>3. ASSUME NEW t \in F \cup C PROVE o[t.from].seq < t.seq /\ t.seq <= b[t.from].seq
    <3>1. t \in Transfer BY <1>1
    <3>2. t.from \in Account /\ t.seq \in Int BY <1>5, <3>1
    <3>3. CASE t \in C
      <4>1. o[t.from].seq <= r.base[t.from].seq BY <3>2 DEF Explains
      <4>2. ~(t.seq <= r.base[t.from].seq) BY <1>1, <3>3 DEF LiveRows, IsStale
      <4>3. t.seq <= b[t.from].seq BY <1>4, <3>2, <3>3
      <4> HIDE DEF b, C
      <4> QED BY <1>3, <3>2, <4>1, <4>2, <4>3
    <3>4. CASE t \in F
      <4>1. o[t.from].seq < t.seq /\ t.seq <= r.base[t.from].seq BY <3>4 DEF Explains
      <4> HIDE DEF b
      <4> QED BY <1>3, <1>4, <3>2, <4>1
    <3> QED BY <3>3, <3>4
  <2>4. ASSUME NEW a \in Account PROVE o[a].seq <= b[a].seq
    <3>1. o[a].seq <= r.base[a].seq BY DEF Explains
    <3>2. b[a].seq \in Nat /\ b[a].seq >= r.base[a].seq BY <1>4
    <3> HIDE DEF b
    <3> QED BY <1>3, <3>1, <3>2
  <2> HIDE DEF b, C
  <2> QED BY <1>9, <2>1, <2>2, <2>3, <2>4 DEF Explains
<1> QED BY <1>10, <1>11

\* A snapshot that condemns anyone lists an account: the baseline's, or the
\* payer of some row.
LEMMA SnapshotGrounded ==
    ASSUME NEW r, ReplicaShape(r), LiveRows(r), r.base \in Books,
           Grounded(r.base, r.flaggedBase)
    PROVE  Grounded(Snapshot(r).accounts, Snapshot(r).flagged)
<1> SUFFICES ASSUME Proven(r) # {}
             PROVE  \E a \in Account : Snapshot(r).accounts[a] # NoBase
  BY SnapshotShape DEF Grounded
<1>1. \A a \in Account : /\ Snapshot(r).accounts[a].seq = FoldedSeq(r, a)
                         /\ r.base[a].seq \in Nat
  BY DEF Snapshot, Books, BaseRow
<1>2. ASSUME NEW t \in TxsOf(r)
      PROVE  \E a \in Account : Snapshot(r).accounts[a] # NoBase
  <2>1. t.from \in Account /\ t.seq \in Int
    BY CountedRows, TransferAssumption DEF TransferRecord
  <2>2. FoldedSeq(r, t.from) \in Nat /\ t.seq <= FoldedSeq(r, t.from) /\ t.seq >= 1
    BY <1>1, <2>1, FoldedIs
  <2>3. Snapshot(r).accounts[t.from].seq # 0 BY <1>1, <2>1, <2>2
  <2> QED BY <2>1, <2>3 DEF NoBase
<1>3. CASE TxsOf(r) = {}
  <2>1. r.flaggedBase # {} BY <1>3 DEF Proven, DoubleSpenders
  <2>2. PICK a \in Account : r.base[a] # NoBase BY <2>1 DEF Grounded
  <2>3. r.base[a] = [balance |-> r.base[a].balance, seq |-> r.base[a].seq,
                     earned |-> r.base[a].earned]
        /\ r.base[a].balance \in Int /\ r.base[a].seq \in Nat
        /\ r.base[a].earned \in Nat
    BY DEF Books, BaseRow
  <2>4. Counted(r) = {} BY <1>3 DEF Counted
  <2>5. Incoming(r, a) = 0 /\ Outgoing(r, a) = 0
    <3>1. {t \in Counted(r) : t.to = a} = {} /\ {t \in Counted(r) : t.from = a} = {}
      BY <2>4
    <3> QED BY <3>1, AmountsEmpty DEF Incoming, Outgoing
  <2>6. FoldedSeq(r, a) = r.base[a].seq
    <3> DEFINE S == {r.base[a].seq}
    <3>1. FoldedSeq(r, a) = Max(S)
      <4>1. {t.seq : t \in {u \in Counted(r) : u.from = a}} = {} BY <2>4
      <4>2. {r.base[a].seq} \cup {} = {r.base[a].seq} OBVIOUS
      <4> QED BY <4>1, <4>2 DEF FoldedSeq
    <3>2. S \in SUBSET Nat /\ S # {} BY <2>3
    <3>3. IsFiniteSet(S) BY FS_Singleton
    <3>4. Max(S) \in S BY <3>2, <3>3, MaxIs
    <3> QED BY <3>1, <3>4
  <2>7. Balance(r, a) = r.base[a].balance /\ TotalEarned(r, a) = r.base[a].earned
    BY <2>3, <2>5 DEF Balance, TotalEarned
  <2>8. Snapshot(r).accounts[a] = [balance |-> Balance(r, a), seq |-> FoldedSeq(r, a),
                                   earned |-> TotalEarned(r, a)]
    BY DEF Snapshot
  <2> QED BY <2>2, <2>3, <2>6, <2>7, <2>8
<1> QED BY <1>2, <1>3

----------------------------------------------------------------------------
\* The books of every replica, and of every snapshot on offer, are sound; the
\* replicas' verdicts are grounded.

Founded ==
    \A n \in Node :
        /\ Sound(Origins, Authentic, db[n].base)
        /\ Grounded(db[n].base, db[n].flaggedBase)
        /\ \A m \in DOMAIN offers[n] :
              Sound(Origins, Authentic, offers[n][m].accounts)

LEMMA SoundLater ==
    ASSUME NEW O, NEW P, O \subseteq P, NEW A, NEW B, A \subseteq B, NEW b, Sound(O, A, b)
    PROVE  Sound(P, B, b)
BY DEF Sound

\* A source accounts for what it says.
LEMMA SoundAtFirst ==
    ASSUME NEW O, NEW A, NEW origin \in O, origin.accounts \in Books
    PROVE  Sound(O, A, origin.accounts)
<1> DEFINE b == origin.accounts
<1>1. \A a : PaidTo({}, a) = {} /\ PaidBy({}, a) = {}
  BY DEF PaidTo, PaidBy
<1>2. \A a \in Account : /\ b[a].balance \in Int /\ b[a].earned \in Nat
                         /\ b[a].seq \in Nat
  BY DEF Books, BaseRow
<1> HIDE DEF b
<1>3. \A a \in Account : Effect(b, {}, a) = [balance |-> b[a].balance, earned |-> b[a].earned]
  <2> SUFFICES ASSUME NEW a \in Account
               PROVE  Effect(b, {}, a) = [balance |-> b[a].balance, earned |-> b[a].earned]
    OBVIOUS
  <2>1. Amounts(PaidTo({}, a)) = 0 /\ Amounts(PaidBy({}, a)) = 0
    BY <1>1, AmountsEmpty
  <2> QED BY <1>2, <2>1 DEF Effect
<1>4. Explains(b, {}, b)
  <2>1. \A a \in Account : /\ b[a].balance = Effect(b, {}, a).balance
                           /\ b[a].earned = Effect(b, {}, a).earned
                           /\ b[a].seq <= b[a].seq
    BY <1>2, <1>3
  <2> QED BY <2>1, FS_EmptySet DEF Explains
<1>5. Explains(origin.accounts, {}, origin.accounts) BY <1>4 DEF b
<1> QED BY <1>5 DEF Sound

\* Nothing has happened in empty tables.
LEMMA SoundEmpty ==
    ASSUME NEW A
    PROVE  Sound(Origins, A, [a \in Account |-> NoBase])
<1>1. NoBase \in BaseRow BY LedgerConstants DEF NoBase, BaseRow
<1>2. Nothing.accounts = [a \in Account |-> NoBase] /\ Nothing \in Origins
  BY DEF Nothing, Origins
<1>3. Nothing.accounts \in Books BY <1>1, <1>2 DEF Books
<1> QED BY <1>2, <1>3, SoundAtFirst

\* What a sound replica offers is sound.
LEMMA SnapshotSound ==
    ASSUME NEW O, NEW A \in SUBSET Transfer, NEW r, ReplicaShape(r), LiveRows(r),
           TxsOf(r) \subseteq A, Sound(O, A, r.base)
    PROVE  Sound(O, A, Snapshot(r).accounts)
<1>1. r.base \in Books BY DEF Sound
<1>2. PICK origin \in O : /\ origin.accounts \in Books
                          /\ \E F \in SUBSET A : Explains(origin.accounts, F, r.base)
  BY DEF Sound
<1>3. PICK F \in SUBSET A : Explains(origin.accounts, F, r.base) BY <1>2
<1>4. F \in SUBSET Transfer OBVIOUS
<1>5. /\ Explains(origin.accounts, F \cup Counted(r), Snapshot(r).accounts)
      /\ Snapshot(r).accounts \in Books
  BY <1>1, <1>2, <1>3, <1>4, Folding
<1>6. F \cup Counted(r) \in SUBSET A BY CountedRows
<1> QED BY <1>2, <1>5, <1>6 DEF Sound

\* Installing a snapshot writes its accounts and verdicts.
LEMMA InstallBooks ==
    ASSUME NEW r, ReplicaShape(r), NEW snap
    PROVE  /\ Install(r, snap).base = snap.accounts
           /\ Install(r, snap).flaggedBase = snap.flagged
BY DEF Install, ReplicaShape, Replica

LEMMA PruneBooks ==
    ASSUME NEW r, ReplicaShape(r)
    PROVE  /\ Prune(r).base = Snapshot(r).accounts
           /\ Prune(r).flaggedBase = Snapshot(r).flagged
<1>1. ReplicaShape(Deleted(r)) BY DeletedEffect
<1> QED BY <1>1, InstallBooks DEF Prune

LEMMA DeletedBooks ==
    ASSUME NEW r, ReplicaShape(r)
    PROVE  Deleted(r).base = [a \in Account |-> NoBase] /\ Deleted(r).flaggedBase = {}
BY DEF Deleted, ReplicaShape, Replica

LEMMA InitFounded == Init => Founded
<1> SUFFICES ASSUME Init, NEW n \in Node
             PROVE  /\ Sound(Origins, Authentic, db[n].base)
                    /\ Grounded(db[n].base, db[n].flaggedBase)
                    /\ DOMAIN offers[n] = {}
  BY DEF Founded
<1>1. db[n] = EmptyReplica /\ DOMAIN offers[n] = {} BY DEF Init, NoOffer
<1>2. EmptyReplica.base = [a \in Account |-> NoBase] /\ EmptyReplica.flaggedBase = {}
  BY DEF EmptyReplica
<1> QED BY <1>1, <1>2, SoundEmpty DEF Grounded

\* What every step may rely on of a node's ledger.
LEMMA NodeSound ==
    ASSUME IInv, NothingCountedTwice, Founded, NEW n \in Node
    PROVE  /\ ReplicaShape(db[n]) /\ LiveRows(db[n])
           /\ TxsOf(db[n]) \subseteq Authentic /\ Authentic \in SUBSET Transfer
           /\ db[n].base \in Books /\ Snapshot(db[n]).accounts \in Books
           /\ Sound(Origins, Authentic, db[n].base)
           /\ Sound(Origins, Authentic, Snapshot(db[n]).accounts)
           /\ Grounded(db[n].base, db[n].flaggedBase)
           /\ Grounded(Snapshot(db[n]).accounts, Snapshot(db[n]).flagged)
<1>1. /\ ReplicaShape(db[n]) /\ LiveRows(db[n])
      /\ TxsOf(db[n]) \subseteq Authentic /\ Authentic \in SUBSET Transfer
  BY DEF IInv, Shape, RowsGenuine, Authentic, NothingCountedTwice, LiveRows
<1>2. /\ Sound(Origins, Authentic, db[n].base)
      /\ Grounded(db[n].base, db[n].flaggedBase)
  BY DEF Founded
<1>3. db[n].base \in Books BY <1>2 DEF Sound
<1>4. Sound(Origins, Authentic, Snapshot(db[n]).accounts)
  BY <1>1, <1>2, SnapshotSound
<1>5. Snapshot(db[n]).accounts \in Books BY <1>4 DEF Sound
<1>6. Grounded(Snapshot(db[n]).accounts, Snapshot(db[n]).flagged)
  BY <1>1, <1>2, <1>3, SnapshotGrounded
<1> QED BY <1>1, <1>2, <1>3, <1>4, <1>5, <1>6

\* No envelope is taken back, and nothing that was told.
LEMMA AuthenticGrows == [Next]_vars => Authentic \subseteq Authentic' /\ Origins \subseteq Origins'
<1> SUFFICES ASSUME [Next]_vars PROVE wire \subseteq wire' /\ told \subseteq told'
  BY DEF Authentic, Origins
<1> QED BY DEF Next, Sign, Inject, Receive, Pull, PruneLedger, Restart, Wipe, DieInPrune,
                ComeBack, FetchSnapshot, HearTale, Hear, JoinBare, JoinFrom, Tick, vars

\* What a step may do to the ledger of one node.
LEMMA LedgerSteps ==
    ASSUME IInv, [Next]_vars, NEW k \in Node
    PROVE  \/ db'[k] = db[k]
           \/ \E s \in Int : db'[k] = Reserve(db[k], s)
           \/ \E t \in Transfer : db'[k] = AddTx(db[k], t, Clock(k))
           \/ db'[k] = Prune(db[k])
           \/ k \in Volatile /\ db'[k] = EmptyReplica
           \/ k \in CrashInPrune /\ db'[k] = Deleted(db[k])
           \/ \E m \in DOMAIN offers[k] :
                 HasAccounts(offers[k][m]) /\ db'[k] = Adopt(db[k], offers[k][m])
<1> USE DEF IInv
<1>1. db = [n \in Node |-> db[n]] BY DEF Shape
<1>2. ASSUME NEW n \in Node, NEW r, db' = [db EXCEPT ![n] = r]
      PROVE  db'[k] = IF k = n THEN r ELSE db[k]
  BY <1>1, <1>2
<1>3. ASSUME NEW n \in Node, NEW t \in Transfer, Sign(n, t)
      PROVE  db'[k] = db[k] \/ \E s \in Int : db'[k] = Reserve(db[k], s)
  <2>1. t.seq \in Int BY TransferAssumption DEF TransferRecord
  <2>2. db' = [db EXCEPT ![n] = Reserve(db[n], t.seq)] BY <1>3 DEF Sign
  <2> QED BY <1>2, <2>1, <2>2
<1>4. ASSUME NEW t \in Transfer, Inject(t)
      PROVE  db'[k] = db[k]
  BY <1>4 DEF Inject
<1>5. ASSUME NEW n \in Node, NEW t \in wire, Receive(n, t)
      PROVE  db'[k] = db[k] \/ \E u \in Transfer : db'[k] = AddTx(db[k], u, Clock(k))
  <2>1. t \in Transfer BY DEF Shape
  <2>2. db' = [db EXCEPT ![n] = AddTx(db[n], t, Clock(n))] BY <1>5 DEF Receive
  <2> QED BY <1>2, <2>1, <2>2
<1>6. ASSUME NEW n \in Node, NEW m \in Node, Pull(n, m)
      PROVE  db'[k] = db[k] \/ \E u \in Transfer : db'[k] = AddTx(db[k], u, Clock(k))
  <2> DEFINE t == RowAt(db[m], FirstAfter(db[m], cursor[n][m]))
  <2>1. db' = [db EXCEPT ![n] = AddTx(db[n], t, Clock(n))] BY <1>6 DEF Pull
  <2>2. t \in TxsOf(db[m]) BY <1>6 DEF Pull, HasRow, RowAt, TxsOf
  <2> HIDE DEF t
  <2>3. t \in Transfer BY <2>2 DEF RowsGenuine, Authentic, Shape
  <2> QED BY <1>2, <2>1, <2>3
<1>7. ASSUME NEW n \in Node, PruneLedger(n)
      PROVE  db'[k] = db[k] \/ db'[k] = Prune(db[k])
  <2>1. db' = [db EXCEPT ![n] = Prune(db[n])] BY <1>7 DEF PruneLedger
  <2> QED BY <1>2, <2>1
<1>8. ASSUME NEW n \in Node, Restart(n)
      PROVE  db'[k] = db[k]
  <2>1. db' = [db EXCEPT ![n] = db[n]] BY <1>8 DEF Restart, ComeBack
  <2> QED BY <1>2, <2>1
<1>9. ASSUME NEW n \in Node, Wipe(n)
      PROVE  db'[k] = db[k] \/ (k \in Volatile /\ db'[k] = EmptyReplica)
  <2>1. n \in Volatile /\ db' = [db EXCEPT ![n] = EmptyReplica] BY <1>9 DEF Wipe, ComeBack
  <2> QED BY <1>2, <2>1
<1>10. ASSUME NEW n \in Node, DieInPrune(n)
       PROVE  db'[k] = db[k] \/ (k \in CrashInPrune /\ db'[k] = Deleted(db[k]))
  <2>1. n \in CrashInPrune /\ db' = [db EXCEPT ![n] = Deleted(db[n])]
    BY <1>10 DEF DieInPrune, ComeBack
  <2> QED BY <1>2, <2>1
<1>11. ASSUME NEW n \in Node, Hears(n)
       PROVE  db'[k] = db[k]
  BY <1>11, HearsOnly
<1>12. ASSUME NEW n \in Node, JoinBare(n)
       PROVE  db'[k] = db[k]
  BY <1>12 DEF JoinBare
<1>13. ASSUME NEW n \in Node, NEW snap \in Favoured(n), JoinFrom(n, snap)
       PROVE  \/ db'[k] = db[k]
              \/ \E m \in DOMAIN offers[k] :
                    HasAccounts(offers[k][m]) /\ db'[k] = Adopt(db[k], offers[k][m])
  <2>1. db' = [db EXCEPT ![n] = Adopt(db[n], snap)] /\ HasAccounts(snap)
    BY <1>13 DEF JoinFrom
  <2>2. \E m \in DOMAIN offers[n] : snap = offers[n][m] BY DEF Favoured
  <2> QED BY <1>2, <2>1, <2>2
<1>14. CASE Tick \/ UNCHANGED vars
  BY <1>14 DEF Tick, vars
<1> HIDE DEF IInv
<1> QED
  <2>1. CASE \E n \in Node, t \in Transfer : Sign(n, t) BY <1>3, <2>1
  <2>2. CASE \E n \in Node, t \in wire : Receive(n, t) BY <1>5, <2>2
  <2>3. CASE \E n \in Node, m \in Node : Pull(n, m) BY <1>6, <2>3
  <2>4. CASE \E n \in Node : PruneLedger(n) \/ Restart(n) \/ Wipe(n) \/ DieInPrune(n)
    BY <1>7, <1>8, <1>9, <1>10, <2>4
  <2>5. CASE \E n \in Node : \E snap \in Favoured(n) : JoinFrom(n, snap) BY <1>13, <2>5
  <2>6. CASE \/ \E t \in Transfer : Inject(t)
             \/ \E n \in Node : Hears(n)
             \/ \E n \in Node : JoinBare(n)
    BY <1>4, <1>11, <1>12, <2>6
  <2> QED BY <1>14, <2>1, <2>2, <2>3, <2>4, <2>5, <2>6 DEF Next, Hears

\* What a step may do to the snapshots a node was offered.
LEMMA OfferSteps ==
    ASSUME IInv, [Next]_vars, NEW k \in Node, NEW m \in DOMAIN offers'[k]
    PROVE  \/ m \in DOMAIN offers[k] /\ offers'[k][m] = offers[k][m]
           \/ m \in Node /\ offers'[k][m] = Snapshot(db[m])
           \/ offers'[k][m] \in Tale \cap told'
<1>1. offers = [n \in Node |-> offers[n]] BY DEF IInv, Shape
<1>2. CASE offers'[k] = offers[k] BY <1>2
<1>3. CASE DOMAIN offers'[k] = {} BY <1>3
<1>4. ASSUME NEW n \in Node, NEW j, NEW snap, Hear(n, j, snap)
      PROVE  \/ m \in DOMAIN offers[k] /\ offers'[k][m] = offers[k][m]
             \/ m = j /\ offers'[k][m] = snap
  <2>1. CASE n # k
    <3>1. offers'[k] = offers[k] BY <1>1, <1>4, <2>1 DEF Hear
    <3> QED BY <3>1
  <2>2. CASE n = k
    <3> DEFINE offer == [i \in DOMAIN offers[k] \cup {j} |->
                            IF i = j THEN snap ELSE offers[k][i]]
    <3>1. offers' = [offers EXCEPT ![k] = offer] BY <1>4, <2>2 DEF Hear
    <3>2. offers'[k] = offer BY <1>1, <3>1
    <3> QED BY <3>2
  <2> QED BY <2>1, <2>2
<1>5. ASSUME NEW n \in Node, Hears(n)
      PROVE  \/ m \in DOMAIN offers[k] /\ offers'[k][m] = offers[k][m]
             \/ m \in Node /\ offers'[k][m] = Snapshot(db[m])
             \/ offers'[k][m] \in Tale \cap told'
  <2>1. CASE \E j \in Node : FetchSnapshot(n, j)
    BY <1>4, <2>1 DEF FetchSnapshot
  <2>2. CASE \E x \in Impostor, tale \in Tale : HearTale(n, x, tale)
    BY <1>4, <2>2 DEF HearTale
  <2> QED BY <1>5, <2>1, <2>2 DEF Hears
<1>6. ASSUME NEW n \in Node, offers' = [offers EXCEPT ![n] = NoOffer]
      PROVE  offers'[k] = offers[k] \/ DOMAIN offers'[k] = {}
  BY <1>1, <1>6 DEF NoOffer
<1>7. CASE offers' = offers BY <1>7
<1>8. ASSUME NEW n \in Node, Restart(n) \/ Wipe(n) \/ DieInPrune(n)
      PROVE  offers' = [offers EXCEPT ![n] = NoOffer]
  BY <1>8 DEF Restart, Wipe, DieInPrune, ComeBack
<1>9. ASSUME NEW n \in Node, JoinBare(n) \/ \E snap \in Favoured(n) : JoinFrom(n, snap)
      PROVE  offers' = [offers EXCEPT ![n] = NoOffer]
  BY <1>9 DEF JoinBare, JoinFrom
<1>10. \/ offers' = offers
       \/ \E n \in Node : Hears(n)
       \/ \E n \in Node : \/ Restart(n) \/ Wipe(n) \/ DieInPrune(n) \/ JoinBare(n)
                          \/ \E snap \in Favoured(n) : JoinFrom(n, snap)
  BY DEF Next, Sign, Inject, Receive, Pull, PruneLedger, Tick, vars, Hears
<1> QED BY <1>2, <1>3, <1>5, <1>6, <1>7, <1>8, <1>9, <1>10

\* What is adopted when there is nothing to hold on to grounds its verdicts.
LEMMA AdoptGrounded ==
    ASSUME NEW r, ReplicaShape(r), Grounded(r.base, r.flaggedBase),
           NEW snap, HasAccounts(snap)
    PROVE  Grounded(Adopt(r, snap).base, Adopt(r, snap).flaggedBase)
BY InstallBooks DEF Adopt, Grounded, HasAccounts

LEMMA StepFounded ==
    ASSUME IInv, NothingCountedTwice, Founded, [Next]_vars
    PROVE  Founded'
<1>1. Authentic \subseteq Authentic' /\ Origins \subseteq Origins' BY AuthenticGrows
<1>2. ASSUME NEW k \in Node
      PROVE  /\ Sound(Origins, Authentic, db'[k].base)
             /\ Grounded(db'[k].base, db'[k].flaggedBase)
  <2>1. /\ ReplicaShape(db[k])
        /\ Sound(Origins, Authentic, db[k].base)
        /\ Sound(Origins, Authentic, Snapshot(db[k]).accounts)
        /\ Grounded(db[k].base, db[k].flaggedBase)
        /\ Grounded(Snapshot(db[k]).accounts, Snapshot(db[k]).flagged)
    BY NodeSound
  <2>2. CASE db'[k] = db[k] BY <2>1, <2>2
  <2>3. CASE \E s \in Int : db'[k] = Reserve(db[k], s) BY <2>1, <2>3, ReserveEffect
  <2>4. CASE \E t \in Transfer : db'[k] = AddTx(db[k], t, Clock(k))
    BY <2>1, <2>4, AddTxEffect
  <2>5. CASE db'[k] = Prune(db[k]) BY <2>1, <2>5, PruneBooks
  <2>6. CASE db'[k] = EmptyReplica BY <2>6, SoundEmpty DEF EmptyReplica, Grounded
  <2>7. CASE db'[k] = Deleted(db[k]) BY <2>1, <2>7, SoundEmpty, DeletedBooks DEF Grounded
  <2>8. CASE \E m \in DOMAIN offers[k] :
                HasAccounts(offers[k][m]) /\ db'[k] = Adopt(db[k], offers[k][m])
    <3>1. PICK m \in DOMAIN offers[k] :
             HasAccounts(offers[k][m]) /\ db'[k] = Adopt(db[k], offers[k][m])
      BY <2>8
    <3>2. Sound(Origins, Authentic, offers[k][m].accounts) BY DEF Founded
    <3>3. Grounded(db'[k].base, db'[k].flaggedBase) BY <2>1, <3>1, AdoptGrounded
    <3>4. Sound(Origins, Authentic, db'[k].base)
      BY <2>1, <3>1, <3>2, InstallBooks DEF Adopt
    <3> QED BY <3>3, <3>4
  <2> QED BY <2>2, <2>3, <2>4, <2>5, <2>6, <2>7, <2>8, LedgerSteps
<1>3. ASSUME NEW k \in Node, NEW m \in DOMAIN offers'[k]
      PROVE  Sound(Origins', Authentic', offers'[k][m].accounts)
  <2>1. CASE m \in DOMAIN offers[k] /\ offers'[k][m] = offers[k][m]
    BY <1>1, <2>1, SoundLater DEF Founded
  <2>2. CASE m \in Node /\ offers'[k][m] = Snapshot(db[m])
    BY <1>1, <2>2, NodeSound, SoundLater
  <2>3. CASE offers'[k][m] \in Tale \cap told'
    <3>1. offers'[k][m] \in Origins' BY <2>3 DEF Origins
    <3>2. offers'[k][m].accounts \in Books BY <2>3, TaleAssumption DEF Books
    <3> QED BY <3>1, <3>2, SoundAtFirst
  <2> QED BY <2>1, <2>2, <2>3, OfferSteps
<1>4. \A k \in Node : Sound(Origins', Authentic', db'[k].base)
  BY <1>1, <1>2, SoundLater
<1> QED BY <1>2, <1>3, <1>4 DEF Founded

\* Books that are written down come from transfers that were signed, whatever
\* is pruned, adopted, lost or received in between.
LEMMA BooksAreFounded == Spec => []Founded
<1>1. Init => Founded BY InitFounded
<1>2. IInv /\ NothingCountedTwice /\ Founded /\ [Next]_vars => Founded' BY StepFounded
<1> QED BY <1>1, <1>2, Invariance, NothingIsCountedTwice, PTL DEF Spec

\* Every table of every replica keeps its type; earnings and seqs never fall
\* below zero.
THEOREM TypesHold == Spec => []TypeOK
<1>1. IInv /\ Founded => TypeOK
  BY DEF IInv, Founded, Sound, TypeOK, BooksTyped, Books
<1> QED BY <1>1, Invariance, BooksAreFounded, PTL

\* Every replica's books go back to nothing, or to one tale that was told, and
\* are the effect on it of authentic transfers, at most one per slot, each
\* applied once: replication, pruning, adoption and crashes neither make nor
\* lose credits (add_tx, prune, snapshot, adopt_snapshot).
THEOREM BooksAreExplained == Spec => []BooksExplained
<1>1. IInv /\ NothingCountedTwice /\ Founded => BooksExplained
  <2> SUFFICES ASSUME IInv, NothingCountedTwice, Founded, NEW n \in Node
               PROVE  \E origin \in Origins, S \in SUBSET Authentic :
                        /\ \A t, u \in S : SameSlot(t, u) => t = u
                        /\ \A t \in S : t.seq > origin.accounts[t.from].seq
                        /\ \A a \in Account :
                             /\ Balance(db[n], a) = origin.accounts[a].balance
                                                      + Amounts({t \in S : t.to = a})
                                                      - Amounts({t \in S : t.from = a})
                             /\ TotalEarned(db[n], a) = origin.accounts[a].earned
                                                      + Amounts({t \in S : t.to = a})
    BY DEF BooksExplained
  <2>1. PICK origin \in Origins :
           /\ origin.accounts \in Books
           /\ \E F \in SUBSET Authentic :
                 Explains(origin.accounts, F, Snapshot(db[n]).accounts)
    BY NodeSound DEF Sound
  <2> DEFINE o == origin.accounts
  <2>2. PICK F \in SUBSET Authentic : Explains(o, F, Snapshot(db[n]).accounts) BY <2>1
  <2>3. \A t, u \in F : SameSlot(t, u) => t = u BY <2>2 DEF Explains
  <2>4. \A t \in F : t.seq > o[t.from].seq
    <3> SUFFICES ASSUME NEW t \in F PROVE t.seq > o[t.from].seq OBVIOUS
    <3>1. o[t.from].seq < t.seq BY <2>2 DEF Explains
    <3>2. t \in Transfer BY DEF IInv, Shape, Authentic
    <3>3. t.seq \in Int /\ t.from \in Account BY <3>2, TransferAssumption DEF TransferRecord
    <3>4. o[t.from].seq \in Int BY <2>1, <3>3 DEF Books, BaseRow
    <3> QED BY <3>1, <3>3, <3>4
  <2>5. ASSUME NEW a \in Account
        PROVE  /\ Balance(db[n], a) = o[a].balance + Amounts({t \in F : t.to = a})
                                         - Amounts({t \in F : t.from = a})
               /\ TotalEarned(db[n], a) = o[a].earned + Amounts({t \in F : t.to = a})
    <3>1. /\ Snapshot(db[n]).accounts[a].balance = Balance(db[n], a)
          /\ Snapshot(db[n]).accounts[a].earned = TotalEarned(db[n], a)
      BY DEF Snapshot
    <3>2. /\ Snapshot(db[n]).accounts[a].balance = Effect(o, F, a).balance
          /\ Snapshot(db[n]).accounts[a].earned = Effect(o, F, a).earned
      BY <2>2 DEF Explains
    <3>3. /\ Effect(o, F, a).balance = o[a].balance + Amounts({t \in F : t.to = a})
                                         - Amounts({t \in F : t.from = a})
          /\ Effect(o, F, a).earned = o[a].earned + Amounts({t \in F : t.to = a})
      BY DEF Effect, PaidTo, PaidBy
    <3> QED BY <3>1, <3>2, <3>3
  <2> QED BY <2>3, <2>4, <2>5
<1> QED BY <1>1, Invariance, NothingIsCountedTwice, BooksAreFounded, PTL

----------------------------------------------------------------------------
\* What a node that keeps its file keeps.

\* Whoever keeps its file does not die between the two commits of a prune.
WholePrunes == CrashInPrune \subseteq Volatile

\* An empty ledger holds nothing against anyone.
LEMMA EmptyHoldsNothing ==
    ASSUME NEW r, ReplicaShape(r), Grounded(r.base, r.flaggedBase), IsEmpty(r)
    PROVE  Proven(r) = {}
<1>1. r.rows \in Seq(Transfer) /\ Len(r.rows) = 0 /\ r.flaggedBase \subseteq Account
  BY DEF ReplicaShape, Replica, IsEmpty, TxCount
<1>2. TxsOf(r) = {} BY <1>1 DEF TxsOf
<1>3. \A a \in Account : r.base[a] = NoBase BY DEF IsEmpty, HasBase
<1>4. r.flaggedBase = {} BY <1>3 DEF Grounded
<1> QED BY <1>2, <1>4 DEF Proven, DoubleSpenders

\* Proof against an account is never lost by a node that keeps its file:
\* neither by a prune nor by a restart nor by what arrives later (prune,
\* add_tx, adopt_snapshot).
THEOREM FlagsArePermanent == WholePrunes => (Spec => FlagsPermanent)
<1> SUFFICES ASSUME WholePrunes PROVE Spec => FlagsPermanent
  OBVIOUS
<1>1. IInv /\ NothingCountedTwice /\ Founded /\ [Next]_vars =>
        [\A n \in Node \ Volatile : Proven(db[n]) \subseteq Proven(db'[n])]_vars
  <2> SUFFICES ASSUME IInv, NothingCountedTwice, Founded, [Next]_vars,
                      NEW n \in Node \ Volatile
               PROVE  Proven(db[n]) \subseteq Proven(db'[n])
    OBVIOUS
  <2>1. ReplicaShape(db[n]) /\ Grounded(db[n].base, db[n].flaggedBase)
    BY NodeSound
  <2>2. n \notin Volatile /\ n \notin CrashInPrune BY DEF WholePrunes
  <2>3. CASE db'[n] = db[n] BY <2>3
  <2>4. CASE \E s \in Int : db'[n] = Reserve(db[n], s)
    BY <2>1, <2>4, ReserveEffect DEF Proven, DoubleSpenders, TxsOf
  <2>5. CASE \E t \in Transfer : db'[n] = AddTx(db[n], t, Clock(n))
    BY <2>1, <2>5, AddTxEffect DEF Proven, DoubleSpenders
  <2>6. CASE db'[n] = Prune(db[n]) BY <2>1, <2>6, PruneEffect DEF Proven
  <2>7. CASE \E m \in DOMAIN offers[n] : db'[n] = Adopt(db[n], offers[n][m])
    BY <2>1, <2>7, EmptyHoldsNothing DEF Adopt
  <2> QED BY <2>2, <2>3, <2>4, <2>5, <2>6, <2>7, LedgerSteps
<1> QED BY <1>1, Invariance, NothingIsCountedTwice, BooksAreFounded, PTL
        DEF Spec, FlagsPermanent

\* A transfer that is stored makes the table of transfers longer.
LEMMA AddTxLonger ==
    ASSUME NEW r, ReplicaShape(r), NEW t \in Transfer, NEW clock,
           Len(AddTx(r, t, clock).rows) <= Len(r.rows)
    PROVE  AddTx(r, t, clock) = r
<1> SUFFICES ASSUME AddStatus(r, t, clock) \in Stored PROVE FALSE
  BY DEF AddTx
<1>1. r.rows \in Seq(Transfer) BY DEF ReplicaShape, Replica
<1>2. AddTx(r, t, clock).rows = Append(r.rows, t)
  BY DEF AddTx, ReplicaShape, Replica
<1>3. Len(Append(r.rows, t)) = Len(r.rows) + 1 /\ Len(r.rows) \in Nat BY <1>1
<1> QED BY <1>2, <1>3

SameAccount(r, q, a) ==
    /\ Balance(q, a) = Balance(r, a)
    /\ TotalEarned(q, a) = TotalEarned(r, a)
    /\ NextSeq(q, a) = NextSeq(r, a)
    /\ IsFlagged(q, a) <=> IsFlagged(r, a)

\* What a prune leaves of an account is what it was.
LEMMA PruneKeepsBooks ==
    ASSUME NEW r, ReplicaShape(r), LiveRows(r), r.base \in Books,
           Snapshot(r).accounts \in Books, NEW a \in Account
    PROVE  SameAccount(r, Prune(r), a)
<1> DEFINE q == Prune(r)
<1>1. ReplicaShape(q) /\ TxsOf(q) = {} /\ q.flaggedBase = Proven(r) BY PruneEffect
<1>2. q.base[a].balance = Balance(r, a) /\ q.base[a].seq = FoldedSeq(r, a)
      /\ q.base[a].earned = TotalEarned(r, a)
  <2>1. q.base = Snapshot(r).accounts BY PruneBooks
  <2>2. Snapshot(r).accounts[a] = [balance |-> Balance(r, a), seq |-> FoldedSeq(r, a),
                                   earned |-> TotalEarned(r, a)]
    BY DEF Snapshot
  <2> QED BY <2>1, <2>2
<1>3. /\ Balance(r, a) \in Int /\ TotalEarned(r, a) \in Nat /\ FoldedSeq(r, a) \in Nat
  <2>1. Snapshot(r).accounts[a] \in BaseRow BY DEF Books
  <2>2. Snapshot(r).accounts[a] = [balance |-> Balance(r, a), seq |-> FoldedSeq(r, a),
                                   earned |-> TotalEarned(r, a)]
    BY DEF Snapshot
  <2> QED BY <2>1, <2>2 DEF BaseRow
<1> HIDE DEF q
<1>4. Counted(q) = {} /\ Incoming(q, a) = 0 /\ Outgoing(q, a) = 0
  <2>1. Counted(q) = {} BY <1>1 DEF Counted
  <2>2. {t \in Counted(q) : t.to = a} = {} /\ {t \in Counted(q) : t.from = a} = {}
    BY <2>1
  <2> QED BY <2>1, <2>2, AmountsEmpty DEF Incoming, Outgoing
<1>5. Balance(q, a) = Balance(r, a) /\ TotalEarned(q, a) = TotalEarned(r, a)
  BY <1>2, <1>3, <1>4 DEF Balance, TotalEarned
<1>6. NextSeq(q, a) = NextSeq(r, a)
  <2>1. r.base[a].seq \in Nat BY DEF Books, BaseRow
  <2>2. NextSeq(r, a) = FoldedSeq(r, a) + 1 BY <2>1, FoldedIs
  <2>3. SeqsOf(q, a) = {FoldedSeq(r, a)} BY <1>1, <1>2 DEF SeqsOf
  <2>4. Max({FoldedSeq(r, a)}) = FoldedSeq(r, a)
    <3> DEFINE S == {FoldedSeq(r, a)}
    <3>1. S \in SUBSET Nat /\ S # {} BY <1>3
    <3>2. IsFiniteSet(S) BY FS_Singleton
    <3>3. Max(S) \in S BY <3>1, <3>2, MaxIs
    <3> QED BY <3>3
  <2> QED BY <2>2, <2>3, <2>4 DEF NextSeq
<1>7. Proven(q) = Proven(r) BY <1>1 DEF Proven, DoubleSpenders
<1>8. IsFlagged(q, a) <=> IsFlagged(r, a) BY <1>5, <1>7 DEF IsFlagged
<1>9. SameAccount(r, q, a) BY <1>5, <1>6, <1>8 DEF SameAccount
<1> QED BY <1>9 DEF q

\* A step that stores no transfer leaves the books of a non-empty replica as
\* they are (prune: "Balances, seqs, earnings and flags survive").
THEOREM BooksOutlivePrunes == WholePrunes => (Spec => BooksSurvive)
<1> SUFFICES ASSUME WholePrunes PROVE Spec => BooksSurvive
  OBVIOUS
<1>1. IInv /\ NothingCountedTwice /\ Founded /\ [Next]_vars =>
        [\A n \in Node \ Volatile :
            ~IsEmpty(db[n]) /\ Len(db'[n].rows) <= Len(db[n].rows) =>
               \A a \in Account :
                  /\ Balance(db'[n], a) = Balance(db[n], a)
                  /\ TotalEarned(db'[n], a) = TotalEarned(db[n], a)
                  /\ NextSeq(db'[n], a) = NextSeq(db[n], a)
                  /\ IsFlagged(db'[n], a) <=> IsFlagged(db[n], a)]_vars
  <2> SUFFICES ASSUME IInv, NothingCountedTwice, Founded, [Next]_vars,
                      NEW n \in Node \ Volatile, ~IsEmpty(db[n]),
                      Len(db'[n].rows) <= Len(db[n].rows), NEW a \in Account
               PROVE  SameAccount(db[n], db'[n], a)
    BY DEF SameAccount
  <2>1. /\ ReplicaShape(db[n]) /\ LiveRows(db[n])
        /\ db[n].base \in Books /\ Snapshot(db[n]).accounts \in Books
    BY NodeSound
  <2>2. n \notin Volatile /\ n \notin CrashInPrune BY DEF WholePrunes
  <2>3. CASE db'[n] = db[n] BY <2>3 DEF SameAccount
  <2>4. CASE \E s \in Int : db'[n] = Reserve(db[n], s)
    <3>1. /\ db'[n].rows = db[n].rows /\ db'[n].base = db[n].base
          /\ db'[n].flaggedBase = db[n].flaggedBase
      <4>1. PICK s \in Int : db'[n] = Reserve(db[n], s) BY <2>4
      <4> DEFINE q == Reserve(db[n], s)
      <4>2. q.rows = db[n].rows /\ q.base = db[n].base /\ q.flaggedBase = db[n].flaggedBase
        BY <2>1, ReserveEffect
      <4>3. db'[n] = q BY <4>1
      <4> HIDE DEF q
      <4> QED BY <4>2, <4>3
    <3>2. TxsOf(db'[n]) = TxsOf(db[n]) BY <3>1 DEF TxsOf
    <3>3. Counted(db'[n]) = Counted(db[n]) BY <3>2 DEF Counted
    <3>4. Proven(db'[n]) = Proven(db[n]) BY <3>1, <3>2 DEF Proven, DoubleSpenders
    <3>5. Balance(db'[n], a) = Balance(db[n], a) /\ TotalEarned(db'[n], a) = TotalEarned(db[n], a)
      BY <3>1, <3>3 DEF Balance, TotalEarned, Incoming, Outgoing
    <3>6. NextSeq(db'[n], a) = NextSeq(db[n], a)
      BY <3>1, <3>2 DEF NextSeq, SeqsOf
    <3> QED BY <3>4, <3>5, <3>6 DEF SameAccount, IsFlagged
  <2>5. CASE \E t \in Transfer : db'[n] = AddTx(db[n], t, Clock(n))
    BY <2>1, <2>3, <2>5, AddTxLonger
  <2>6. CASE db'[n] = Prune(db[n]) BY <2>1, <2>6, PruneKeepsBooks
  <2>7. CASE \E m \in DOMAIN offers[n] : db'[n] = Adopt(db[n], offers[n][m])
    BY <2>3, <2>7 DEF Adopt
  <2> QED BY <2>2, <2>3, <2>4, <2>5, <2>6, <2>7, LedgerSteps
<1> QED BY <1>1, Invariance, NothingIsCountedTwice, BooksAreFounded, PTL
        DEF Spec, BooksSurvive

=============================================================================
