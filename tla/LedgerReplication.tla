------------------------- MODULE LedgerReplication -------------------------
(***************************************************************************)
(* The swarm's credit ledger: a replica per node, kept in step by pushing  *)
(* (ledger.push, tx.witness, task.execute) and by anti-entropy pulls, with *)
(* checkpoints, crashes and restarts (src/kemi/node.py over                *)
(* src/kemi/gossip_ledger.py).                                             *)
(*                                                                         *)
(* The network is the set wire of the transfer envelopes that exist: any   *)
(* of them may be offered to any node at any time, again, or never, which  *)
(* is loss, duplication, delay and reordering of every message at once.    *)
(*                                                                         *)
(* A source of snapshots need not run this code.  What an impostor says is *)
(* believed like the rest, for nothing in a snapshot is signed: it is a    *)
(* member of Tale, and told remembers which tales have been told.          *)
(***************************************************************************)
EXTENDS GossipLedger

CONSTANTS
    Node,         \* accounts that run a node
    Honest,       \* nodes that run this code over a ledger file they keep
    Volatile,     \* nodes that may come back with an empty ledger file
    Joining,      \* nodes that start while the others are already running
    Impostor,     \* sources of snapshots under no discipline
    Tale,         \* the snapshots they may make up
    PruneAbove,   \* prune_above; 0 is "never prune"
    CrashInPrune, \* nodes whose process may die between the two commits of prune
    Ahead,        \* Ahead[n]: how far n's clock runs before the slowest one
    MaxRestarts,  \* bound on crashes
    MaxTime       \* bound on the clock

\* More than MaxSources bootstrap peers are never asked.
MaxSources == 3

\* What one row of table base says of an account.
BaseRow == [balance : Int, seq : Nat, earned : Nat]

\* A tale is any snapshot of that shape.  A row with the values of NoBase
\* counts as no row; a snapshot that breaks off at a malformed row leaves the
\* rows before it, which is a shorter tale.  (The code would also take
\* negative seqs and earnings.)
ASSUME TaleAssumption ==
    /\ Impostor \cap Node = {}
    /\ Tale \subseteq [accounts : [Account -> BaseRow], flagged : SUBSET Account]

ASSUME ReplicationAssumption ==
    /\ Node \subseteq Account
    /\ Honest \subseteq Node /\ Volatile \subseteq Node /\ Joining \subseteq Node
    /\ Honest \cap Volatile = {}
    /\ PruneAbove \in Nat /\ MaxRestarts \in Nat /\ MaxTime \in Nat
    /\ CrashInPrune \subseteq Node
    /\ Ahead \in [Node -> Nat]

VARIABLES
    wire,       \* the transfer envelopes that exist
    db,         \* db[n]: the ledger file of node n
    cursor,     \* cursor[n][m]: _gossip_cursors of n for m's address
    booting,    \* nodes inside start(), before sync_ledger
    offers,     \* offers[n][m]: the snapshot m answered to booting n
    told,       \* history: the tales that were told to booting nodes
    condemned,  \* condemned[n]: accounts n's reputation store has condemned
    now,        \* the slowest node's wall clock
    restarts    \* crashes so far

vars == <<wire, db, cursor, booting, offers, told, condemned, now, restarts>>

NoOffer == [m \in {} |-> 0]

ZeroCursors == [m \in Node |-> 0]

Clock(n) == now + Ahead[n]

Init ==
    /\ wire = {}
    /\ db = [n \in Node |-> EmptyReplica]
    /\ cursor = [n \in Node |-> ZeroCursors]
    /\ booting = Joining
    /\ offers = [n \in Node |-> NoOffer]
    /\ told = {}
    /\ condemned = [n \in Node |-> {}]
    /\ now = 0
    /\ restarts = 0

----------------------------------------------------------------------------
\* Envelopes come to exist.

\* make_tx by a node that pays: it reads its balance, claims a seq and signs.
\* The transfer is not applied to its own replica here.
Sign(n, t) ==
    /\ n \in Honest \ booting
    /\ t.from = n /\ t.authentic /\ t.ts = Clock(n)
    /\ t.to # n /\ t.amount > 0
    /\ Claims(db[n], n, t.seq)
    /\ Balance(db[n], n) >= t.amount
    /\ db' = [db EXCEPT ![n] = Reserve(@, t.seq)]
    /\ wire' = wire \cup {t}
    /\ UNCHANGED <<cursor, booting, offers, told, condemned, now, restarts>>

\* A transfer the code did not make: by an account under no discipline, or
\* one whose signature does not hold.
Inject(t) ==
    /\ t.from \notin Honest \/ ~t.authentic
    /\ t \notin wire
    /\ wire' = wire \cup {t}
    /\ UNCHANGED <<db, cursor, booting, offers, told, condemned, now, restarts>>

----------------------------------------------------------------------------
\* Envelopes travel.

\* _on_ledger_push, _on_tx_witness and the payer's or provider's own add_tx.
\* A conflict is recorded in the reputation store, for good.
Receive(n, t) ==
    /\ t \in wire
    /\ AddStatus(db[n], t, Clock(n)) \in Stored
    /\ db' = [db EXCEPT ![n] = AddTx(@, t, Clock(n))]
    /\ condemned' = IF AddStatus(db[n], t, Clock(n)) = "conflict"
                    THEN [condemned EXCEPT ![n] = @ \cup {t.from}]
                    ELSE condemned
    /\ UNCHANGED <<wire, cursor, booting, offers, told, now, restarts>>

\* One envelope of _pull_from: the next row of m after n's cursor is added
\* and the cursor moves past it, whatever add_tx said.  (The code moves it
\* after at most 500 envelopes; a crash before that forgets all cursors, so
\* the finer step shows the same replicas.)  Pulls record no conflicts.
Pull(n, m) ==
    /\ n # m /\ n \notin booting
    /\ LET rowid == FirstAfter(db[m], cursor[n][m]) IN
         /\ HasRow(db[m], rowid)
         /\ db' = [db EXCEPT ![n] = AddTx(@, RowAt(db[m], rowid), Clock(n))]
         /\ cursor' = [cursor EXCEPT ![n][m] = rowid]
    /\ UNCHANGED <<wire, booting, offers, told, condemned, now, restarts>>

----------------------------------------------------------------------------
\* Checkpoints, crashes and restarts.

MustPrune(n) == PruneAbove > 0 /\ TxCount(db[n]) > PruneAbove

\* The prune in _gossip_loop; the cursors are forgotten with it.
PruneLedger(n) ==
    /\ n \notin booting
    /\ MustPrune(n)
    /\ db' = [db EXCEPT ![n] = Prune(@)]
    /\ cursor' = [cursor EXCEPT ![n] = ZeroCursors]
    /\ UNCHANGED <<wire, booting, offers, told, condemned, now, restarts>>

\* The process of n comes back over the file r: nothing in memory is left,
\* and an empty ledger is bootstrapped from snapshots before it syncs.
ComeBack(n, r) ==
    /\ restarts < MaxRestarts
    /\ restarts' = restarts + 1
    /\ db' = [db EXCEPT ![n] = r]
    /\ cursor' = [cursor EXCEPT ![n] = ZeroCursors]
    /\ booting' = IF IsEmpty(r) THEN booting \cup {n} ELSE booting \ {n}
    /\ offers' = [offers EXCEPT ![n] = NoOffer]
    /\ UNCHANGED <<wire, told, condemned, now>>

Restart(n) == ComeBack(n, db[n])

\* The ledger file (or the :memory: ledger) is gone; the address is not.
Wipe(n) == n \in Volatile /\ ComeBack(n, EmptyReplica)

\* The process dies between the two commits of prune.
DieInPrune(n) ==
    /\ n \in CrashInPrune
    /\ n \notin booting
    /\ MustPrune(n)
    /\ ComeBack(n, Deleted(db[n]))

\* _bootstrap_from_snapshot is answered snap by the peer m; one that cannot be
\* reached is simply never asked here.
Hear(n, m, snap) ==
    /\ n \in booting
    /\ n # m /\ m \notin DOMAIN offers[n]
    /\ Cardinality(DOMAIN offers[n]) < MaxSources
    /\ offers' = [offers EXCEPT ![n] =
          [k \in DOMAIN @ \cup {m} |-> IF k = m THEN snap ELSE @[k]]]
    /\ UNCHANGED <<wire, db, cursor, booting, condemned, now, restarts>>

FetchSnapshot(n, m) == Hear(n, m, Snapshot(db[m])) /\ UNCHANGED told

\* The content hash of a tale is right as well: any snapshot has one.
HearTale(n, x, tale) == Hear(n, x, tale) /\ told' = told \cup {tale}

Agreement(n, snap) ==
    Cardinality({m \in DOMAIN offers[n] : offers[n][m] = snap})

\* The snapshots that max() may pick: the most agreed on, ties in any order.
Favoured(n) ==
    {snap \in {offers[n][m] : m \in DOMAIN offers[n]} :
        \A m \in DOMAIN offers[n] : Agreement(n, offers[n][m]) <= Agreement(n, snap)}

\* start() goes on without a snapshot: nobody answered, or the favoured
\* snapshot is of an empty fleet.
JoinBare(n) ==
    /\ n \in booting
    /\ Favoured(n) = {} \/ \E snap \in Favoured(n) : ~HasAccounts(snap)
    /\ booting' = booting \ {n}
    /\ offers' = [offers EXCEPT ![n] = NoOffer]
    /\ UNCHANGED <<wire, db, cursor, told, condemned, now, restarts>>

\* start() adopts the favoured snapshot; Adopt is without effect when a push
\* has filled the ledger in the meantime.
JoinFrom(n, snap) ==
    /\ n \in booting
    /\ snap \in Favoured(n) /\ HasAccounts(snap)
    /\ db' = [db EXCEPT ![n] = Adopt(@, snap)]
    /\ booting' = booting \ {n}
    /\ offers' = [offers EXCEPT ![n] = NoOffer]
    /\ UNCHANGED <<wire, cursor, told, condemned, now, restarts>>

Tick ==
    /\ now < MaxTime
    /\ now' = now + 1
    /\ UNCHANGED <<wire, db, cursor, booting, offers, told, condemned, restarts>>

----------------------------------------------------------------------------
Next ==
    \/ \E n \in Node, t \in Transfer : Sign(n, t)
    \/ \E t \in Transfer : Inject(t)
    \/ \E n \in Node, t \in wire : Receive(n, t)
    \/ \E n \in Node, m \in Node : Pull(n, m)
    \/ \E n \in Node : PruneLedger(n)
    \/ \E n \in Node : Restart(n)
    \/ \E n \in Node : Wipe(n)
    \/ \E n \in Node : DieInPrune(n)
    \/ \E n \in Node, m \in Node : FetchSnapshot(n, m)
    \/ \E n \in Node, x \in Impostor, tale \in Tale : HearTale(n, x, tale)
    \/ \E n \in Node : JoinBare(n)
    \/ \E n \in Node : \E snap \in Favoured(n) : JoinFrom(n, snap)
    \/ Tick

Spec == Init /\ [][Next]_vars

\* Every node's gossip loop runs for ever and draws a random peer each round,
\* so each pair pulls again and again; start() always returns.  Nothing else
\* is owed: no transfer need be signed, no push need arrive.
Fairness ==
    /\ \A n, m \in Node : WF_vars(Pull(n, m))
    /\ \A n \in Node : WF_vars(JoinBare(n) \/ \E snap \in Favoured(n) : JoinFrom(n, snap))

FairSpec == Spec /\ Fairness

----------------------------------------------------------------------------
Shape ==
    /\ wire \subseteq Transfer
    /\ db = [n \in Node |-> db[n]]
    /\ \A n \in Node : ReplicaShape(db[n])
    /\ cursor \in [Node -> [Node -> Nat]]
    /\ booting \subseteq Node
    /\ offers = [n \in Node |-> offers[n]]
    /\ \A n \in Node : DOMAIN offers[n] \subseteq (Node \ {n}) \cup Impostor
    /\ told \subseteq Tale
    /\ condemned \in [Node -> SUBSET Account]
    /\ now \in 0..MaxTime
    /\ restarts \in 0..MaxRestarts

BooksTyped ==
    \A n \in Node : db[n].base \in [Account -> BaseRow]

\* Type invariant.
TypeOK == Shape /\ BooksTyped

----------------------------------------------------------------------------
\* Safety.

Authentic == {t \in wire : t.authentic}

\* An honest account never signs two transfers with one seq, whatever it
\* crashed through and whatever its replica has or has not seen
\* (reserve_seq: "a claimed seq is never reused").
SeqNeverReused ==
    \A t, u \in Authentic :
        t.from \in Honest /\ SameSlot(t, u) => t = u

\* What a baseline can go back to: nothing, or one tale that was told.
Nothing == [accounts |-> [a \in Account |-> NoBase], flagged |-> {}]

Origins == {Nothing} \cup told

\* No reputation store ever condemns an honest account, and a replica or a
\* snapshot on offer holds one for a double-spender only where a single tale
\* that was told had named it: not by forged envelopes, replays, prunes, lost
\* files or crashes, and never by two tales together.
HonestUnblamed ==
    \A n \in Node :
        /\ condemned[n] \cap Honest = {}
        /\ \E origin \in Origins :
              Proven(db[n]) \cap Honest \subseteq origin.flagged
        /\ \A m \in DOMAIN offers[n] : \E origin \in Origins :
              offers[n][m].flagged \cap Honest \subseteq origin.flagged

\* No transfer is both folded into a baseline and live in the rows: replays
\* of what a checkpoint folded are "stale" (add_tx).
NothingCountedTwice ==
    \A n \in Node : \A t \in TxsOf(db[n]) : ~IsStale(db[n], t)

\* Every replica's books go back to one origin and are the effect on it of
\* some set of authentic transfers, at most one per (sender, seq), each above
\* the seq the origin holds for its sender and applied once: credits are
\* neither made nor lost by replication, pruning, adoption or crashes.
BooksExplained ==
    \A n \in Node : \E origin \in Origins, S \in SUBSET Authentic :
        /\ \A t, u \in S : SameSlot(t, u) => t = u
        /\ \A t \in S : t.seq > origin.accounts[t.from].seq
        /\ \A a \in Account :
              LET first == origin.accounts[a]
                  in    == Amounts({t \in S : t.to = a})
                  out   == Amounts({t \in S : t.from = a})
              IN  /\ Balance(db[n], a) = first.balance + in - out
                  /\ TotalEarned(db[n], a) = first.earned + in

\* Every circulating transfer has been offered to n or would change nothing.
Quiescent(n) ==
    \A t \in wire : AddStatus(db[n], t, Clock(n)) \notin Stored

SameBooks(n, m) ==
    \A a \in Account :
        /\ Balance(db[n], a) = Balance(db[m], a)
        /\ TotalEarned(db[n], a) = TotalEarned(db[m], a)
        /\ IsFlagged(db[n], a) <=> IsFlagged(db[m], a)

\* Two replicas that have been offered everything hold the same books,
\* in whatever orders they were offered it (module docstring: "replicas
\* converge regardless of delivery order").
Converged ==
    \A n, m \in Node : Quiescent(n) /\ Quiescent(m) => SameBooks(n, m)

\* A replica that has been offered both halves of a double-spend flags the
\* spender (module docstring: "the sender is permanently flagged").
DoubleSpendFlagged ==
    \A n \in Node : Quiescent(n) =>
        \A t, u \in Authentic :
            /\ WellFormed(t, Clock(n)) /\ WellFormed(u, Clock(n))
            /\ SameSlot(t, u) /\ t # u
            => t.from \in Proven(db[n])

----------------------------------------------------------------------------
\* What a step may never do.

\* Proof against an account is never lost by a node that keeps its file:
\* neither by a prune nor by a restart nor by what arrives later.
FlagsPermanent ==
    [][\A n \in Node \ Volatile : Proven(db[n]) \subseteq Proven(db'[n])]_vars

\* A step that stores no transfer leaves the books of a non-empty replica as
\* they are: balances, earnings, next seqs and verdicts survive pruning
\* (prune: "Balances, seqs, earnings and flags survive") and restarts.
BooksSurvive ==
    [][\A n \in Node \ Volatile :
          ~IsEmpty(db[n]) /\ Len(db'[n].rows) <= Len(db[n].rows) =>
             \A a \in Account :
                /\ Balance(db'[n], a) = Balance(db[n], a)
                /\ TotalEarned(db'[n], a) = TotalEarned(db[n], a)
                /\ NextSeq(db'[n], a) = NextSeq(db[n], a)
                /\ IsFlagged(db'[n], a) <=> IsFlagged(db[n], a)]_vars

\* With more than one answer a snapshot is adopted only when two of them agree
\* (_bootstrap_from_snapshot: "adopted only when independently fetched copies
\* agree on the content hash").
AdoptedOnAgreement ==
    [][\A n \in Node : \A snap \in Favoured(n) :
          Cardinality(DOMAIN offers[n]) > 1 /\ JoinFrom(n, snap)
             => Agreement(n, snap) > 1]_vars

----------------------------------------------------------------------------
\* Liveness.

\* n's books include t, or a checkpoint n holds was taken past it.
Covers(n, t) == t \in TxsOf(db[n]) \/ IsStale(db[n], t)

\* What one replica stores and keeps every replica comes to cover, by pulls
\* alone (sync_ledger: "anti-entropy pull from every known peer until caught
\* up").
EventuallyEverywhere ==
    \A t \in Transfer, n \in Node, m \in Node :
        <>[](t \in TxsOf(db[m])) => []<>Covers(n, t)

\* Without checkpoints and lost files the swarm implements a grow-only set
\* per node.
Grow == INSTANCE GrowOnlyLedger WITH
            Item <- Transfer,
            issued <- Authentic,
            view <- [n \in Node |-> TxsOf(db[n])]

RefinesGrowOnly == Grow!Spec
=============================================================================
