---------------------------- MODULE GossipLedger ----------------------------
(***************************************************************************)
(* One replica of the credit ledger (src/kemi/gossip_ledger.py) as a value *)
(* and the operators the class GossipLedger offers on it.  A replica is    *)
(* the content of the SQLite file; amounts are integers (the code rounds   *)
(* floats to micro-credits), a transfer's id is the rank of its digest.    *)
(***************************************************************************)
EXTENDS Integers, Sequences, FiniteSets, FiniteSetsExt

CONSTANTS
    Account,        \* node ids that may hold credits
    Transfer,       \* every transfer envelope that may come to exist
    Genesis,        \* GENESIS_CREDITS: what an identity is born with
    MaxClockSkew    \* MAX_CLOCK_SKEW: how far ahead a timestamp may be

\* authentic: the envelope opens and its key owns the sender's node id.
TransferRecord ==
    [id : Nat, from : Account, to : Account, amount : Int, seq : Int,
     ts : Nat, authentic : BOOLEAN]

\* A digest identifies one transfer.
ASSUME TransferAssumption ==
    /\ Transfer \subseteq TransferRecord
    /\ \A t, u \in Transfer : t.id = u.id => t = u

ASSUME LedgerConstants == Genesis \in Nat /\ MaxClockSkew \in Nat

----------------------------------------------------------------------------
\* The tables.  rows[i] is the transfer with rowid cut + i: rowids are
\* AUTOINCREMENT, so they go on growing when a prune deletes every row.  An
\* account without a row in table base has the row NoBase.

NoBase == [balance |-> Genesis, seq |-> 0, earned |-> 0]

EmptyReplica ==
    [cut |-> 0, rows |-> <<>>, base |-> [a \in Account |-> NoBase],
     flaggedBase |-> {}, reserved |-> 0]

\* The tables of one replica, whatever table base holds.
Replica(B) ==
    [cut : Nat, rows : Seq(Transfer), base : B,
     flaggedBase : SUBSET Account, reserved : Int]

ReplicaShape(r) == r \in Replica({r.base})

TxsOf(r) == {r.rows[i] : i \in DOMAIN r.rows}

TxCount(r) == Len(r.rows)

HasBase(r) == \E a \in Account : r.base[a] # NoBase

\* start() and adopt_snapshot ask for exactly this.
IsEmpty(r) == TxCount(r) = 0 /\ ~HasBase(r)

----------------------------------------------------------------------------
\* Reading the ledger.

SameSlot(t, u) == t.from = u.from /\ t.seq = u.seq

\* Mutant: the first to arrive counts.
Counted_FirstCome(r) ==
    {r.rows[i] : i \in {j \in DOMAIN r.rows :
        \A k \in 1..(j - 1) : ~SameSlot(r.rows[j], r.rows[k])}}

\* Of the transfers in one (sender, seq) slot only the smallest id counts.
Counted(r) ==
    {t \in TxsOf(r) : \A u \in TxsOf(r) : SameSlot(t, u) => t.id <= u.id}

\* The credits that S moves, one by one; add_tx stores no other amounts than
\* positive ones.
Credits(S) == UNION {{t} \X (1..t.amount) : t \in S}

Amounts(S) == Cardinality(Credits(S))

Incoming(r, a) == Amounts({t \in Counted(r) : t.to = a})

Outgoing(r, a) == Amounts({t \in Counted(r) : t.from = a})

Balance(r, a) == r.base[a].balance + Incoming(r, a) - Outgoing(r, a)

TotalEarned(r, a) == r.base[a].earned + Incoming(r, a)

DoubleSpenders(r) ==
    {a \in Account : \E t, u \in TxsOf(r) :
                        t.from = a /\ SameSlot(t, u) /\ t.id # u.id}

\* Accounts the replica holds proof against, now or in its baseline.
Proven(r) == r.flaggedBase \cup DoubleSpenders(r)

IsFlagged(r, a) == a \in Proven(r) \/ Balance(r, a) < 0

SeqsOf(r, a) ==
    {r.base[a].seq} \cup {t.seq : t \in {u \in TxsOf(r) : u.from = a}}

NextSeq(r, a) == Max(SeqsOf(r, a)) + 1

\* Mutant: next_seq is taken for the claim, what was claimed before is not read.
Claims_NextSeq(r, a, s) == s = NextSeq(r, a)

\* reserve_seq claims s: one more than the highest of the sender's stored
\* seqs, its baseline seq and the last claim.
Claims(r, a, s) ==
    /\ s - 1 \in SeqsOf(r, a) \cup {r.reserved}
    /\ \A q \in SeqsOf(r, a) \cup {r.reserved} : q < s

Reserve(r, s) == [r EXCEPT !.reserved = s]

----------------------------------------------------------------------------
\* add_tx: the checks in the order the code makes them.

WellFormed(t, clock) ==
    /\ t.amount > 0
    /\ t.seq >= 1
    /\ t.to # t.from
    /\ t.ts <= clock + MaxClockSkew

\* Mutant: the last folded seq may be replayed.
IsStale_OffByOne(r, t) == t.seq < r.base[t.from].seq

IsStale(r, t) == t.seq <= r.base[t.from].seq

IsKnown(r, t) == \E u \in TxsOf(r) : u.id = t.id

AddStatus(r, t, clock) ==
    IF ~WellFormed(t, clock) THEN "invalid"
    ELSE IF IsStale(r, t)    THEN "stale"
    ELSE IF ~t.authentic     THEN "invalid"
    ELSE IF IsKnown(r, t)    THEN "known"
    ELSE IF \E u \in TxsOf(r) : SameSlot(t, u) THEN "conflict"
    ELSE "new"

\* Mutant: the second transfer of a slot is refused, not kept as evidence.
Stored_NewOnly == {"new"}

Stored == {"new", "conflict"}

\* Mutant: INSERT OR REPLACE on a unique (sender, seq).
AddTx_Replaces(r, t, clock) ==
    IF AddStatus(r, t, clock) \in Stored
    THEN [r EXCEPT !.rows = Append(SelectSeq(@, LAMBDA u : ~SameSlot(t, u)), t)]
    ELSE r

AddTx(r, t, clock) ==
    IF AddStatus(r, t, clock) \in Stored
    THEN [r EXCEPT !.rows = Append(@, t)]
    ELSE r

\* Mutant: the row just after the cursor is taken for the one read last.
FirstAfter_Skips(r, cursor) == IF cursor > r.cut THEN cursor + 2 ELSE r.cut + 1

\* txs_after(cursor): the rowid of the first row after the cursor.
FirstAfter(r, cursor) == IF cursor > r.cut THEN cursor + 1 ELSE r.cut + 1

HasRow(r, rowid) == rowid - r.cut \in DOMAIN r.rows

RowAt(r, rowid) == r.rows[rowid - r.cut]

----------------------------------------------------------------------------
\* Checkpoints.

FoldedSeq(r, a) ==
    Max({r.base[a].seq} \cup {t.seq : t \in {u \in Counted(r) : u.from = a}})

\* Mutants: an overdrawn account is written down as a double-spender; the
\* spend sequences are not folded; fresh verdicts are not folded.
Snapshot_Overdrawn(r) ==
    [accounts |-> [a \in Account |->
        [balance |-> Balance(r, a), seq |-> FoldedSeq(r, a),
         earned  |-> TotalEarned(r, a)]],
     flagged |-> {a \in Account : IsFlagged(r, a)}]

Snapshot_OldSeqs(r) ==
    [accounts |-> [a \in Account |->
        [balance |-> Balance(r, a), seq |-> r.base[a].seq,
         earned  |-> TotalEarned(r, a)]],
     flagged |-> Proven(r)]

Snapshot_OldFlags(r) ==
    [accounts |-> [a \in Account |->
        [balance |-> Balance(r, a), seq |-> FoldedSeq(r, a),
         earned  |-> TotalEarned(r, a)]],
     flagged |-> r.flaggedBase]

\* snapshot(): every account's balance, highest counted seq and lifetime
\* earnings, with the proven double-spenders.
Snapshot(r) ==
    [accounts |-> [a \in Account |->
        [balance |-> Balance(r, a), seq |-> FoldedSeq(r, a),
         earned  |-> TotalEarned(r, a)]],
     flagged |-> Proven(r)]

HasAccounts(snap) == \E a \in Account : snap.accounts[a] # NoBase

\* What adopt_snapshot and the second half of prune insert.
Install(r, snap) ==
    [r EXCEPT !.base = snap.accounts, !.flaggedBase = snap.flagged]

\* Mutant: a snapshot is installed over whatever a push has stored.
Adopt_Anyway(r, snap) == Install(r, snap)

\* adopt_snapshot raises (and changes nothing) unless the ledger is empty.
Adopt(r, snap) == IF IsEmpty(r) THEN Install(r, snap) ELSE r

\* prune() up to its first commit: base, flags and rows deleted.  Rowids and
\* the claimed seq (table meta) stay.
Deleted(r) ==
    [r EXCEPT !.cut = @ + Len(r.rows), !.rows = <<>>,
              !.base = [a \in Account |-> NoBase], !.flaggedBase = {}]

Prune(r) == Install(Deleted(r), Snapshot(r))
=============================================================================
