------------------------ MODULE MCLedgerReplication ------------------------
(* Universes of transfers for model checking LedgerReplication.            *)
EXTENDS LedgerReplication

Tx(id, from, to, amount, seq) ==
    [id |-> id, from |-> from, to |-> to, amount |-> amount, seq |-> seq,
     ts |-> 0, authentic |-> TRUE]

Forged(t) == [t EXCEPT !.authentic = FALSE]

Stamped(t, ts) == [t EXCEPT !.ts = ts]

\* a and b run the code; m signs seq 1 twice and forges a's seq 1.  a may
\* pay b or m with its first seq.
SwarmTransfers ==
    {Tx(1, "a", "b", 1, 1), Tx(2, "m", "a", 1, 1), Tx(3, "m", "b", 2, 1),
     Tx(4, "a", "m", 1, 1), Forged(Tx(5, "a", "m", 2, 1))}

\* m signs seq 1 twice; a can pay once it has m's credits, so a replica that
\* has seen the payment only takes a for overdrawn.
CheckpointTransfers ==
    {Tx(1, "a", "b", 3, 1), Tx(2, "m", "a", 2, 1), Tx(3, "m", "b", 1, 1)}

\* One payer, whose second transfer is signed a tick after the first.
PullTransfers ==
    {Tx(1, "a", "b", 1, 1), Stamped(Tx(2, "a", "b", 1, 2), 1)}

\* What a payer signs whose clock is a unit ahead.
EarlyTransfers == {Stamped(Tx(1, "a", "b", 1, 1), 1), Stamped(Tx(2, "a", "b", 1, 2), 1)}

\* Honest payers only; a's seqs may reach a replica out of order.
HonestTransfers ==
    {Tx(1, "a", "b", 1, 1), Tx(2, "a", "b", 1, 2), Tx(3, "b", "a", 1, 1)}

\* A lie: a is a double-spender who has nothing left, and m is rich.
Tales ==
    {[accounts |-> [a |-> [balance |-> 0, seq |-> 1, earned |-> 0],
                    b |-> [balance |-> 2, seq |-> 0, earned |-> 0],
                    m |-> [balance |-> 5, seq |-> 0, earned |-> 1]],
      flagged  |-> {"a"}]}

NoLead == [n \in Node |-> 0]

\* a's clock is one unit ahead of the others.
PayerLeads == [n \in Node |-> IF n = "a" THEN 1 ELSE 0]
=============================================================================
