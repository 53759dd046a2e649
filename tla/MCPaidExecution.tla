---------------------------- MODULE MCPaidExecution ----------------------------
\* Payments and committees for model checking PaidExecution.
EXTENDS PaidExecution, TLC

Pay(id, to, seq, ts) ==
    [id |-> id, from |-> "m", to |-> to, amount |-> 1, seq |-> seq,
     ts |-> ts, authentic |-> TRUE]

\* m signs one seq for both providers, and a transfer dated too far ahead.
Race == {Pay(1, "p", 1, 0), Pay(2, "q", 1, 0)}

RaceAndPostdated == Race \cup {Pay(3, "q", 2, 1)}

\* p and q provide; everybody else is a witness of both.
Watchers == Node \ {"p", "q"}

Witnesses == [n \in Node |-> IF n \in {"p", "q"} THEN Watchers ELSE {}]

\* p also consults the rogue, which q does not know.
Infiltrated == [n \in Node |-> CASE n = "p" -> Watchers
                                  [] n = "q" -> Watchers \ Rogue
                                  [] OTHER   -> {}]

\* Nothing here is read by its place in the file, and no row leaves it: two
\* ledgers with the same rows are one.
Unordered == <<[n \in Node |-> TxsOf(db[n])], condemned, stage, reply, free, rumour>>

\* Two witnesses that take no other part are interchangeable.
WatcherSymmetry == Permutations(Watchers)
===============================================================================
