------------------------------ MODULE Reputation ------------------------------
(***************************************************************************)
(* What a node thinks of another (src/kemi/reputation.py), as operators on *)
(* one row of its store.  Evidence fades by tenths; it is counted in       *)
(* hundredths here, and what is less is dropped.                           *)
(***************************************************************************)
EXTENDS Integers

Unit == 100

Unknown == [good |-> 0, bad |-> 0, events |-> 0, condemned |-> FALSE]

\* WEIGHTS.
Good(event) == IF event = "chunk_ok" THEN Unit ELSE 0

Bad(event) ==
    CASE event = "chunk_ok" -> 0
      [] event = "chunk_fail" -> Unit
      [] event \in {"mismatch", "payment_reneged"} -> 5 * Unit
      [] event = "double_spend" -> 100 * Unit

Record(r, event) ==
    [good |-> r.good + Good(event), bad |-> r.bad + Bad(event), events |-> r.events + 1,
     condemned |-> r.condemned \/ event = "double_spend"]

\* decay: neither the number of events nor a condemnation fades.
Decayed(r) == [r EXCEPT !.good = (9 * @) \div 10, !.bad = (9 * @) \div 10]

\* score, (good + 1) / (good + bad + 2), of r is more than that of q.
Better(r, q) ==
    (r.good + Unit) * (q.good + q.bad + 2 * Unit) > (q.good + Unit) * (r.good + r.bad + 2 * Unit)

\* is_banned.
Banned(r) ==
    r.condemned \/ (r.events >= 3 /\ 5 * (r.good + Unit) < r.good + r.bad + 2 * Unit)
=============================================================================
