--------------------------- MODULE GrowOnlyLedger ---------------------------
(***************************************************************************)
(* What the ledger promises (src/kemi/gossip_ledger.py, docstring): a      *)
(* grow-only set of signed transfers per node.  A node learns transfers    *)
(* that were issued, one at a time, and forgets none.                      *)
(***************************************************************************)
CONSTANTS Node, Item

VARIABLES
    issued,  \* the transfers that were signed by their senders
    view     \* view[n]: the transfers node n holds

vars == <<issued, view>>

Init == issued = {} /\ view = [n \in Node |-> {}]

Issue(t) == issued' = issued \cup {t} /\ UNCHANGED view

Learn(n, t) ==
    /\ t \in issued
    /\ view' = [view EXCEPT ![n] = @ \cup {t}]
    /\ UNCHANGED issued

Next ==
    \/ \E t \in Item : Issue(t)
    \/ \E n \in Node, t \in issued : Learn(n, t)

Spec == Init /\ [][Next]_vars
=============================================================================
