---------------------------- MODULE MCStreamSession ----------------------------
\* Values for the constants of StreamSession that a configuration cannot spell.
EXTENDS StreamSession

\* One consumer asks for everything.
OneOwner == [s \in Session |-> "c"]

\* The first stream can fail over, the second finds one of the providers left.
OneFailover == [s \in Session |-> IF s \in Cancellable THEN <<"p">> ELSE <<"p", "q">>]

FlatPrice == [p \in Provider |-> 1]
===============================================================================
