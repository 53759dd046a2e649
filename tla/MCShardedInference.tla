-------------------------- MODULE MCShardedInference --------------------------
\* What the store of a consumer may hold that has run jobs before.
EXTENDS ShardedInference

Failing == Record(Record(Record(Unknown, "chunk_fail"), "chunk_fail"), "chunk_fail")

MCPast == {Unknown, Failing}

\* Reputations are read when providers are listed and never afterwards: what
\* becomes of them in the last generation tells no states apart, but for the
\* condemnations that may still come.
Standing ==
    IF stage = -1 \/ runs < MaxRuns THEN <<memory, decays>>
                                   ELSE {p \in Provider : rep[p].condemned}

Readable == <<Standing, books, stage, plan, listing, token, hidden, vote, spent, verified,
              runs, failures>>

\* Providers that do not lie are alike.
Interchangeable == Permutations(Provider \ Liar)
=============================================================================
