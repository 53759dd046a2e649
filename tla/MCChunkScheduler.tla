--------------------------- MODULE MCChunkScheduler ---------------------------
\* Values for the constants of ChunkScheduler that a configuration cannot spell.
EXTENDS ChunkScheduler, TLC

CONSTANTS p1, p2

\* p1 asks three credits for an item, everybody else two.
MCPrice == [p \in Provider |-> IF p = p1 THEN 3 ELSE 2]

FlatPrice == [p \in Provider |-> 1]

AllButP1 == Provider \ {p1}

None == {}

OnlyP2 == {p2}

\* Providers nothing in a run tells apart.
Interchangeable == Permutations(Provider)
=============================================================================
