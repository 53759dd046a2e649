---------------------------- MODULE MCDirectory ----------------------------
\* Values for model checking Directory.  The ids are three bits: 4 of seed, 1 of
\* p, 2 of c, 6 of d, 7 of the key: d and seed are closest to it.
EXTENDS Directory, TLC

CONSTANTS seed, p, c, d, task

\* Exclusive or of the ids, and the place of its first bit.
MCDist ==
    task :> (seed :> 3 @@ p :> 6 @@ c :> 5 @@ d :> 1)
    @@ seed :> (seed :> 0 @@ p :> 5 @@ c :> 6 @@ d :> 2)
    @@ p :> (seed :> 5 @@ p :> 0 @@ c :> 3 @@ d :> 7)
    @@ c :> (seed :> 6 @@ p :> 3 @@ c :> 0 @@ d :> 4)
    @@ d :> (seed :> 2 @@ p :> 7 @@ c :> 4 @@ d :> 0)

MCBucket ==
    seed :> (seed :> 0 @@ p :> 2 @@ c :> 2 @@ d :> 1)
    @@ p :> (seed :> 2 @@ p :> 0 @@ c :> 1 @@ d :> 2)
    @@ c :> (seed :> 2 @@ p :> 1 @@ c :> 0 @@ d :> 2)
    @@ d :> (seed :> 1 @@ p :> 2 @@ c :> 2 @@ d :> 0)

MCBoot == [n \in Node |-> IF n = seed THEN NoNode ELSE seed]

\* What the tables are when all have joined at once, with nothing lost: only
\* the seed knows d.
MCTable0 == seed :> <<d, p, c>> @@ p :> <<seed, c>> @@ c :> <<seed, p>> @@ d :> <<seed>>

\* With four peers and K = 2 no bucket overflows, and the order of a table,
\* which only says whom a full bucket forgets, has no effect.
Unordered == <<env, state, [n \in Node |-> Known(n)], storage, op, seeking, published>>

MCOffers == [n \in Node |-> IF n = p THEN task ELSE NoKey]
=============================================================================
