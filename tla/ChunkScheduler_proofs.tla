------------------------ MODULE ChunkScheduler_proofs ------------------------
(***************************************************************************)
(* Theorems about ChunkScheduler for every set of providers, every number  *)
(* of chunks and every redundancy.                                         *)
(***************************************************************************)
EXTENDS ChunkScheduler, FiniteSetTheorems, TLAPS

\* A chunk never has more executions, done or under way, than are wanted.
Seats ==
    \A c \in Chunk :
        Cardinality(Answered(c)) + Cardinality(inFlight[c]) <= needed[c]

\* A worker that waits holds a place, has not voted and has signed.
Waiting ==
    \A p \in Provider, c \in Chunk : serving[p] = c =>
        /\ p \in inFlight[c] /\ results[c][p] = NoResult
        /\ PaymentOf(p, c) \in signed
        /\ strikes[p] < MaxProviderStrikes

\* A chunk is decided exactly when some value has a majority.
Decided ==
    \A c \in Chunk :
        IF accepted[c] = NoResult THEN Winners(results[c]) = {}
                                  ELSE accepted[c] \in Winners(results[c])

\* A vote is widened only when everybody asked has answered.
WidenedLate ==
    \A c \in Chunk : needed[c] > Redundancy =>
        /\ Cardinality(Answered(c)) >= needed[c] - 1
        /\ accepted[c] # NoResult => Cardinality(Answered(c)) >= needed[c]

Truthful ==
    \A c \in Chunk : \A p \in Honest : results[c][p] \in {NoResult, Right}

\* Nobody is punished before the chunk is decided or without having answered.
PunishedLate ==
    \A c \in Chunk, p \in Provider : mismatches[c][p] > 0 =>
        accepted[c] # NoResult /\ results[c][p] # NoResult

\* The inductive invariant.
IInv ==
    /\ TypeOK /\ Seats /\ Waiting /\ Decided /\ WidenedLate
    /\ Truthful /\ PunishedLate /\ WrongIsPunished

----------------------------------------------------------------------------
\* Votes.

Ballots == [Provider -> Value \cup {NoResult}]

Voters(res) == {p \in Provider : res[p] # NoResult}

LEMMA ProvidersFinite ==
    /\ IsFiniteSet(Provider)
    /\ Redundancy \in Nat \ {0}
    /\ \A S \in SUBSET Provider : IsFiniteSet(S) /\ Cardinality(S) \in Nat
<1>1. IsFiniteSet(Provider) BY JobAssumption
<1>2. Cardinality(Provider) \in Nat BY <1>1, FS_CardinalityType
<1>3. \A S \in SUBSET Provider : IsFiniteSet(S) /\ Cardinality(S) \in Nat
  BY <1>1, FS_Subset, FS_CardinalityType
<1> QED BY <1>1, <1>2, <1>3, JobAssumption

\* Half of the requested executions is less than a majority.
LEMMA MajorityBound == Majority \in Nat \ {0} /\ 2 * Majority > Redundancy
BY ProvidersFinite DEF Majority

\* A vote cast goes to one group and leaves the others alone.
LEMMA OneMoreVote ==
    ASSUME NEW res \in Ballots, NEW p \in Provider, res[p] = NoResult, NEW v \in Value
    PROVE  LET new == [res EXCEPT ![p] = v] IN
             /\ new \in Ballots
             /\ Voters(new) = Voters(res) \cup {p} /\ p \notin Voters(res)
             /\ Cardinality(Voters(new)) = Cardinality(Voters(res)) + 1
             /\ \A w \in Value : w # v => Votes(new, w) = Votes(res, w)
             /\ Winners(res) \subseteq Winners(new)
             /\ Winners(new) \subseteq Winners(res) \cup {v}
<1> DEFINE new == [res EXCEPT ![p] = v]
<1>1. /\ new \in Ballots
      /\ \A q \in Provider : new[q] = IF q = p THEN v ELSE res[q]
  BY DEF Ballots
<1>2. v # NoResult BY SwarmAssumption
<1>3. Voters(new) = Voters(res) \cup {p} /\ p \notin Voters(res)
  BY <1>1, <1>2 DEF Voters
<1>4. Cardinality(Voters(new)) = Cardinality(Voters(res)) + 1
  <2>1. IsFiniteSet(Voters(res)) BY ProvidersFinite DEF Voters
  <2> QED BY <2>1, <1>3, FS_AddElement
<1>5. \A w \in Value : w # v => Votes(new, w) = Votes(res, w)
  BY <1>1, SwarmAssumption DEF Votes
<1>6. Cardinality(Votes(new, v)) >= Cardinality(Votes(res, v))
  <2>1. Votes(res, v) \in SUBSET Votes(new, v) BY <1>1 DEF Votes
  <2>2. IsFiniteSet(Votes(new, v)) BY ProvidersFinite DEF Votes
  <2>3. /\ Cardinality(Votes(new, v)) \in Nat /\ Cardinality(Votes(res, v)) \in Nat
    BY ProvidersFinite DEF Votes
  <2> QED BY <2>1, <2>2, <2>3, FS_Subset
<1>7. Winners(res) \subseteq Winners(new)
  <2> SUFFICES ASSUME NEW w \in Winners(res) PROVE w \in Winners(new)
    OBVIOUS
  <2>1. CASE w = v
    <3>1. Cardinality(Votes(res, v)) \in Nat /\ Cardinality(Votes(new, v)) \in Nat
      BY ProvidersFinite DEF Votes
    <3> QED BY <2>1, <3>1, <1>6, MajorityBound DEF Winners
  <2>2. CASE w # v
    BY <2>2, <1>5 DEF Winners
  <2> QED BY <2>1, <2>2
<1>8. Winners(new) \subseteq Winners(res) \cup {v}
  BY <1>5 DEF Winners
<1> HIDE DEF new
<1> QED BY <1>1, <1>3, <1>4, <1>5, <1>7, <1>8 DEF new

\* Two majorities need more voters than a chunk asks for at first.
LEMMA TwoMajorities ==
    ASSUME NEW res \in Ballots, NEW v \in Winners(res), NEW w \in Winners(res), v # w
    PROVE  Cardinality(Voters(res)) > Redundancy
<1> DEFINE V == Votes(res, v)
           W == Votes(res, w)
<1>1. /\ V \in SUBSET Provider /\ W \in SUBSET Provider
      /\ V \cap W = {} /\ V \cup W \in SUBSET Voters(res)
      /\ Voters(res) \in SUBSET Provider
  BY SwarmAssumption DEF Votes, Voters, Winners
<1>2. /\ Cardinality(V) \in Nat /\ Cardinality(W) \in Nat
      /\ Cardinality(V) >= Majority /\ Cardinality(W) >= Majority
  BY <1>1, ProvidersFinite DEF Winners
<1>3. IsFiniteSet(V) /\ IsFiniteSet(W) /\ IsFiniteSet(Voters(res))
  BY <1>1, ProvidersFinite
<1> HIDE DEF V, W
<1>4. Cardinality(V \cup W) = Cardinality(V) + Cardinality(W)
  <2>1. Cardinality(V \cup W) = Cardinality(V) + Cardinality(W) - Cardinality(V \cap W)
    BY <1>3, FS_Union
  <2>2. Cardinality(V \cap W) = 0 BY <1>1, FS_EmptySet
  <2> QED BY <2>1, <2>2, <1>2
<1>5. Cardinality(V \cup W) <= Cardinality(Voters(res))
  BY <1>1, <1>3, FS_Subset
<1>6. Cardinality(Voters(res)) \in Nat BY <1>1, ProvidersFinite
<1> QED BY <1>2, <1>4, <1>5, <1>6, MajorityBound, ProvidersFinite

----------------------------------------------------------------------------
\* The initial state and the steps that count no vote.

LEMMA NoVotes ==
    ASSUME NEW res \in Ballots, \A p \in Provider : res[p] = NoResult
    PROVE  Voters(res) = {} /\ Winners(res) = {}
<1>1. Voters(res) = {} BY DEF Voters
<1>2. \A v \in Value : Votes(res, v) = {} BY SwarmAssumption DEF Votes
<1>3. Winners(res) = {} BY <1>2, FS_EmptySet, MajorityBound DEF Winners
<1> QED BY <1>1, <1>3

LEMMA InitIInv == Init => IInv
<1> SUFFICES ASSUME Init PROVE IInv OBVIOUS
<1>1. TypeOK
  BY ProvidersFinite DEF Init, TypeOK, MaxExtraRounds, MaxAttemptsPerProvider, MaxProviderStrikes
<1>2. \A c \in Chunk : /\ results[c] \in Ballots /\ Voters(results[c]) = {}
                      /\ Winners(results[c]) = {} /\ Answered(c) = {}
  <2> SUFFICES ASSUME NEW c \in Chunk
               PROVE /\ results[c] \in Ballots /\ Voters(results[c]) = {}
                     /\ Winners(results[c]) = {} /\ Answered(c) = {}
    OBVIOUS
  <2>1. results[c] \in Ballots /\ \A p \in Provider : results[c][p] = NoResult
    BY DEF Init, Ballots
  <2>2. Voters(results[c]) = {} /\ Winners(results[c]) = {}
    BY <2>1, NoVotes
  <2> QED BY <2>1, <2>2 DEF Answered, Voters
<1>3. Seats
  BY <1>2, FS_EmptySet, ProvidersFinite DEF Seats, Init
<1>4. Waiting
  BY DEF Waiting, Init, Chunk
<1>5. Decided
  BY <1>2 DEF Decided, Init
<1>6. WidenedLate
  BY ProvidersFinite DEF WidenedLate, Init
<1>7. Truthful
  BY SwarmAssumption DEF Truthful, Init
<1>8. PunishedLate /\ WrongIsPunished
  BY DEF PunishedLate, WrongIsPunished, Init
<1> QED BY <1>1, <1>3, <1>4, <1>5, <1>6, <1>7, <1>8 DEF IInv

\* Steps that change neither results nor votes keep what is said of them.
LEMMA BoardKept ==
    ASSUME IInv, UNCHANGED <<needed, results, accepted, mismatches>>
    PROVE  Decided' /\ WidenedLate' /\ Truthful' /\ PunishedLate' /\ WrongIsPunished'
BY DEF IInv, Decided, WidenedLate, Truthful, PunishedLate, WrongIsPunished,
       Answered, Winners, Votes, Majority

LEMMA IdleSteps ==
    ASSUME IInv, NEW p \in Provider, Return(p) \/ Nap(p)
    PROVE  IInv'
<1>1. UNCHANGED <<board, serving, strikes, purse, mismatches>>
  BY DEF Return, Nap
<1>2. TypeOK'
  <2>1. over' \in {over, over \cup {p}} /\ crashed' = crashed /\ running' = Nobody
    BY <1>1 DEF Return, Nap, AtLoopHead
  <2> QED BY <1>1, <2>1 DEF IInv, TypeOK, board, purse
<1>3. Seats' /\ Waiting'
  BY <1>1 DEF IInv, Seats, Waiting, Answered, PaymentOf, board, purse
<1> QED BY <1>1, <1>2, <1>3, BoardKept DEF IInv, board

LEMMA GossipStep ==
    ASSUME IInv, NEW x \in Payment, Gossiped(x)
    PROVE  IInv'
<1>1. UNCHANGED <<board, crew, signed, failed, spent, exposure, mismatches>>
  BY DEF Gossiped
<1>2. TypeOK'
  BY <1>1 DEF IInv, TypeOK, Gossiped, board, crew
<1>3. Seats' /\ Waiting'
  BY <1>1 DEF IInv, Seats, Waiting, Answered, PaymentOf, board, crew
<1> QED BY <1>1, <1>2, <1>3, BoardKept DEF IInv, board

LEMMA StutterStep ==
    ASSUME IInv, UNCHANGED vars
    PROVE  IInv'
<1>1. TypeOK'
  BY DEF IInv, TypeOK, vars, board, crew, purse
<1>2. Seats' /\ Waiting'
  BY DEF IInv, Seats, Waiting, Answered, PaymentOf, vars, board, crew, purse
<1> QED BY <1>1, <1>2, BoardKept DEF IInv, vars, board

\* An attempt below the cap can be counted.
LEMMA AttemptCounted ==
    ASSUME TypeOK, NEW p \in Provider, NEW c \in Chunk,
           attempts[c][p] < MaxAttemptsPerProvider,
           attempts' = [attempts EXCEPT ![c][p] = @ + 1]
    PROVE  /\ attempts' \in [Chunk -> [Provider -> 0..MaxAttemptsPerProvider]]
           /\ attempts'[c][p] = attempts[c][p] + 1
           /\ attempts[c][p] + 1 \in 1..MaxAttemptsPerProvider
           /\ \A q \in Provider, d \in Chunk :
                 q # p \/ d # c => attempts'[d][q] = attempts[d][q]
<1>1. attempts \in [Chunk -> [Provider -> 0..MaxAttemptsPerProvider]]
  BY DEF TypeOK
<1>2. attempts[c] \in [Provider -> 0..MaxAttemptsPerProvider] BY <1>1
<1>3. attempts[c][p] \in 0..MaxAttemptsPerProvider BY <1>2
<1>4. attempts[c][p] + 1 \in 1..MaxAttemptsPerProvider
  BY <1>3 DEF MaxAttemptsPerProvider
<1>5. attempts[c][p] + 1 \in 0..MaxAttemptsPerProvider
  BY <1>4 DEF MaxAttemptsPerProvider
<1> HIDE DEF MaxAttemptsPerProvider
<1> DEFINE row == [attempts[c] EXCEPT ![p] = attempts[c][p] + 1]
<1>6. row \in [Provider -> 0..MaxAttemptsPerProvider] BY <1>2, <1>5
<1>7. attempts' = [attempts EXCEPT ![c] = row] OBVIOUS
<1>8. attempts'[c] = row /\ \A d \in Chunk : d # c => attempts'[d] = attempts[d]
  BY <1>1, <1>7
<1>9. row[p] = attempts[c][p] + 1 /\ \A q \in Provider : q # p => row[q] = attempts[c][q]
  BY <1>2
<1> HIDE DEF row
<1>10. attempts' \in [Chunk -> [Provider -> 0..MaxAttemptsPerProvider]]
  BY <1>1, <1>6, <1>7
<1> QED BY <1>4, <1>8, <1>9, <1>10

LEMMA GiveUpStep ==
    ASSUME IInv, NEW p \in Provider, NEW c \in Chunk, GiveUp(p, c)
    PROVE  IInv'
<1>1. /\ serving[p] = 0 /\ attempts[c][p] < MaxAttemptsPerProvider
      /\ attempts' = [attempts EXCEPT ![c][p] = @ + 1]
      /\ strikes' = [strikes EXCEPT ![p] = MaxProviderStrikes]
      /\ over' = over \cup {p} /\ running' = Nobody
      /\ UNCHANGED <<needed, results, inFlight, accepted, serving, crashed, signed,
                      failed, held, mismatches>>
  BY DEF GiveUp, AtLoopHead, Acquires, Open, CountAttempt, purse
<1>a. TypeOK BY DEF IInv
<1>b. attempts' \in [Chunk -> [Provider -> 0..MaxAttemptsPerProvider]]
  BY <1>1, <1>a, AttemptCounted
<1>2. TypeOK'
  BY <1>1, <1>a, <1>b DEF TypeOK, MaxProviderStrikes
<1>3. Seats'
  BY <1>1 DEF IInv, Seats, Answered
<1>4. Waiting'
  <2> SUFFICES ASSUME NEW q \in Provider, NEW d \in Chunk, serving'[q] = d
               PROVE  /\ q \in inFlight'[d] /\ results'[d][q] = NoResult
                      /\ PaymentOf(q, d)' \in signed'
                      /\ strikes'[q] < MaxProviderStrikes
    BY DEF Waiting
  <2>1. q # p BY <1>1 DEF Chunk
  <2>2. attempts'[d][q] = attempts[d][q] /\ strikes'[q] = strikes[q]
    BY <1>1, <2>1 DEF IInv, TypeOK
  <2> QED BY <1>1, <2>2 DEF IInv, Waiting, PaymentOf
<1> QED BY <1>1, <1>2, <1>3, <1>4, BoardKept DEF IInv

LEMMA SendStep ==
    ASSUME IInv, NEW p \in Provider, NEW c \in Chunk, Send(p, c)
    PROVE  IInv'
<1> DEFINE pay == [to |-> p, chunk |-> c, try |-> attempts[c][p] + 1]
<1>1. /\ serving[p] = 0 /\ attempts[c][p] < MaxAttemptsPerProvider
      /\ p \notin inFlight[c] /\ results[c][p] = NoResult
      /\ strikes[p] < MaxProviderStrikes
      /\ Cardinality(Answered(c)) + Cardinality(inFlight[c]) < needed[c]
      /\ attempts' = [attempts EXCEPT ![c][p] = @ + 1]
      /\ inFlight' = [inFlight EXCEPT ![c] = @ \cup {p}]
      /\ serving' = [serving EXCEPT ![p] = c]
      /\ signed' = signed \cup {pay} /\ running' = Nobody
      /\ UNCHANGED <<needed, results, accepted, strikes, over, crashed, failed, held,
                      mismatches>>
  BY DEF Send, AtLoopHead, MayGoOn, Acquires, Open, CountAttempt
<1>a. TypeOK BY DEF IInv
<1>b. /\ attempts' \in [Chunk -> [Provider -> 0..MaxAttemptsPerProvider]]
      /\ attempts'[c][p] = attempts[c][p] + 1
      /\ attempts[c][p] + 1 \in 1..MaxAttemptsPerProvider
      /\ \A q \in Provider, d \in Chunk : q # p => attempts'[d][q] = attempts[d][q]
  <2>1. /\ attempts[c][p] < MaxAttemptsPerProvider
        /\ attempts' = [attempts EXCEPT ![c][p] = @ + 1]
    BY <1>1
  <2> HIDE DEF pay
  <2> QED BY <2>1, <1>a, AttemptCounted
<1>2. pay \in Payment
  BY <1>b DEF Payment
<1>3. TypeOK'
  <2> HIDE DEF pay
  <2> QED BY <1>1, <1>2, <1>a, <1>b DEF TypeOK
<1>4. Seats'
  <2> SUFFICES ASSUME NEW d \in Chunk
               PROVE  Cardinality(Answered(d)) + Cardinality(inFlight'[d]) <= needed[d]
    BY <1>1 DEF Seats, Answered
  <2>1. /\ Answered(d) \in SUBSET Provider /\ inFlight[d] \in SUBSET Provider
        /\ needed[d] \in Nat
    BY ProvidersFinite DEF IInv, TypeOK, Answered
  <2>2. /\ Cardinality(Answered(d)) \in Nat /\ Cardinality(inFlight[d]) \in Nat
        /\ IsFiniteSet(inFlight[d])
    BY <2>1, ProvidersFinite
  <2>3. CASE d = c
    <3>1. inFlight'[d] = inFlight[d] \cup {p}
      BY <1>1, <2>3 DEF IInv, TypeOK
    <3>2. Cardinality(inFlight'[d]) = Cardinality(inFlight[d]) + 1
      <4>1. p \notin inFlight[d] BY <1>1, <2>3
      <4>2. Cardinality(inFlight[d] \cup {p}) = Cardinality(inFlight[d]) + 1
        BY <4>1, <2>2, FS_AddElement
      <4> QED BY <4>2, <3>1
    <3>3. Cardinality(Answered(d)) + Cardinality(inFlight[d]) < needed[d]
      BY <1>1, <2>3
    <3> QED BY <2>1, <2>2, <3>2, <3>3
  <2>4. CASE d # c
    BY <1>1, <2>4 DEF IInv, TypeOK, Seats
  <2> QED BY <2>3, <2>4
<1>5. Waiting'
  <2> SUFFICES ASSUME NEW q \in Provider, NEW d \in Chunk, serving'[q] = d
               PROVE  /\ q \in inFlight'[d] /\ results'[d][q] = NoResult
                      /\ PaymentOf(q, d)' \in signed'
                      /\ strikes'[q] < MaxProviderStrikes
    BY DEF Waiting
  <2>1. CASE q = p
    <3>1. d = c /\ attempts'[c][p] = attempts[c][p] + 1
      BY <1>1, <2>1, <1>b DEF IInv, TypeOK
    <3> QED BY <1>1, <2>1, <3>1 DEF IInv, TypeOK, PaymentOf
  <2>2. CASE q # p
    <3>1. /\ attempts'[d][q] = attempts[d][q] /\ serving[q] = d
          /\ inFlight[d] \subseteq inFlight'[d]
      BY <1>1, <2>2, <1>b DEF IInv, TypeOK
    <3> HIDE DEF pay
    <3> QED BY <1>1, <3>1 DEF IInv, Waiting, PaymentOf
  <2> QED BY <2>1, <2>2
<1> QED BY <1>1, <1>3, <1>4, <1>5, BoardKept DEF IInv

----------------------------------------------------------------------------
\* Answers.

\* A worker whose answer is there waits no longer; it had its place until now.
LEMMA Arrival ==
    ASSUME IInv, NEW p \in Provider, NEW c \in Chunk, Arrives(p, c)
    PROVE  /\ results[c][p] = NoResult /\ PaymentOf(p, c) \in signed
           /\ strikes[p] < MaxProviderStrikes /\ p \in inFlight[c]
           /\ serving' \in [Provider -> Chunk \cup {0}]
           /\ \A q \in Provider, d \in Chunk : serving'[q] = d => q # p /\ serving[q] = d
<1>1. serving[p] = c /\ serving' = [serving EXCEPT ![p] = 0] BY DEF Arrives
<1>2. /\ results[c][p] = NoResult /\ PaymentOf(p, c) \in signed
      /\ strikes[p] < MaxProviderStrikes /\ p \in inFlight[c]
  BY <1>1 DEF IInv, Waiting
<1>3. serving' \in [Provider -> Chunk \cup {0}] BY <1>1 DEF IInv, TypeOK
<1>4. \A q \in Provider, d \in Chunk : serving'[q] = d => q # p /\ serving[q] = d
  BY <1>1 DEF IInv, TypeOK, Chunk
<1> QED BY <1>2, <1>3, <1>4

\* One that goes on gives the place back.
LEMMA Resumption ==
    ASSUME IInv, NEW p \in Provider, NEW c \in Chunk, Resumes(p, c),
           inFlight' = [inFlight EXCEPT ![c] = @ \ {p}]
    PROVE  /\ results[c][p] = NoResult /\ PaymentOf(p, c) \in signed
           /\ strikes[p] < MaxProviderStrikes
           /\ inFlight' \in [Chunk -> SUBSET Provider]
           /\ serving' \in [Provider -> Chunk \cup {0}]
           /\ running' \in Provider
           /\ \A d \in Chunk : inFlight'[d] = IF d = c THEN inFlight[c] \ {p} ELSE inFlight[d]
           /\ Cardinality(inFlight'[c]) = Cardinality(inFlight[c]) - 1
           /\ \A q \in Provider, d \in Chunk : serving'[q] = d => q # p /\ serving[q] = d
<1>1. Arrives(p, c) /\ running' = p BY DEF Resumes
<1>2. /\ inFlight' \in [Chunk -> SUBSET Provider]
      /\ \A d \in Chunk : inFlight'[d] = IF d = c THEN inFlight[c] \ {p} ELSE inFlight[d]
  BY DEF IInv, TypeOK
<1>3. Cardinality(inFlight[c] \ {p}) = Cardinality(inFlight[c]) - 1
  <2>1. inFlight[c] \in SUBSET Provider BY DEF IInv, TypeOK
  <2>2. IsFiniteSet(inFlight[c]) BY <2>1, ProvidersFinite
  <2>3. p \in inFlight[c] BY <1>1, Arrival
  <2> QED BY <2>2, <2>3, FS_RemoveElement
<1>4. Cardinality(inFlight'[c]) = Cardinality(inFlight[c]) - 1
  BY <1>2, <1>3
<1> QED BY <1>1, <1>2, <1>4, Arrival

LEMMA FailStep ==
    ASSUME IInv, NEW p \in Provider, NEW c \in Chunk, Fail(p, c)
    PROVE  IInv'
<1>1. /\ Resumes(p, c) /\ inFlight' = [inFlight EXCEPT ![c] = @ \ {p}]
      /\ strikes' = [strikes EXCEPT ![p] = @ + 1]
      /\ failed' = failed \cup {PaymentOf(p, c)}
      /\ UNCHANGED <<needed, results, accepted, held, mismatches, over, crashed, attempts,
                      signed>>
  BY DEF Fail, LeaveFlight, Resumes, Arrives
<1>2. /\ PaymentOf(p, c) \in signed /\ strikes[p] < MaxProviderStrikes
      /\ inFlight' \in [Chunk -> SUBSET Provider]
      /\ serving' \in [Provider -> Chunk \cup {0}]
      /\ running' \in Provider
      /\ \A d \in Chunk : inFlight'[d] = IF d = c THEN inFlight[c] \ {p} ELSE inFlight[d]
      /\ Cardinality(inFlight'[c]) = Cardinality(inFlight[c]) - 1
      /\ \A q \in Provider, d \in Chunk : serving'[q] = d => q # p /\ serving[q] = d
  BY <1>1, Resumption
<1>3. TypeOK'
  <2>1. strikes' \in [Provider -> 0..MaxProviderStrikes]
    BY <1>1, <1>2 DEF IInv, TypeOK, MaxProviderStrikes
  <2>2. failed' \subseteq signed'
    BY <1>1, <1>2 DEF IInv, TypeOK
  <2> QED BY <1>1, <1>2, <2>1, <2>2 DEF IInv, TypeOK
<1>4. Seats'
  <2> SUFFICES ASSUME NEW d \in Chunk
               PROVE  Cardinality(Answered(d)) + Cardinality(inFlight'[d]) <= needed[d]
    BY <1>1 DEF Seats, Answered
  <2>1. /\ Cardinality(Answered(d)) \in Nat /\ Cardinality(inFlight[d]) \in Nat
        /\ needed[d] \in Nat
    BY ProvidersFinite DEF IInv, TypeOK, Answered
  <2>2. Cardinality(Answered(d)) + Cardinality(inFlight[d]) <= needed[d]
    BY DEF IInv, Seats
  <2>3. CASE d = c BY <1>2, <2>1, <2>2, <2>3
  <2>4. CASE d # c BY <1>2, <2>2, <2>4
  <2> QED BY <2>3, <2>4
<1>5. Waiting'
  <2> SUFFICES ASSUME NEW q \in Provider, NEW d \in Chunk, serving'[q] = d
               PROVE  /\ q \in inFlight'[d] /\ results'[d][q] = NoResult
                      /\ PaymentOf(q, d)' \in signed'
                      /\ strikes'[q] < MaxProviderStrikes
    BY DEF Waiting
  <2>1. q # p /\ serving[q] = d BY <1>2
  <2>2. q \in inFlight'[d] BY <1>2, <2>1 DEF IInv, Waiting
  <2>3. strikes'[q] = strikes[q] BY <1>1, <2>1 DEF IInv, TypeOK
  <2> QED BY <1>1, <2>1, <2>2, <2>3 DEF IInv, Waiting, PaymentOf
<1> QED BY <1>1, <1>3, <1>4, <1>5, BoardKept DEF IInv

\* An error that nobody expects leaves the worker's place taken.
LEMMA CrashStep ==
    ASSUME IInv, NEW p \in Provider, NEW c \in Chunk, Crash(p, c)
    PROVE  IInv'
<1>1. /\ Arrives(p, c) /\ over' = over \cup {p} /\ crashed' = crashed \cup {p}
      /\ failed' = failed \cup {PaymentOf(p, c)}
      /\ UNCHANGED <<needed, results, inFlight, accepted, strikes, running, held,
                      mismatches, attempts, signed>>
  BY DEF Crash, Arrives
<1>2. /\ PaymentOf(p, c) \in signed
      /\ serving' \in [Provider -> Chunk \cup {0}]
      /\ \A q \in Provider, d \in Chunk : serving'[q] = d => q # p /\ serving[q] = d
  BY <1>1, Arrival
<1>3. TypeOK'
  <2>1. failed' \subseteq signed' BY <1>1, <1>2 DEF IInv, TypeOK
  <2>2. over' \subseteq Provider /\ crashed' \subseteq over' BY <1>1 DEF IInv, TypeOK
  <2> QED BY <1>1, <1>2, <2>1, <2>2 DEF IInv, TypeOK
<1>4. Seats' BY <1>1 DEF IInv, Seats, Answered
<1>5. Waiting' BY <1>1, <1>2 DEF IInv, Waiting, PaymentOf
<1> QED BY <1>1, <1>3, <1>4, <1>5, BoardKept DEF IInv

\* What a vote that was cast leaves of the board, decided or not.
LEMMA DeliverStep ==
    ASSUME IInv, NEW p \in Provider, NEW c \in Chunk, NEW v \in Value, Deliver(p, c, v)
    PROVE  /\ IInv'
           /\ \A d \in Chunk : accepted[d] # NoResult => accepted'[d] = accepted[d]
<1> DEFINE new == results'[c]
           A == Cardinality(Answered(c))
           F == Cardinality(inFlight[c])
           N == needed[c]
<1>1. /\ Resumes(p, c) /\ inFlight' = [inFlight EXCEPT ![c] = @ \ {p}]
      /\ p \in Honest => v = Right
      /\ results' = [results EXCEPT ![c][p] = v]
      /\ Tally(c, new)
      /\ strikes' = [strikes EXCEPT ![p] = 0]
      /\ held' = held \cup {PaymentOf(p, c)}
      /\ UNCHANGED <<failed, over, crashed, attempts, signed>>
  BY DEF Deliver, Resumes, Arrives
<1>2. /\ results[c][p] = NoResult /\ PaymentOf(p, c) \in signed
      /\ inFlight' \in [Chunk -> SUBSET Provider]
      /\ serving' \in [Provider -> Chunk \cup {0}]
      /\ running' \in Provider
      /\ \A d \in Chunk : inFlight'[d] = IF d = c THEN inFlight[c] \ {p} ELSE inFlight[d]
      /\ Cardinality(inFlight'[c]) = F - 1
      /\ \A q \in Provider, d \in Chunk : serving'[q] = d => q # p /\ serving[q] = d
  BY <1>1, Resumption
<1>3. /\ results' \in [Chunk -> Ballots] /\ results[c] \in Ballots
      /\ new = [results[c] EXCEPT ![p] = v]
      /\ \A d \in Chunk : d # c => results'[d] = results[d]
  BY <1>1 DEF IInv, TypeOK, Ballots
<1>4. /\ new \in Ballots
      /\ \A q \in Provider : new[q] = IF q = p THEN v ELSE results[c][q]
  BY <1>3 DEF Ballots
<1>5. /\ Voters(new) = Voters(results[c]) \cup {p} /\ p \notin Voters(results[c])
      /\ Cardinality(Voters(new)) = Cardinality(Voters(results[c])) + 1
      /\ Winners(results[c]) \subseteq Winners(new)
  <2> HIDE DEF new
  <2> QED BY <1>2, <1>3, OneMoreVote
<1>6. /\ Answered(c) = Voters(results[c]) /\ Answered(c)' = Voters(new)
      /\ Cardinality(Answered(c)') = A + 1
      /\ \A d \in Chunk : d # c => Answered(d)' = Answered(d)
  <2>1. Answered(c) = Voters(results[c]) /\ Answered(c)' = Voters(new)
    BY DEF Answered, Voters
  <2>2. \A d \in Chunk : d # c => Answered(d)' = Answered(d)
    BY <1>3 DEF Answered
  <2> QED BY <2>1, <2>2, <1>5
<1>7. /\ A \in Nat /\ F \in Nat /\ N \in Redundancy..(Redundancy + MaxExtraRounds)
      /\ A + F <= N /\ F >= 1 /\ N \in Nat
  <2>1. p \in inFlight[c] BY <1>1, Arrival DEF Resumes
  <2>2. A \in Nat /\ F \in Nat /\ IsFiniteSet(inFlight[c])
    BY ProvidersFinite DEF IInv, TypeOK, Answered
  <2>3. F # 0 BY <2>1, <2>2, FS_EmptySet
  <2>4. N \in Redundancy..(Redundancy + MaxExtraRounds) /\ A + F <= N
    BY DEF IInv, TypeOK, Seats
  <2> HIDE DEF A, F, N
  <2> QED BY <2>2, <2>3, <2>4, ProvidersFinite DEF MaxExtraRounds
<1>8. \A w \in Winners(new) : accepted[c] # NoResult => w = accepted[c]
  <2> SUFFICES ASSUME NEW w \in Winners(new), accepted[c] # NoResult, w # accepted[c]
               PROVE  FALSE
    OBVIOUS
  <2>1. accepted[c] \in Winners(new)
    BY <1>5 DEF IInv, Decided
  <2>2. Cardinality(Voters(new)) > Redundancy
    <3> HIDE DEF new
    <3> QED BY <2>1, <1>4, TwoMajorities
  <2>3. A + 1 > Redundancy BY <2>2, <1>5, <1>6
  <2>4. N > Redundancy
    <3> HIDE DEF A, F, N
    <3> QED BY <2>3, <1>7, ProvidersFinite
  <2>5. A >= N BY <2>4 DEF IInv, WidenedLate
  <2> HIDE DEF A, F, N
  <2> QED BY <2>5, <1>7
<1>9. /\ needed' \in [Chunk -> Redundancy..(Redundancy + MaxExtraRounds)]
      /\ accepted' \in [Chunk -> Value \cup {NoResult}]
      /\ mismatches' \in [Chunk -> [Provider -> Nat]]
      /\ \A d \in Chunk : d # c => /\ needed'[d] = needed[d]
                                  /\ accepted'[d] = accepted[d]
                                  /\ mismatches'[d] = mismatches[d]
      /\ needed'[c] >= N
      /\ needed'[c] > Redundancy =>
            /\ A + 1 >= needed'[c] - 1
            /\ accepted'[c] # NoResult => A + 1 >= needed'[c]
      /\ IF accepted'[c] = NoResult THEN Winners(new) = {}
                                    ELSE accepted'[c] \in Winners(new)
      /\ accepted[c] # NoResult => accepted'[c] = accepted[c]
      /\ \A q \in Provider : mismatches'[c][q] > 0 =>
            accepted'[c] # NoResult /\ new[q] # NoResult
      /\ accepted'[c] # NoResult => \A q \in Provider : new[q] # NoResult =>
            (mismatches'[c][q] > 0) = (new[q] # accepted'[c])
  <2>0. \A q \in Provider : mismatches[c][q] \in Nat
    BY DEF IInv, TypeOK
  <2>a. \A q \in Provider : mismatches[c][q] > 0 =>
          accepted[c] # NoResult /\ results[c][q] # NoResult
    BY DEF IInv, PunishedLate
  <2>1. CASE Winners(new) = {}
    <3>1. /\ needed' = [needed EXCEPT ![c] = Widened(c, new)]
          /\ UNCHANGED <<accepted, mismatches>>
      <4> HIDE DEF new
      <4> QED BY <1>1, <2>1 DEF Tally
    <3>2. accepted[c] = NoResult
      BY <1>5, <2>1 DEF IInv, Decided
    <3>3. Widened(c, new) = IF A + 1 >= N /\ N < Redundancy + MaxExtraRounds THEN N + 1 ELSE N
      <4>1. {q \in Provider : new[q] # NoResult} = Voters(new) BY DEF Voters
      <4>2. Cardinality({q \in Provider : new[q] # NoResult}) = A + 1
        BY <4>1, <1>6
      <4> HIDE DEF new, A
      <4> QED BY <4>2 DEF Widened
    <3> DEFINE W == Widened(c, new)
    <3>4. /\ W \in Redundancy..(Redundancy + MaxExtraRounds)
          /\ W >= N
          /\ W > Redundancy => A + 1 >= W - 1
      <4>1. N > Redundancy => A >= N - 1 BY DEF IInv, WidenedLate
      <4> HIDE DEF A, N, W
      <4> QED BY <4>1, <3>3, <1>7, ProvidersFinite DEF MaxExtraRounds, W
    <3>5. /\ needed'[c] = W
          /\ \A d \in Chunk : d # c => needed'[d] = needed[d]
          /\ needed' \in [Chunk -> Redundancy..(Redundancy + MaxExtraRounds)]
      <4> HIDE DEF W
      <4> QED BY <3>1, <3>4 DEF IInv, TypeOK, W
    <3>6. accepted' \in [Chunk -> Value \cup {NoResult}]
          /\ mismatches' \in [Chunk -> [Provider -> Nat]]
      BY <3>1 DEF IInv, TypeOK
    <3>7. accepted'[c] = NoResult /\ \A q \in Provider : ~(mismatches'[c][q] > 0)
      BY <2>a, <3>1, <3>2
    <3>8. \A d \in Chunk : accepted'[d] = accepted[d] /\ mismatches'[d] = mismatches[d]
      BY <3>1
    <3> HIDE DEF W, new, A, F, N
    <3> QED BY <2>1, <3>2, <3>4, <3>5, <3>6, <3>7, <3>8
  <2>2. CASE Winners(new) # {}
    <3>1. PICK w \in Winners(new) :
            /\ accepted' = [accepted EXCEPT ![c] = w]
            /\ mismatches' = [mismatches EXCEPT ![c] =
                  [q \in Provider |-> IF q \in Losers(c, new, w)
                                      THEN @[q] + 1 ELSE @[q]]]
            /\ UNCHANGED needed
      <4> HIDE DEF new
      <4> QED BY <1>1, <2>2 DEF Tally
    <3>2. w \in Value /\ w # NoResult BY SwarmAssumption DEF Winners
    <3>3. /\ accepted' \in [Chunk -> Value \cup {NoResult}] /\ accepted'[c] = w
          /\ \A d \in Chunk : d # c => accepted'[d] = accepted[d]
      <4> HIDE DEF new
      <4> QED BY <3>1, <3>2 DEF IInv, TypeOK
    <3> DEFINE row == [q \in Provider |-> IF q \in Losers(c, new, w)
                                          THEN mismatches[c][q] + 1 ELSE mismatches[c][q]]
    <3>4. row \in [Provider -> Nat] BY <2>0
    <3>5. mismatches' = [mismatches EXCEPT ![c] = row] BY <3>1
    <3>6. /\ mismatches' \in [Chunk -> [Provider -> Nat]] /\ mismatches'[c] = row
          /\ \A d \in Chunk : d # c => mismatches'[d] = mismatches[d]
      <4> HIDE DEF row, new
      <4> QED BY <3>4, <3>5 DEF IInv, TypeOK
    <3>7. \A q \in Provider : mismatches'[c][q] =
            IF new[q] # NoResult /\ new[q] # w THEN mismatches[c][q] + 1 ELSE mismatches[c][q]
      <4> HIDE DEF new
      <4> QED BY <3>6 DEF Losers
    <3>8. N > Redundancy => A + 1 >= N
      <4>1. N > Redundancy => A >= N - 1 BY DEF IInv, WidenedLate
      <4> HIDE DEF A, N
      <4> QED BY <4>1, <1>7
    <3>9. accepted[c] # NoResult => w = accepted[c]
      BY <1>8
    <3>10. ASSUME NEW q \in Provider, new[q] # NoResult
           PROVE  (mismatches'[c][q] > 0) = (new[q] # w)
      <4>1. CASE new[q] # w
        BY <4>1, <3>7, <3>10, <2>0
      <4>2. CASE new[q] = w
        <5>1. mismatches'[c][q] = mismatches[c][q] BY <3>7, <4>2
        <5>2. ~(mismatches[c][q] > 0)
          <6> SUFFICES ASSUME mismatches[c][q] > 0 PROVE FALSE OBVIOUS
          <6>1. accepted[c] = w /\ results[c][q] # NoResult BY <2>a, <3>9
          <6>2. results[c][q] # accepted[c]
            BY <6>1, <3>2 DEF IInv, WrongIsPunished, Answered
          <6>3. new[q] = results[c][q] BY <1>2, <1>4, <6>1
          <6> QED BY <6>1, <6>2, <6>3, <4>2
        <5> QED BY <5>1, <5>2, <4>2
      <4> QED BY <4>1, <4>2
    <3>11. ASSUME NEW q \in Provider, mismatches'[c][q] > 0
           PROVE  new[q] # NoResult
      <4>1. CASE mismatches[c][q] > 0
        <5>1. results[c][q] # NoResult BY <4>1, <2>a
        <5> QED BY <5>1, <1>2, <1>4
      <4>2. CASE ~(mismatches[c][q] > 0)
        BY <4>2, <3>7, <3>11
      <4> QED BY <4>1, <4>2
    <3>12. needed' \in [Chunk -> Redundancy..(Redundancy + MaxExtraRounds)]
           /\ needed'[c] = N
      BY <3>1 DEF IInv, TypeOK
    <3>13. /\ N >= N
           /\ N > Redundancy => A + 1 >= N - 1 /\ A + 1 >= N
      <4> HIDE DEF A, N
      <4> QED BY <3>8, <1>7, ProvidersFinite
    <3> HIDE DEF A, N, new, row
    <3> QED BY <3>1, <3>2, <3>3, <3>6, <3>9, <3>10, <3>11, <3>12, <3>13
  <2> QED BY <2>1, <2>2
<1> HIDE DEF new
<1>10. TypeOK'
  <2>1. strikes' \in [Provider -> 0..MaxProviderStrikes]
    BY <1>1 DEF IInv, TypeOK, MaxProviderStrikes
  <2>2. held' \subseteq signed' /\ failed' \subseteq signed' /\ signed' \subseteq Payment
    BY <1>1, <1>2 DEF IInv, TypeOK
  <2> HIDE DEF A, F, N
  <2> QED BY <1>1, <1>2, <1>3, <1>9, <2>1, <2>2 DEF IInv, TypeOK, Ballots
<1>11. Seats'
  <2> SUFFICES ASSUME NEW d \in Chunk
               PROVE  Cardinality(Answered(d)') + Cardinality(inFlight'[d]) <= needed'[d]
    BY DEF Seats
  <2>1. CASE d = c
    <3>1. needed'[c] \in Nat BY <1>9, ProvidersFinite DEF MaxExtraRounds
    <3>2. Cardinality(Answered(c)') = A + 1 /\ Cardinality(inFlight'[c]) = F - 1
      BY <1>2, <1>6
    <3> HIDE DEF A, F, N
    <3> QED BY <2>1, <3>1, <3>2, <1>7, <1>9
  <2>2. CASE d # c
    BY <2>2, <1>2, <1>6, <1>9 DEF IInv, Seats
  <2> QED BY <2>1, <2>2
<1>12. Waiting'
  <2> SUFFICES ASSUME NEW q \in Provider, NEW d \in Chunk, serving'[q] = d
               PROVE  /\ q \in inFlight'[d] /\ results'[d][q] = NoResult
                      /\ PaymentOf(q, d)' \in signed'
                      /\ strikes'[q] < MaxProviderStrikes
    BY DEF Waiting
  <2>1. q # p /\ serving[q] = d BY <1>2
  <2>2. q \in inFlight'[d] BY <1>2, <2>1 DEF IInv, Waiting
  <2>3. strikes'[q] = strikes[q] BY <1>1, <2>1 DEF IInv, TypeOK
  <2>4. results'[d][q] = results[d][q] BY <1>3, <1>4, <2>1 DEF new
  <2> QED BY <1>1, <2>1, <2>2, <2>3, <2>4 DEF IInv, Waiting, PaymentOf
<1>13. Decided'
  <2>1. \A d \in Chunk : IF accepted'[d] = NoResult THEN Winners(results'[d]) = {}
                                                  ELSE accepted'[d] \in Winners(results'[d])
    <3> HIDE DEF A, F, N
    <3> QED BY <1>3, <1>9 DEF IInv, Decided, new
  <2> QED BY <2>1 DEF Decided, Winners, Votes, Majority
<1>14. WidenedLate'
  <2> SUFFICES ASSUME NEW d \in Chunk, needed'[d] > Redundancy
               PROVE  /\ Cardinality(Answered(d)') >= needed'[d] - 1
                      /\ accepted'[d] # NoResult => Cardinality(Answered(d)') >= needed'[d]
    BY DEF WidenedLate
  <2>1. CASE d = c
    BY <2>1, <1>6, <1>9
  <2>2. CASE d # c
    BY <2>2, <1>6, <1>9 DEF IInv, WidenedLate
  <2> QED BY <2>1, <2>2
<1>15. Truthful'
  <2> SUFFICES ASSUME NEW d \in Chunk, NEW q \in Honest
               PROVE  results'[d][q] \in {NoResult, Right}
    BY DEF Truthful
  <2>1. q \in Provider BY SwarmAssumption
  <2>2. CASE d = c /\ q = p BY <2>2, <1>1, <1>4 DEF new
  <2>3. CASE d = c /\ q # p BY <2>1, <2>3, <1>4 DEF new, IInv, Truthful
  <2>4. CASE d # c BY <2>4, <1>3 DEF IInv, Truthful
  <2> QED BY <2>2, <2>3, <2>4
<1>16. PunishedLate'
  <2> SUFFICES ASSUME NEW d \in Chunk, NEW q \in Provider, mismatches'[d][q] > 0
               PROVE  accepted'[d] # NoResult /\ results'[d][q] # NoResult
    BY DEF PunishedLate
  <2> HIDE DEF A, F, N
  <2>1. CASE d = c BY <2>1, <1>9 DEF new
  <2>2. CASE d # c BY <2>2, <1>3, <1>9 DEF IInv, PunishedLate
  <2> QED BY <2>1, <2>2
<1>17. WrongIsPunished'
  <2> SUFFICES ASSUME NEW d \in Chunk, accepted'[d] # NoResult,
                      NEW q \in Provider, results'[d][q] # NoResult
               PROVE  (mismatches'[d][q] > 0) = (results'[d][q] # accepted'[d])
    BY DEF WrongIsPunished, Answered
  <2> HIDE DEF A, F, N
  <2>1. CASE d = c BY <2>1, <1>9 DEF new
  <2>2. CASE d # c BY <2>2, <1>3, <1>9 DEF IInv, WrongIsPunished, Answered
  <2> QED BY <2>1, <2>2
<1>18. \A d \in Chunk : accepted[d] # NoResult => accepted'[d] = accepted[d]
  BY <1>9
<1> QED BY <1>10, <1>11, <1>12, <1>13, <1>14, <1>15, <1>16, <1>17, <1>18 DEF IInv

----------------------------------------------------------------------------
\* The theorems.

LEMMA NextIInv ==
    ASSUME IInv, [Next]_vars
    PROVE  /\ IInv'
           /\ \A c \in Chunk : accepted[c] # NoResult => accepted'[c] = accepted[c]
<1>1. ASSUME NEW p \in Provider, Turn(p)
      PROVE  IInv' /\ UNCHANGED accepted
  <2>1. CASE Return(p) \/ Nap(p)
    BY <2>1, IdleSteps DEF Return, Nap, board
  <2>2. ASSUME NEW c \in Chunk, GiveUp(p, c) PROVE IInv' /\ UNCHANGED accepted
    BY <2>2, GiveUpStep DEF GiveUp
  <2>3. ASSUME NEW c \in Chunk, Send(p, c) PROVE IInv' /\ UNCHANGED accepted
    BY <2>3, SendStep DEF Send
  <2> QED BY <1>1, <2>1, <2>2, <2>3 DEF Turn
<1>2. ASSUME NEW p \in Provider, Answer(p)
      PROVE  /\ IInv'
             /\ \A c \in Chunk : accepted[c] # NoResult => accepted'[c] = accepted[c]
  <2>1. PICK c \in Chunk : \/ Refuse(p, c) \/ Unreachable(p, c) \/ Crash(p, c)
                           \/ \E v \in Value : Deliver(p, c, v)
    BY <1>2 DEF Answer
  <2>2. CASE Refuse(p, c) \/ Unreachable(p, c)
    <3>1. Fail(p, c) BY <2>2 DEF Refuse, Unreachable
    <3> QED BY <3>1, FailStep DEF Fail
  <2>3. CASE Crash(p, c) BY <2>3, CrashStep DEF Crash
  <2>4. CASE \E v \in Value : Deliver(p, c, v)
    BY <2>4, DeliverStep
  <2> QED BY <2>1, <2>2, <2>3, <2>4
<1>3. ASSUME NEW x \in Payment, Gossiped(x) PROVE IInv' /\ UNCHANGED accepted
  BY <1>3, GossipStep DEF Gossiped, board
<1>4. CASE UNCHANGED vars
  BY <1>4, StutterStep DEF vars, board
<1> QED BY <1>1, <1>2, <1>3, <1>4 DEF Next

THEOREM Inductive == Spec => []IInv
<1>1. IInv /\ [Next]_vars => IInv' BY NextIInv
<1> QED BY InitIInv, <1>1, PTL DEF Spec

\* Every variable keeps its type: a worker never waits with a strike too many
\* and an attempt is never counted past its cap.
THEOREM TypesHold == Spec => []TypeOK
<1>1. IInv => TypeOK BY DEF IInv
<1> QED BY Inductive, <1>1, PTL

\* An accepted result stays, for every number of providers and redundancy:
\* a second majority would need more voters than complete ever asks for.
THEOREM AcceptanceIsFinal == Spec => AcceptedIsFinal
<1>1. IInv /\ [Next]_vars =>
        [\A c \in Chunk : accepted[c] # NoResult => accepted'[c] = accepted[c]]_vars
  BY NextIInv
<1> QED BY Inductive, <1>1, PTL DEF Spec, AcceptedIsFinal

\* Liars that number at most half of the redundancy never carry a vote.
THEOREM HonestMajorityWins == Spec => []HonestAnswerWins
<1>1. IInv => HonestAnswerWins
  <2> SUFFICES ASSUME IInv, 2 * Cardinality(Provider \ Honest) <= Redundancy,
                      NEW c \in Chunk, accepted[c] # NoResult, accepted[c] # Right
               PROVE  FALSE
    BY DEF HonestAnswerWins
  <2>1. accepted[c] \in Winners(results[c]) BY DEF IInv, Decided
  <2> DEFINE V == Votes(results[c], accepted[c])
  <2>2. Cardinality(V) >= Majority BY <2>1 DEF Winners
  <2>3. V \in SUBSET (Provider \ Honest)
    BY DEF IInv, Truthful, Votes
  <2>4. /\ IsFiniteSet(Provider \ Honest) /\ Cardinality(Provider \ Honest) \in Nat
        /\ Cardinality(V) \in Nat
    BY ProvidersFinite DEF Votes
  <2> HIDE DEF V
  <2>5. Cardinality(V) <= Cardinality(Provider \ Honest)
    BY <2>3, <2>4, FS_Subset
  <2> QED BY <2>2, <2>4, <2>5, MajorityBound, ProvidersFinite
<1> QED BY Inductive, <1>1, PTL

\* Reputation follows the verdict, however late an answer comes.
THEOREM VerdictsReachReputation == Spec => []WrongIsPunished
<1>1. IInv => WrongIsPunished BY DEF IInv
<1> QED BY Inductive, <1>1, PTL

----------------------------------------------------------------------------
\* Sums of payments.

LEMMA HasLeast ==
    ASSUME NEW S \in SUBSET Nat, S # {}
    PROVE  \E m \in S : \A n \in S : m <= n
<1> DEFINE R == OpToRel(<, Nat)
<1>1. IsWellFoundedOn(R, Nat) BY NatLessThanWellFounded
<1>2. \A m, n \in Nat : n < m => <<n, m>> \in R BY DEF OpToRel
<1> HIDE DEF R
<1>3. PICK m \in S : \A n \in S : <<n, m>> \notin R BY <1>1, WFMin
<1>4. ASSUME NEW n \in S PROVE m <= n
  <2>1. m \in Nat /\ n \in Nat /\ ~(n < m) BY <1>2, <1>3
  <2> QED BY <2>1
<1> QED BY <1>4

\* A finite set of naturals has a greatest element.
LEMMA HasGreatest ==
    ASSUME NEW S \in SUBSET Nat, IsFiniteSet(S), S # {}
    PROVE  \E m \in S : \A n \in S : n <= m
<1> DEFINE Bounded(T) == \E b \in Nat : \A n \in T : n <= b
           Bad == {T \in FiniteSubsetsOf(S) : ~Bounded(T)}
           R == StrictSubsetOrdering(S)
<1>1. Bounded(S)
  <2>1. SUFFICES ASSUME ~Bounded(S) PROVE FALSE OBVIOUS
  <2>2. S \in Bad BY <2>1 DEF FiniteSubsetsOf
  <2>3. IsWellFoundedOn(R, FiniteSubsetsOf(S)) BY FS_StrictSubsetOrderingWellFounded
  <2>4. PICK T \in Bad : \A U \in Bad : <<U, T>> \notin R
    <3>1. Bad \subseteq FiniteSubsetsOf(S) /\ Bad # {} BY <2>2
    <3> HIDE DEF Bad, R
    <3> QED BY <2>3, <3>1, WFMin
  <2>5. T \in SUBSET S /\ IsFiniteSet(T) /\ ~Bounded(T) BY DEF FiniteSubsetsOf
  <2>6. T # {} BY <2>5
  <2>7. PICK x \in T : TRUE BY <2>6
  <2> DEFINE U == T \ {x}
  <2>8. U \in SUBSET S /\ IsFiniteSet(U) BY <2>5, FS_RemoveElement
  <2>9. <<U, T>> \in R BY <2>5, <2>7, <2>8 DEF StrictSubsetOrdering
  <2>10. Bounded(U)
    <3>1. U \notin Bad BY <2>4, <2>9
    <3> QED BY <3>1, <2>8 DEF FiniteSubsetsOf
  <2>11. PICK b \in Nat : \A n \in U : n <= b BY <2>10
  <2>12. x \in Nat BY <2>5
  <2>13. PICK d \in Nat : d >= b /\ d >= x BY <2>12
  <2>14. \A n \in T : n <= d
    <3> SUFFICES ASSUME NEW n \in T PROVE n <= d OBVIOUS
    <3>1. n \in Nat BY <2>5
    <3> QED BY <2>11, <2>13, <3>1
  <2> QED BY <2>5, <2>14
<1> HIDE DEF Bad, R
<1>2. PICK b \in Nat : \A n \in S : n <= b BY <1>1
<1> DEFINE V == {u \in Nat : \A n \in S : n <= u}
<1>3. b \in V BY <1>2
<1>4. PICK m \in V : \A n \in V : m <= n
  <2>1. V \in SUBSET Nat /\ V # {} BY <1>3
  <2> HIDE DEF V
  <2> QED BY <2>1, HasLeast
<1>5. m \in S
  <2> SUFFICES ASSUME m \notin S PROVE FALSE OBVIOUS
  <2>1. PICK n \in S : TRUE OBVIOUS
  <2>2. n < m BY <2>1
  <2>3. m - 1 \in V BY <2>2
  <2> QED BY <1>4, <2>3
<1> QED BY <1>5

\* A chunk holds an item at least and chunk_size items at most.
LEMMA SizeBounded ==
    ASSUME NEW c \in Chunk
    PROVE  Size(c) \in Nat /\ Size(c) <= ChunkSize
<1>1. ChunkSize \in Nat \ {0} /\ NumItems \in Nat \ {0} BY JobAssumption
<1> DEFINE a == NumItems + ChunkSize - 1
<1>2. a \in Int BY <1>1
<1>3. PICK q \in Int, r \in 0..ChunkSize - 1 : q = a \div ChunkSize /\ r = a % ChunkSize
  BY <1>1, <1>2
<1>4. a = ChunkSize * q + r BY <1>1, <1>2, <1>3
<1>5. NumChunks = q BY <1>3 DEF NumChunks
<1>6. c \in 1..q BY <1>5 DEF Chunk
<1>7. CASE c < q BY <1>1, <1>5, <1>7 DEF Size
<1>8. CASE c = q
  <2>1. Size(c) = NumItems - ChunkSize * (q - 1) BY <1>5, <1>8 DEF Size
  <2>2. ChunkSize * (q - 1) = ChunkSize * q - ChunkSize BY <1>1
  <2>3. ChunkSize * q = NumItems + ChunkSize - 1 - r /\ ChunkSize * q \in Int
    BY <1>1, <1>4
  <2>4. Size(c) = 1 + r BY <1>1, <2>1, <2>2, <2>3
  <2> QED BY <1>1, <2>4
<1> QED BY <1>6, <1>7, <1>8

LEMMA PriceBounded ==
    MaxPrice \in Nat /\ \A p \in Provider : Price[p] \in Nat /\ Price[p] <= MaxPrice
<1> DEFINE P == {Price[p] : p \in Provider}
<1>1. P \in SUBSET Nat BY SwarmAssumption
<1>2. P # {}
  <2>1. Provider # {} BY JobAssumption, FS_EmptySet
  <2> QED BY <2>1
<1>3. IsFiniteSet(P)
  <2>1. Price \in Surjection(Provider, P) BY SwarmAssumption DEF Surjection
  <2> HIDE DEF P
  <2> QED BY <2>1, FS_Surjection, ProvidersFinite
<1>4. PICK m \in P : \A n \in P : n <= m
  <2> HIDE DEF P
  <2> QED BY <1>1, <1>2, <1>3, HasGreatest
<1>5. m \in P /\ \A n \in P : m >= n BY <1>1, <1>4
<1>6. MaxPrice \in P /\ \A n \in P : MaxPrice >= n
  <2>1. MaxPrice = Max(P) BY DEF MaxPrice
  <2> HIDE DEF P
  <2> QED BY <1>5, <2>1 DEF Max
<1> QED BY <1>1, <1>6

\* The most a payment can be worth.
Dearest == MaxPrice * ChunkSize

LEMMA Times ==
    ASSUME NEW a \in Nat, NEW b \in Nat, NEW m \in Nat, NEW n \in Nat, a <= m, b <= n
    PROVE  a * b \in Nat /\ m * n \in Nat /\ a * b <= m * n
<1>1. a * b \in Nat /\ a * n \in Nat /\ m * n \in Nat OBVIOUS
<1>2. a * b <= a * n
  <2>1. PICK d \in Nat : n = b + d
    <3>1. n - b \in Nat /\ n = b + (n - b) OBVIOUS
    <3> QED BY <3>1
  <2>2. a * n = a * b + a * d /\ a * d \in Nat BY <2>1
  <2> QED BY <1>1, <2>2
<1>3. a * n <= m * n
  <2>1. PICK d \in Nat : m = a + d
    <3>1. m - a \in Nat /\ m = a + (m - a) OBVIOUS
    <3> QED BY <3>1
  <2>2. m * n = a * n + d * n /\ d * n \in Nat BY <2>1
  <2> QED BY <1>1, <2>2
<1> QED BY <1>1, <1>2, <1>3

LEMMA AmountBounded ==
    /\ Dearest \in Nat
    /\ \A p \in Provider, c \in Chunk : Amount(p, c) \in Nat /\ Amount(p, c) <= Dearest
<1>1. MaxPrice \in Nat /\ ChunkSize \in Nat BY PriceBounded, JobAssumption
<1>2. Dearest \in Nat BY <1>1, Times DEF Dearest
<1>3. ASSUME NEW p \in Provider, NEW c \in Chunk
      PROVE  Amount(p, c) \in Nat /\ Amount(p, c) <= Dearest
  <2>1. /\ Price[p] \in Nat /\ Price[p] <= MaxPrice
        /\ Size(c) \in Nat /\ Size(c) <= ChunkSize
    BY PriceBounded, SizeBounded
  <2>2. /\ Price[p] * Size(c) \in Nat
        /\ Price[p] * Size(c) <= MaxPrice * ChunkSize
    BY <1>1, <2>1, Times
  <2> QED BY <2>2 DEF Amount, Dearest
<1> QED BY <1>2, <1>3

LEMMA PaymentsFinite ==
    \A S \in SUBSET Payment : IsFiniteSet(S)
<1> DEFINE T == (Provider \X Chunk) \X (1..MaxAttemptsPerProvider)
           f == [x \in Payment |-> <<<<x.to, x.chunk>>, x.try>>]
<1>1. IsFiniteSet(Chunk)
  <2>1. NumChunks \in Int
    <3>1. ChunkSize \in Nat \ {0} /\ NumItems + ChunkSize - 1 \in Int BY JobAssumption
    <3> QED BY <3>1 DEF NumChunks
  <2>2. PICK one \in Int : one = 1 OBVIOUS
  <2>3. IsFiniteSet(one..NumChunks) BY <2>1, FS_Interval
  <2> QED BY <2>2, <2>3 DEF Chunk
<1>2. IsFiniteSet(1..MaxAttemptsPerProvider)
  <2>1. PICK one \in Int, two \in Int : one = 1 /\ two = 2 OBVIOUS
  <2>2. IsFiniteSet(one..two) BY FS_Interval
  <2> QED BY <2>1, <2>2 DEF MaxAttemptsPerProvider
<1>3. IsFiniteSet(Provider \X Chunk) BY <1>1, ProvidersFinite, FS_Product
<1>4. IsFiniteSet(T) BY <1>2, <1>3, FS_Product
<1>5. f \in [Payment -> T] BY DEF Payment
<1>6. ASSUME NEW x \in Payment, NEW y \in Payment, f[x] = f[y] PROVE x = y
  <2>1. x.to = y.to /\ x.chunk = y.chunk /\ x.try = y.try BY <1>6
  <2> QED BY <2>1 DEF Payment
<1>7. f \in Injection(Payment, T) BY <1>5, <1>6 DEF Injection, IsInjective
<1> HIDE DEF f, T
<1>8. IsFiniteSet(Payment) BY <1>4, <1>7, FS_Injection
<1> QED BY <1>8, FS_Subset

LEMMA TotalOf ==
    ASSUME NEW S \in SUBSET Payment
    PROVE  /\ Credits(S) \in SUBSET (S \X (1..Dearest))
           /\ IsFiniteSet(Credits(S)) /\ Total(S) \in Nat
<1>1. Credits(S) \in SUBSET (S \X (1..Dearest))
  <2> SUFFICES ASSUME NEW y \in Credits(S) PROVE y \in S \X (1..Dearest) OBVIOUS
  <2>1. PICK x \in S : y \in {x} \X (1..Amount(x.to, x.chunk)) BY DEF Credits
  <2>2. x.to \in Provider /\ x.chunk \in Chunk BY DEF Payment
  <2>3. Amount(x.to, x.chunk) \in Nat /\ Amount(x.to, x.chunk) <= Dearest
        /\ Dearest \in Nat
    BY <2>2, AmountBounded
  <2>4. (1..Amount(x.to, x.chunk)) \subseteq 1..Dearest BY <2>3
  <2> QED BY <2>1, <2>4
<1>2. IsFiniteSet(1..Dearest)
  <2>1. PICK one \in Int : one = 1 OBVIOUS
  <2>2. IsFiniteSet(one..Dearest) BY AmountBounded, FS_Interval
  <2> QED BY <2>1, <2>2
<1>3. IsFiniteSet(S \X (1..Dearest)) BY <1>2, PaymentsFinite, FS_Product
<1>4. IsFiniteSet(Credits(S)) BY <1>1, <1>3, FS_Subset
<1>5. Total(S) \in Nat BY <1>4, FS_CardinalityType DEF Total
<1> QED BY <1>1, <1>4, <1>5

LEMMA TotalEmpty == Total({}) = 0
<1>1. Credits({}) = {} BY DEF Credits
<1> QED BY <1>1, FS_EmptySet DEF Total

\* A payment that is not in yet adds what it is worth.
LEMMA TotalAdd ==
    ASSUME NEW S \in SUBSET Payment, NEW x \in Payment, x \notin S
    PROVE  Total(S \cup {x}) = Total(S) + Amount(x.to, x.chunk)
<1> DEFINE n == Amount(x.to, x.chunk)
           new == {x} \X (1..n)
<1>1. n \in Nat
  <2>1. x.to \in Provider /\ x.chunk \in Chunk BY DEF Payment
  <2> QED BY <2>1, AmountBounded
<1> HIDE DEF n
<1>2. IsFiniteSet(new) /\ Cardinality(new) = n
  <2>1. IsFiniteSet(1..n) /\ Cardinality(1..n) = n
    <3>1. PICK one \in Int : one = 1 OBVIOUS
    <3>2. IsFiniteSet(one..n) /\ Cardinality(one..n) = IF one > n THEN 0 ELSE n - one + 1
      BY <1>1, FS_Interval
    <3> QED BY <1>1, <3>1, <3>2
  <2>2. IsFiniteSet({x}) /\ Cardinality({x}) = 1 BY FS_Singleton
  <2>3. IsFiniteSet(new) /\ Cardinality(new) = Cardinality({x}) * Cardinality(1..n)
    BY <2>1, <2>2, FS_Product
  <2> QED BY <1>1, <2>1, <2>2, <2>3
<1>3. Credits(S \cup {x}) = Credits(S) \cup new
  BY DEF Credits, new, n
<1>4. Credits(S) \cap new = {} BY DEF Credits
<1>5. IsFiniteSet(Credits(S)) /\ Total(S) \in Nat BY TotalOf
<1> HIDE DEF new
<1>6. Cardinality(Credits(S) \cup new)
        = Cardinality(Credits(S)) + Cardinality(new) - Cardinality(Credits(S) \cap new)
  BY <1>2, <1>5, FS_Union
<1>7. Cardinality(Credits(S) \cap new) = 0 BY <1>4, FS_EmptySet
<1>8. Cardinality(Credits(S) \cup new) = Total(S) + n
  BY <1>1, <1>2, <1>5, <1>6, <1>7 DEF Total
<1>9. Total(S \cup {x}) = Cardinality(Credits(S) \cup new) BY <1>3 DEF Total
<1> QED BY <1>8, <1>9 DEF n

LEMMA TotalMonotone ==
    ASSUME NEW S \in SUBSET Payment, NEW T \in SUBSET S
    PROVE  Total(T) <= Total(S)
<1>1. Credits(T) \in SUBSET Credits(S) BY DEF Credits
<1>2. IsFiniteSet(Credits(S)) BY TotalOf
<1> QED BY <1>1, <1>2, FS_Subset DEF Total

----------------------------------------------------------------------------
\* What is paid and what is under way.

\* A payment that was signed was kept, came to nothing or is under way.
Tracked == signed \subseteq held \cup failed \cup UnderWay

TriesCounted == \A x \in signed : x.try <= attempts[x.chunk][x.to]

Apart == UnderWay \cap failed = {}

\* spent counts the payments whose request was answered.
Settled == spent = Total(held \ (failed \cup UnderWay))

Books == Tracked /\ TriesCounted /\ Apart /\ Settled /\ SpentWithinBalance

LEMMA UnderWayTyped ==
    ASSUME IInv
    PROVE  /\ signed \in SUBSET Payment /\ UnderWay \in SUBSET Payment
           /\ held \in SUBSET Payment
           /\ held \ (failed \cup UnderWay) \in SUBSET held
           /\ Total(UnderWay) \in Nat /\ Total(held) \in Nat
           /\ Total(held \ (failed \cup UnderWay)) \in Nat
<1>1. /\ signed \in SUBSET Payment /\ UnderWay \in SUBSET Payment
      /\ held \in SUBSET Payment
      /\ held \ (failed \cup UnderWay) \in SUBSET Payment
  BY DEF IInv, TypeOK, UnderWay
<1> QED BY <1>1, TotalOf

\* Every payment under way has its place on the board, and none shares it.
LEMMA UnderWayCovered ==
    ASSUME IInv
    PROVE  /\ Cardinality(Taken) \in Nat
           /\ Total(UnderWay) <= Cardinality(Taken) * Dearest
<1> DEFINE C == Credits(UnderWay)
           T == Taken \X (1..Dearest)
           f == [y \in C |-> <<<<y[1].chunk, y[1].to>>, y[2]>>]
<1>1. IsFiniteSet(Taken) /\ Cardinality(Taken) \in Nat
  <2>1. IsFiniteSet(Chunk)
    <3>1. NumChunks \in Int
      <4>1. ChunkSize \in Nat \ {0} /\ NumItems + ChunkSize - 1 \in Int BY JobAssumption
      <4> QED BY <4>1 DEF NumChunks
    <3>2. PICK one \in Int : one = 1 OBVIOUS
    <3>3. IsFiniteSet(one..NumChunks) BY <3>1, FS_Interval
    <3> QED BY <3>2, <3>3 DEF Chunk
  <2>2. IsFiniteSet(Chunk \X Provider) BY <2>1, ProvidersFinite, FS_Product
  <2>3. Taken \in SUBSET (Chunk \X Provider) BY DEF Taken, IInv, TypeOK
  <2> QED BY <2>2, <2>3, FS_Subset, FS_CardinalityType
<1>2. Dearest \in Nat BY AmountBounded
<1>3. IsFiniteSet(1..Dearest) /\ Cardinality(1..Dearest) = Dearest
  <2>1. PICK one \in Int : one = 1 OBVIOUS
  <2>2. IsFiniteSet(one..Dearest)
        /\ Cardinality(one..Dearest) = IF one > Dearest THEN 0 ELSE Dearest - one + 1
    BY <1>2, FS_Interval
  <2> QED BY <1>2, <2>1, <2>2
<1>4. IsFiniteSet(T) /\ Cardinality(T) = Cardinality(Taken) * Dearest
  <2>1. IsFiniteSet(T) /\ Cardinality(T) = Cardinality(Taken) * Cardinality(1..Dearest)
    BY <1>1, <1>3, FS_Product
  <2> QED BY <1>3, <2>1
<1>5. C \in SUBSET (UnderWay \X (1..Dearest)) /\ UnderWay \in SUBSET Payment
  BY UnderWayTyped, TotalOf
<1>6. ASSUME NEW y \in C PROVE <<<<y[1].chunk, y[1].to>>, y[2]>> \in T
  <2>1. y[1] \in UnderWay /\ y[2] \in 1..Dearest BY <1>5
  <2>2. y[1].chunk \in Chunk /\ y[1].to \in Provider BY <1>5, <2>1 DEF Payment
  <2>3. y[1].to \in inFlight[y[1].chunk]
    BY <2>1, <2>2 DEF UnderWay, IInv, Waiting
  <2> QED BY <2>1, <2>2, <2>3 DEF Taken
<1>7. f \in [C -> T]
  <2> HIDE DEF C, T
  <2> QED BY <1>6
<1>8. ASSUME NEW y \in C, NEW z \in C, f[y] = f[z] PROVE y = z
  <2>1. y[1].chunk = z[1].chunk /\ y[1].to = z[1].to /\ y[2] = z[2]
    <3> HIDE DEF C
    <3> QED BY <1>8
  <2>2. y[1] \in UnderWay /\ z[1] \in UnderWay BY <1>5
  <2>3. y[1].try = z[1].try BY <2>1, <2>2 DEF UnderWay
  <2>4. y[1] = z[1] BY <1>5, <2>1, <2>2, <2>3 DEF Payment
  <2> QED BY <1>5, <2>1, <2>4
<1> HIDE DEF C, T, f
<1>9. f \in Injection(C, T)
  <2>1. DOMAIN f = C BY <1>7
  <2> QED BY <1>7, <1>8, <2>1 DEF Injection, IsInjective
<1>10. Cardinality(C) <= Cardinality(T) BY <1>4, <1>9, FS_Injection
<1> QED BY <1>1, <1>4, <1>10 DEF Total, C

\* Steps that sign, keep and end nothing.
LEMMA NothingPaid ==
    ASSUME IInv, Books, UNCHANGED <<signed, failed, held, spent, serving>>,
           \A q \in Provider, d \in Chunk :
              /\ attempts[d][q] \in Nat /\ attempts'[d][q] \in Nat
              /\ attempts[d][q] <= attempts'[d][q]
              /\ serving[q] # 0 => attempts'[d][q] = attempts[d][q]
    PROVE  Books'
<1>1. \A x \in signed : x.to \in Provider /\ x.chunk \in Chunk /\ x.try \in Nat
  BY UnderWayTyped DEF Payment
<1>2. UnderWay' = UnderWay
  <2>1. \A x \in signed : serving[x.to] = x.chunk =>
          attempts'[x.chunk][x.to] = attempts[x.chunk][x.to]
    BY <1>1 DEF Chunk
  <2> QED BY <2>1 DEF UnderWay
<1>3. Tracked' /\ Apart' /\ Settled' /\ SpentWithinBalance'
  BY <1>2 DEF Books, Tracked, Apart, Settled, SpentWithinBalance
<1>4. TriesCounted'
  <2> SUFFICES ASSUME NEW x \in signed PROVE x.try <= attempts'[x.chunk][x.to]
    BY DEF TriesCounted
  <2>1. x.try <= attempts[x.chunk][x.to] BY DEF Books, TriesCounted
  <2> QED BY <1>1, <2>1
<1> QED BY <1>3, <1>4 DEF Books

LEMMA AttemptsTyped ==
    ASSUME TypeOK
    PROVE  \A d \in Chunk, q \in Provider : attempts[d][q] \in Nat
<1>1. \A d \in Chunk, q \in Provider : attempts[d][q] \in 0..MaxAttemptsPerProvider
  BY DEF TypeOK
<1> QED BY <1>1 DEF MaxAttemptsPerProvider

LEMMA GiveUpPaysNothing ==
    ASSUME IInv, Books, NEW p \in Provider, NEW c \in Chunk, GiveUp(p, c)
    PROVE  Books'
<1>1. /\ serving[p] = 0 /\ attempts[c][p] < MaxAttemptsPerProvider
      /\ attempts' = [attempts EXCEPT ![c][p] = @ + 1]
      /\ UNCHANGED <<signed, failed, held, spent, serving>>
  BY DEF GiveUp, AtLoopHead, Acquires, Open, CountAttempt, purse
<1>2. /\ attempts'[c][p] = attempts[c][p] + 1
      /\ \A q \in Provider, d \in Chunk :
            q # p \/ d # c => attempts'[d][q] = attempts[d][q]
  BY <1>1, AttemptCounted DEF IInv
<1>3. \A d \in Chunk, q \in Provider : attempts[d][q] \in Nat
  BY AttemptsTyped DEF IInv
<1>4. \A q \in Provider, d \in Chunk :
        /\ attempts[d][q] \in Nat /\ attempts'[d][q] \in Nat
        /\ attempts[d][q] <= attempts'[d][q]
        /\ serving[q] # 0 => attempts'[d][q] = attempts[d][q]
  <2> SUFFICES ASSUME NEW q \in Provider, NEW d \in Chunk
               PROVE  /\ attempts[d][q] \in Nat /\ attempts'[d][q] \in Nat
                      /\ attempts[d][q] <= attempts'[d][q]
                      /\ serving[q] # 0 => attempts'[d][q] = attempts[d][q]
    OBVIOUS
  <2>1. CASE q = p /\ d = c BY <1>1, <1>2, <1>3, <2>1
  <2>2. CASE q # p \/ d # c BY <1>2, <1>3, <2>2
  <2> QED BY <2>1, <2>2
<1> QED BY <1>1, <1>4, NothingPaid

\* The margin covers whatever is under way and not yet in the balance.
LEMMA SendPays ==
    ASSUME IInv, Books, NEW p \in Provider, NEW c \in Chunk, Send(p, c)
    PROVE  Books'
<1> DEFINE pay == [to |-> p, chunk |-> c, try |-> attempts[c][p] + 1]
<1>1. /\ serving[p] = 0 /\ attempts[c][p] < MaxAttemptsPerProvider
      /\ Affords(p, c)
      /\ attempts' = [attempts EXCEPT ![c][p] = @ + 1]
      /\ serving' = [serving EXCEPT ![p] = c]
      /\ signed' = signed \cup {pay}
      /\ UNCHANGED <<failed, held, spent>>
  BY DEF Send, AtLoopHead, MayGoOn, Acquires, Open, CountAttempt
<1>2. /\ attempts'[c][p] = attempts[c][p] + 1
      /\ attempts[c][p] + 1 \in 1..MaxAttemptsPerProvider
      /\ \A q \in Provider, d \in Chunk :
            q # p \/ d # c => attempts'[d][q] = attempts[d][q]
  BY <1>1, AttemptCounted DEF IInv
<1>3. \A d \in Chunk, q \in Provider : attempts[d][q] \in Nat
  BY AttemptsTyped DEF IInv
<1>4. /\ pay \in Payment /\ pay.to = p /\ pay.chunk = c
      /\ pay.try = attempts[c][p] + 1
  BY <1>2 DEF Payment
<1> HIDE DEF pay
<1>5. pay \notin signed
  <2> SUFFICES ASSUME pay \in signed PROVE FALSE OBVIOUS
  <2>1. pay.try <= attempts[c][p] BY <1>4 DEF Books, TriesCounted
  <2> QED BY <1>3, <1>4, <2>1
<1>6. \A x \in signed : /\ x.to \in Provider /\ x.chunk \in Chunk /\ x.try \in Nat
                        /\ x.try <= attempts[x.chunk][x.to]
  BY UnderWayTyped DEF Payment, Books, TriesCounted
<1>7. /\ serving'[p] = c
      /\ \A q \in Provider : q # p => serving'[q] = serving[q]
  BY <1>1 DEF IInv, TypeOK
<1>8. UnderWay' = UnderWay \cup {pay}
  <2>1. ASSUME NEW x \in signed
        PROVE  (serving'[x.to] = x.chunk /\ x.try = attempts'[x.chunk][x.to])
                 <=> (serving[x.to] = x.chunk /\ x.try = attempts[x.chunk][x.to])
    <3>1. CASE x.to # p BY <1>2, <1>6, <1>7, <3>1
    <3>2. CASE x.to = p
      <4>1. serving[x.to] # x.chunk BY <1>1, <1>6, <3>2 DEF Chunk
      <4>2. CASE x.chunk = c
        <5>1. x.try # attempts'[c][p] BY <1>2, <1>3, <1>6, <3>2, <4>2
        <5> QED BY <3>2, <4>1, <4>2, <5>1
      <4>3. CASE x.chunk # c BY <1>7, <3>2, <4>1, <4>3
      <4> QED BY <4>2, <4>3
    <3> QED BY <3>1, <3>2
  <2>2. serving'[pay.to] = pay.chunk /\ pay.try = attempts'[pay.chunk][pay.to]
    BY <1>2, <1>4, <1>7
  <2> QED BY <1>1, <2>1, <2>2 DEF UnderWay
<1>9. held \subseteq signed /\ failed \subseteq signed /\ UnderWay \subseteq signed
  BY DEF IInv, TypeOK, UnderWay
<1>10. Tracked' /\ Apart'
  BY <1>1, <1>5, <1>8, <1>9 DEF Books, Tracked, Apart
<1>11. TriesCounted'
  <2> SUFFICES ASSUME NEW x \in signed' PROVE x.try <= attempts'[x.chunk][x.to]
    BY DEF TriesCounted
  <2>1. CASE x = pay BY <1>2, <1>3, <1>4, <2>1
  <2>2. CASE x \in signed
    <3>1. CASE x.to = p /\ x.chunk = c BY <1>2, <1>3, <1>6, <2>2, <3>1
    <3>2. CASE x.to # p \/ x.chunk # c BY <1>2, <1>6, <2>2, <3>2
    <3> QED BY <3>1, <3>2
  <2> QED BY <1>1, <2>1, <2>2
<1>12. held \ (failed \cup UnderWay') = held \ (failed \cup UnderWay)
  BY <1>5, <1>8, <1>9
<1>13. Settled' BY <1>1, <1>12 DEF Books, Settled
<1>14. SpentWithinBalance'
  <2> DEFINE T == Cardinality(Taken)
             A == Amount(p, c)
             U == Total(UnderWay)
             H == Total(held)
  <2>1. T \in Nat /\ U <= T * Dearest BY UnderWayCovered
  <2>2. A \in Nat /\ Dearest \in Nat BY AmountBounded
  <2>3. U \in Nat /\ H \in Nat BY UnderWayTyped
  <2>4. Total(UnderWay') = U + A
    <3>1. pay \notin UnderWay BY <1>5, <1>9
    <3>2. Total(UnderWay \cup {pay}) = Total(UnderWay) + Amount(pay.to, pay.chunk)
      BY <1>4, <3>1, UnderWayTyped, TotalAdd
    <3> QED BY <1>4, <1>8, <3>2
  <2>5. spent \in Nat /\ spent <= H
    <3>1. spent = Total(held \ (failed \cup UnderWay)) BY DEF Books, Settled
    <3>2. Total(held \ (failed \cup UnderWay)) <= Total(held)
      BY UnderWayTyped, TotalMonotone
    <3> QED BY <3>1, <3>2, UnderWayTyped
  <2>6. Margin = T * Dearest + Dearest /\ T * Dearest \in Nat
    <3>1. MaxPrice \in Nat /\ ChunkSize \in Nat BY PriceBounded, JobAssumption
    <3> HIDE DEF T
    <3>2. ((T + 1) * MaxPrice) * ChunkSize = T * (MaxPrice * ChunkSize) + MaxPrice * ChunkSize
      BY <2>1, <3>1
    <3>3. T * Dearest \in Nat BY <2>1, <2>2
    <3> QED BY <3>2, <3>3 DEF Margin, Dearest, T
  <2>7. StartBalance - H - Margin >= A BY <1>1 DEF Affords, Balance
  <2> HIDE DEF T, A, U, H
  <2>8. StartBalance \in Nat BY JobAssumption
  <2>9. PICK k \in Nat : k = T * Dearest BY <2>6
  <2>10. U <= k /\ StartBalance - H - (k + Dearest) >= A BY <2>1, <2>6, <2>7, <2>9
  <2>11. spent + (U + A) <= StartBalance
    BY <2>2, <2>3, <2>5, <2>8, <2>10
  <2> QED BY <1>1, <2>4, <2>11 DEF SpentWithinBalance
<1> QED BY <1>10, <1>11, <1>13, <1>14 DEF Books

\* The payment that was waited for is under way no longer.
LEMMA WaitEnds ==
    ASSUME IInv, Books, NEW p \in Provider, NEW c \in Chunk, Arrives(p, c)
    PROVE  /\ PaymentOf(p, c) \in UnderWay
           /\ PaymentOf(p, c).to = p /\ PaymentOf(p, c).chunk = c
           /\ UnderWay' = UnderWay \ {PaymentOf(p, c)}
           /\ Total(UnderWay) = Total(UnderWay') + Amount(p, c)
           /\ Total(UnderWay') \in Nat /\ Amount(p, c) \in Nat
<1> DEFINE x == PaymentOf(p, c)
<1>1. /\ serving[p] = c /\ serving' = [serving EXCEPT ![p] = 0]
      /\ UNCHANGED <<attempts, signed>>
  BY DEF Arrives
<1>2. x \in signed /\ x.to = p /\ x.chunk = c /\ x.try = attempts[c][p]
  BY <1>1 DEF IInv, Waiting, PaymentOf
<1>3. x \in UnderWay BY <1>1, <1>2 DEF UnderWay
<1> HIDE DEF x
<1>4. \A y \in signed : y.to \in Provider /\ y.chunk \in Chunk BY UnderWayTyped DEF Payment
<1>5. /\ serving'[p] = 0
      /\ \A q \in Provider : q # p => serving'[q] = serving[q]
  BY <1>1 DEF IInv, TypeOK
<1>6. UnderWay' = UnderWay \ {x}
  <2>1. ASSUME NEW y \in UnderWay, y.to = p PROVE y = x
    <3>1. y \in Payment /\ x \in Payment BY <1>3, UnderWayTyped
    <3>2. y.chunk = c /\ y.try = attempts[c][p] BY <1>1, <2>1 DEF UnderWay
    <3> QED BY <1>2, <2>1, <3>1, <3>2 DEF Payment
  <2>2. \A y \in signed : y.to = p => serving'[y.to] # y.chunk BY <1>4, <1>5 DEF Chunk
  <2> QED BY <1>1, <1>2, <1>4, <1>5, <2>1, <2>2 DEF UnderWay
<1>7. Total(UnderWay) = Total(UnderWay') + Amount(p, c)
  <2> DEFINE S == UnderWay \ {x}
  <2>1. S \in SUBSET Payment /\ x \in Payment /\ x \notin S BY <1>3, UnderWayTyped
  <2>2. UnderWay = S \cup {x} BY <1>3
  <2> HIDE DEF S
  <2>3. Total(S \cup {x}) = Total(S) + Amount(x.to, x.chunk) BY <2>1, TotalAdd
  <2> QED BY <1>2, <1>6, <2>2, <2>3 DEF S
<1>8. Total(UnderWay') \in Nat
  <2>1. UnderWay' \in SUBSET Payment BY <1>6, UnderWayTyped
  <2> QED BY <2>1, TotalOf
<1>9. Amount(p, c) \in Nat BY AmountBounded
<1> QED BY <1>2, <1>3, <1>6, <1>7, <1>8, <1>9 DEF x

LEMMA TriesKept ==
    ASSUME Books, UNCHANGED <<signed, attempts>>
    PROVE  TriesCounted'
BY DEF Books, TriesCounted

\* A request that comes to nothing, in whatever way.
LEMMA LossPays ==
    ASSUME IInv, Books, NEW p \in Provider, NEW c \in Chunk, Fail(p, c) \/ Crash(p, c)
    PROVE  Books'
<1> DEFINE x == PaymentOf(p, c)
<1>1. /\ Arrives(p, c) /\ failed' = failed \cup {x}
      /\ UNCHANGED <<signed, attempts, held, spent>>
  BY DEF Fail, Crash, Resumes, Arrives
<1>2. /\ x \in UnderWay /\ UnderWay' = UnderWay \ {x}
      /\ Total(UnderWay) = Total(UnderWay') + Amount(p, c)
      /\ Total(UnderWay') \in Nat /\ Amount(p, c) \in Nat
  BY <1>1, WaitEnds
<1> HIDE DEF x
<1>3. Tracked' /\ Apart' BY <1>1, <1>2 DEF Books, Tracked, Apart
<1>4. held \ (failed' \cup UnderWay') = held \ (failed \cup UnderWay) BY <1>1, <1>2
<1>5. Settled' BY <1>1, <1>4 DEF Books, Settled
<1>6. SpentWithinBalance'
  <2>1. spent + Total(UnderWay) <= StartBalance BY DEF Books, SpentWithinBalance
  <2>2. spent \in Nat BY UnderWayTyped DEF Books, Settled
  <2>3. StartBalance \in Nat BY JobAssumption
  <2>4. spent + Total(UnderWay') <= StartBalance BY <1>2, <2>1, <2>2, <2>3
  <2> QED BY <1>1, <2>4 DEF SpentWithinBalance
<1> QED BY <1>1, <1>3, <1>5, <1>6, TriesKept DEF Books

LEMMA DeliverPays ==
    ASSUME IInv, Books, NEW p \in Provider, NEW c \in Chunk, NEW v \in Value, Deliver(p, c, v)
    PROVE  Books'
<1> DEFINE x == PaymentOf(p, c)
<1>1. /\ Arrives(p, c) /\ held' = held \cup {x} /\ spent' = spent + Amount(p, c)
      /\ UNCHANGED <<signed, attempts, failed>>
  BY DEF Deliver, Resumes, Arrives
<1>2. /\ x \in UnderWay /\ x.to = p /\ x.chunk = c /\ UnderWay' = UnderWay \ {x}
      /\ Total(UnderWay) = Total(UnderWay') + Amount(p, c)
      /\ Total(UnderWay') \in Nat /\ Amount(p, c) \in Nat
  BY <1>1, WaitEnds
<1> HIDE DEF x
<1>3. Tracked' /\ Apart' BY <1>1, <1>2 DEF Books, Tracked, Apart
<1>4. Settled'
  <2> DEFINE S == held \ (failed \cup UnderWay)
  <2>1. x \notin failed BY <1>2 DEF Books, Apart
  <2>2. held' \ (failed \cup UnderWay') = S \cup {x} BY <1>1, <1>2, <2>1
  <2>3. x \notin S /\ x \in Payment /\ S \in SUBSET Payment BY <1>2, UnderWayTyped
  <2>4. spent = Total(S) BY DEF Books, Settled
  <2> HIDE DEF S
  <2>5. Total(S \cup {x}) = Total(S) + Amount(x.to, x.chunk) BY <2>3, TotalAdd
  <2> QED BY <1>1, <1>2, <2>2, <2>4, <2>5 DEF Settled
<1>5. SpentWithinBalance'
  <2>1. spent + Total(UnderWay) <= StartBalance BY DEF Books, SpentWithinBalance
  <2>2. spent \in Nat BY UnderWayTyped DEF Books, Settled
  <2>3. StartBalance \in Nat BY JobAssumption
  <2>4. (spent + Amount(p, c)) + Total(UnderWay') <= StartBalance
    BY <1>2, <2>1, <2>2, <2>3
  <2> QED BY <1>1, <2>4 DEF SpentWithinBalance
<1> QED BY <1>1, <1>3, <1>4, <1>5, TriesKept DEF Books

\* A payment that comes back by gossip is one that failed or is under way.
LEMMA GossipPays ==
    ASSUME IInv, Books, NEW x \in Payment, Gossiped(x)
    PROVE  Books'
<1>1. /\ x \in signed \ held /\ held' = held \cup {x}
      /\ UNCHANGED <<signed, failed, spent, attempts, serving>>
  BY DEF Gossiped, board, crew
<1>2. UnderWay' = UnderWay BY <1>1 DEF UnderWay
<1>3. x \in failed \cup UnderWay BY <1>1 DEF Books, Tracked
<1>4. held' \ (failed \cup UnderWay) = held \ (failed \cup UnderWay) BY <1>1, <1>3
<1>5. Tracked' /\ Apart' /\ Settled' /\ SpentWithinBalance'
  BY <1>1, <1>2, <1>4 DEF Books, Tracked, Apart, Settled, SpentWithinBalance
<1> QED BY <1>1, <1>5, TriesKept DEF Books

LEMMA InitBooks == Init => Books
<1> SUFFICES ASSUME Init PROVE Books OBVIOUS
<1>1. signed = {} /\ failed = {} /\ held = {} /\ spent = 0 BY DEF Init
<1>2. UnderWay = {} /\ held \ (failed \cup UnderWay) = {} BY <1>1 DEF UnderWay
<1>3. Tracked /\ TriesCounted /\ Apart BY <1>1, <1>2 DEF Tracked, TriesCounted, Apart
<1>4. Settled BY <1>1, <1>2, TotalEmpty DEF Settled
<1>5. SpentWithinBalance
  BY <1>1, <1>2, TotalEmpty, JobAssumption DEF SpentWithinBalance
<1> QED BY <1>3, <1>4, <1>5 DEF Books

LEMMA NextBooks ==
    ASSUME IInv, Books, [Next]_vars
    PROVE  Books'
<1>1. ASSUME UNCHANGED <<signed, failed, held, spent, serving, attempts>> PROVE Books'
  <2>1. \A d \in Chunk, q \in Provider : attempts[d][q] \in Nat
    BY AttemptsTyped DEF IInv
  <2>2. \A q \in Provider, d \in Chunk :
          /\ attempts[d][q] \in Nat /\ attempts'[d][q] \in Nat
          /\ attempts[d][q] <= attempts'[d][q]
          /\ serving[q] # 0 => attempts'[d][q] = attempts[d][q]
    BY <1>1, <2>1
  <2> QED BY <1>1, <2>2, NothingPaid
<1>2. ASSUME NEW p \in Provider, Turn(p) PROVE Books'
  <2>1. CASE Return(p) \/ Nap(p)
    BY <1>1, <2>1 DEF Return, Nap, board, purse
  <2> QED BY <1>2, <2>1, GiveUpPaysNothing, SendPays DEF Turn
<1>3. ASSUME NEW p \in Provider, Answer(p) PROVE Books'
  <2>1. PICK c \in Chunk : \/ Refuse(p, c) \/ Unreachable(p, c) \/ Crash(p, c)
                           \/ \E v \in Value : Deliver(p, c, v)
    BY <1>3 DEF Answer
  <2>2. CASE Refuse(p, c) \/ Unreachable(p, c) \/ Crash(p, c)
    <3>1. Fail(p, c) \/ Crash(p, c) BY <2>2 DEF Refuse, Unreachable
    <3> QED BY <3>1, LossPays
  <2>3. CASE \E v \in Value : Deliver(p, c, v) BY <2>3, DeliverPays
  <2> QED BY <2>1, <2>2, <2>3
<1>4. CASE UNCHANGED vars BY <1>1, <1>4 DEF vars, purse, crew, board
<1> QED BY <1>2, <1>3, <1>4, GossipPays DEF Next

\* Whatever the prices, the chunks and the order of answers, what the job has
\* paid for and what it waits for stay within the balance it started with:
\* the margin covers every worker that signs beside the one that reads it.
THEOREM JobStaysWithinBalance == Spec => []SpentWithinBalance
<1>1. Spec => [](IInv /\ Books)
  <2>1. IInv /\ Books /\ [Next]_vars => (IInv /\ Books)' BY NextIInv, NextBooks
  <2> QED BY InitIInv, InitBooks, <2>1, PTL DEF Spec
<1>2. IInv /\ Books => SpentWithinBalance BY DEF Books
<1> QED BY <1>1, <1>2, PTL

----------------------------------------------------------------------------
\* What is left on the account.

LEMMA TotalDisjoint ==
    ASSUME NEW S \in SUBSET Payment, NEW T \in SUBSET Payment, S \cap T = {}
    PROVE  /\ Total(S \cup T) = Total(S) + Total(T)
           /\ Total(S) \in Nat /\ Total(T) \in Nat
<1>1. Credits(S \cup T) = Credits(S) \cup Credits(T) BY DEF Credits
<1>2. Credits(S) \cap Credits(T) = {}
  <2>1. \A y \in Credits(S) : y[1] \in S BY DEF Credits
  <2>2. \A y \in Credits(T) : y[1] \in T BY DEF Credits
  <2> QED BY <2>1, <2>2
<1>3. /\ IsFiniteSet(Credits(S)) /\ IsFiniteSet(Credits(T))
      /\ Total(S) \in Nat /\ Total(T) \in Nat
  BY TotalOf
<1>4. Cardinality(Credits(S) \cup Credits(T))
        = Cardinality(Credits(S)) + Cardinality(Credits(T))
            - Cardinality(Credits(S) \cap Credits(T))
  BY <1>3, FS_Union
<1>5. Cardinality(Credits(S) \cap Credits(T)) = 0 BY <1>2, FS_EmptySet
<1>6. Total(S \cup T) = Cardinality(Credits(S) \cup Credits(T)) BY <1>1 DEF Total
<1>7. Cardinality(Credits(S)) = Total(S) /\ Cardinality(Credits(T)) = Total(T) BY DEF Total
<1> QED BY <1>3, <1>4, <1>5, <1>6, <1>7

\* What is held is an answer's price, a failed request's or still waited for.
LEMMA HeldAccounted ==
    ASSUME IInv, Books
    PROVE  /\ Total(held) = spent + Total(held \cap UnderWay) + Total(failed \cap held)
           /\ Total(held \cap UnderWay) \in Nat /\ Total(failed \cap held) \in Nat
           /\ Total(held \cap UnderWay) <= Total(UnderWay)
<1> DEFINE A == held \ (failed \cup UnderWay)
           U == held \cap UnderWay
           F == failed \cap held
<1>1. A \in SUBSET Payment /\ U \in SUBSET Payment /\ F \in SUBSET Payment
  BY UnderWayTyped
<1>2. U \cap F = {} /\ A \cap (U \cup F) = {} /\ held = A \cup (U \cup F)
  BY DEF Books, Apart
<1>3. spent = Total(A) BY DEF Books, Settled
<1>4. U \in SUBSET UnderWay /\ UnderWay \in SUBSET Payment BY UnderWayTyped
<1> HIDE DEF A, U, F
<1>5. Total(U \cup F) = Total(U) + Total(F) /\ Total(U) \in Nat /\ Total(F) \in Nat
  BY <1>1, <1>2, TotalDisjoint
<1>6. Total(A \cup (U \cup F)) = Total(A) + Total(U \cup F) /\ Total(A) \in Nat
  BY <1>1, <1>2, TotalDisjoint
<1>7. Total(U) <= Total(UnderWay) BY <1>4, TotalMonotone
<1>8. Total(held) = (Total(A) + Total(U)) + Total(F) BY <1>2, <1>5, <1>6
<1> QED BY <1>3, <1>5, <1>7, <1>8 DEF U, F

\* Whatever is lost, late or gossiped, the account of a job is overdrawn by no
\* more than what failed requests turned out to have cost.
THEOREM OnlyFailuresOverdraw == Spec => []OverdrawnByFailures
<1>1. Spec => [](IInv /\ Books)
  <2>1. IInv /\ Books /\ [Next]_vars => (IInv /\ Books)' BY NextIInv, NextBooks
  <2> QED BY InitIInv, InitBooks, <2>1, PTL DEF Spec
<1>2. IInv /\ Books => OverdrawnByFailures
  <2> SUFFICES ASSUME IInv, Books PROVE OverdrawnByFailures OBVIOUS
  <2>1. spent + Total(UnderWay) <= StartBalance BY DEF Books, SpentWithinBalance
  <2>2. StartBalance \in Nat BY JobAssumption
  <2>3. spent \in Nat /\ Total(UnderWay) \in Nat
    BY UnderWayTyped DEF Books, Settled
  <2> QED BY <2>1, <2>2, <2>3, HeldAccounted DEF OverdrawnByFailures, Balance
<1> QED BY <1>1, <1>2, PTL

----------------------------------------------------------------------------
\* A job of one item, executed once.

LEMMA OneChunkIs ==
    ASSUME OneChunk
    PROVE  /\ Chunk = {1} /\ Fare \in Nat \ {0} /\ MaxPrice = Fare /\ Majority = 1
           /\ \A p \in Provider : Amount(p, 1) = Fare
           /\ Provider # {} /\ Redundancy = 1
<1>1. NumItems = 1 /\ ChunkSize = 1 /\ Redundancy = 1 BY DEF OneChunk
<1>2. NumChunks = 1 BY <1>1 DEF NumChunks
<1>3. Chunk = {1} BY <1>2 DEF Chunk
<1>4. Provider # {} BY JobAssumption, FS_EmptySet
<1>5. Fare \in Nat \ {0}
  <2>1. PICK p \in Provider : Price[p] = Fare BY <1>4 DEF OneChunk
  <2> QED BY <2>1, SwarmAssumption DEF OneChunk
<1>6. MaxPrice = Fare
  <2>1. {Price[p] : p \in Provider} = {Fare} BY <1>4 DEF OneChunk
  <2>2. MaxPrice = Max({Fare}) BY <2>1 DEF MaxPrice
  <2> QED BY <1>5, <2>2 DEF Max
<1>7. \A p \in Provider : Amount(p, 1) = Fare
  <2>1. Size(1) = 1 BY <1>1, <1>2 DEF Size
  <2> QED BY <1>5, <2>1 DEF Amount, OneChunk
<1>8. Majority = 1 BY <1>1 DEF Majority
<1> QED BY <1>1, <1>3, <1>4, <1>5, <1>6, <1>7, <1>8

\* Who has a place waits for an answer, and is there to take it, or has crashed.
Manned ==
    /\ \A p \in Provider, c \in Chunk : p \in inFlight[c] => serving[p] = c \/ p \in crashed
    /\ \A p \in Provider : serving[p] # 0 => p \notin over

\* A worker that is there has been struck for attempts that ended only.
StruckForAttempts ==
    \A p \in Provider \ over :
        /\ strikes[p] <= attempts[1][p]
        /\ serving[p] # 0 => strikes[p] < attempts[1][p]

\* Somebody has left an undecided job for want of credits only.
LeftBroke == over # {} /\ crashed = {} /\ ~AllDone => Balance < 2 * Fare

\* A crash keeps the chunk from being handed out again.
Wrecked == crashed # {} => inFlight[1] # {} /\ \A p \in Provider : serving[p] = 0

\* One answer decides the chunk, and nobody else was asked.
LastAnswer == AllDone => inFlight[1] = {}

\* The invariant of such a job.
OneInv == Manned /\ StruckForAttempts /\ LeftBroke /\ Wrecked /\ LastAnswer

\* What is known of it.
LEMMA OneFacts ==
    ASSUME OneChunk, IInv, OneInv
    PROVE  /\ AllDone <=> accepted[1] # NoResult
           /\ ~AllDone => Answered(1) = {} /\ needed[1] = 1
           /\ \A p \in Provider : serving[p] # 0 => p \in inFlight[1] /\ crashed = {}
           /\ crashed = {} => \A p \in Provider : p \in inFlight[1] => serving[p] # 0
           /\ crashed # {} => ~AllDone
           /\ \A p, q \in Provider : serving[p] # 0 /\ serving[q] # 0 => p = q
           /\ \A p \in Provider : serving[p] \in {0, 1}
<1>1. Chunk = {1} /\ Majority = 1 /\ Redundancy = 1 BY OneChunkIs
<1>2. AllDone <=> accepted[1] # NoResult BY <1>1 DEF AllDone
<1>3. ASSUME ~AllDone PROVE Answered(1) = {} /\ needed[1] = 1
  <2>1. Winners(results[1]) = {} BY <1>1, <1>2, <1>3 DEF IInv, Decided
  <2>2. Answered(1) = {}
    <3> SUFFICES ASSUME NEW p \in Provider, results[1][p] # NoResult PROVE FALSE
      BY DEF Answered
    <3> DEFINE v == results[1][p]
    <3>1. v \in Value BY <1>1 DEF IInv, TypeOK
    <3>2. p \in Votes(results[1], v) /\ Votes(results[1], v) \in SUBSET Provider BY DEF Votes
    <3>3. /\ Cardinality(Votes(results[1], v)) \in Nat
          /\ IsFiniteSet(Votes(results[1], v))
      BY <3>2, ProvidersFinite
    <3>4. Cardinality(Votes(results[1], v)) # 0 BY <3>2, <3>3, FS_EmptySet
    <3>5. v \in Winners(results[1]) BY <1>1, <3>1, <3>3, <3>4 DEF Winners
    <3> QED BY <2>1, <3>5
  <2>3. Cardinality(Answered(1)) = 0 BY <2>2, FS_EmptySet
  <2>4. needed[1] \in Nat /\ needed[1] >= 1
    <3>1. needed[1] \in Redundancy..(Redundancy + MaxExtraRounds) BY <1>1 DEF IInv, TypeOK
    <3> QED BY <1>1, <3>1 DEF MaxExtraRounds
  <2>5. needed[1] > 1 => 0 >= needed[1] - 1 BY <1>1, <2>3 DEF IInv, WidenedLate
  <2> QED BY <2>2, <2>4, <2>5
<1>4. \A p \in Provider : serving[p] \in {0, 1} BY <1>1 DEF IInv, TypeOK
<1>5. /\ \A p \in Provider : serving[p] # 0 => p \in inFlight[1] /\ crashed = {}
      /\ crashed = {} => \A p \in Provider : p \in inFlight[1] => serving[p] # 0
  BY <1>1, <1>4 DEF IInv, Waiting, OneInv, Manned, Wrecked
<1>6. ASSUME NEW p \in Provider, NEW q \in Provider, serving[p] # 0, serving[q] # 0, p # q
      PROVE  FALSE
  <2>1. p \in inFlight[1] /\ q \in inFlight[1] BY <1>5, <1>6
  <2>2. ~AllDone BY <2>1 DEF OneInv, LastAnswer
  <2>3. inFlight[1] \in SUBSET Provider BY <1>1 DEF IInv, TypeOK
  <2>4. IsFiniteSet(inFlight[1]) /\ Cardinality(inFlight[1]) \in Nat
    BY <2>3, ProvidersFinite
  <2>5. Cardinality(inFlight[1]) <= 1
    <3>1. Cardinality(Answered(1)) = 0 /\ needed[1] = 1 BY <1>3, <2>2, FS_EmptySet
    <3>2. Cardinality(Answered(1)) + Cardinality(inFlight[1]) <= needed[1]
      BY <1>1 DEF IInv, Seats
    <3> QED BY <2>4, <3>1, <3>2
  <2>6. Cardinality({p, q}) = 2
    <3>1. IsFiniteSet({p}) /\ Cardinality({p}) = 1 BY FS_Singleton
    <3>2. Cardinality({p} \cup {q}) = Cardinality({p}) + 1 BY <1>6, <3>1, FS_AddElement
    <3>3. {p} \cup {q} = {p, q} OBVIOUS
    <3> QED BY <3>1, <3>2, <3>3
  <2>7. {p, q} \in SUBSET inFlight[1] BY <2>1
  <2>8. Cardinality({p, q}) <= Cardinality(inFlight[1]) BY <2>4, <2>7, FS_Subset
  <2> QED BY <2>4, <2>5, <2>6, <2>8
<1>7. crashed # {} => ~AllDone BY DEF OneInv, Wrecked, LastAnswer
<1> QED BY <1>2, <1>3, <1>4, <1>5, <1>6, <1>7

\* A chunk is handed out only when nobody has it.
LEMMA FreeChunk ==
    ASSUME OneChunk, IInv, OneInv, NEW p \in Provider, NEW c \in Chunk, Acquires(p, c)
    PROVE  /\ c = 1 /\ ~AllDone /\ Margin = Fare
           /\ inFlight[1] = {} /\ \A q \in Provider : serving[q] = 0
           /\ crashed = {}
<1>1. Chunk = {1} /\ MaxPrice = Fare /\ Fare \in Nat /\ ChunkSize = 1
  BY OneChunkIs DEF OneChunk
<1>2. /\ c = 1 /\ accepted[1] = NoResult
      /\ Cardinality(Answered(1)) + Cardinality(inFlight[1]) < needed[1]
  BY <1>1 DEF Acquires, Open
<1>3. ~AllDone /\ Answered(1) = {} /\ needed[1] = 1 BY <1>2, OneFacts
<1>4. inFlight[1] \in SUBSET Provider BY <1>1 DEF IInv, TypeOK
<1>5. inFlight[1] = {}
  <2>1. Cardinality(Answered(1)) = 0 BY <1>3, FS_EmptySet
  <2>2. Cardinality(inFlight[1]) \in Nat /\ IsFiniteSet(inFlight[1])
    BY <1>4, ProvidersFinite
  <2>3. Cardinality(inFlight[1]) = 0 BY <1>2, <1>3, <2>1, <2>2
  <2> QED BY <2>2, <2>3, FS_EmptySet
<1>6. \A q \in Provider : serving[q] = 0 BY <1>5, OneFacts
<1>7. Margin = Fare
  <2>1. Taken = {} BY <1>1, <1>5 DEF Taken
  <2>2. Cardinality(Taken) = 0 BY <2>1, FS_EmptySet
  <2> QED BY <1>1, <2>2 DEF Margin
<1>8. crashed = {} BY <1>5 DEF OneInv, Wrecked
<1> QED BY <1>2, <1>3, <1>5, <1>6, <1>7, <1>8

\* Nobody leaves an undecided job with strikes.
LEMMA StaysOn ==
    ASSUME OneChunk, IInv, OneInv, NEW p \in Provider \ over, ~AllDone
    PROVE  MayGoOn(p)
<1>1. attempts[1][p] \in 0..MaxAttemptsPerProvider /\ strikes[p] \in 0..MaxProviderStrikes
  BY OneChunkIs DEF IInv, TypeOK
<1>2. strikes[p] <= attempts[1][p] BY DEF OneInv, StruckForAttempts
<1> QED BY <1>1, <1>2 DEF MayGoOn, MaxAttemptsPerProvider, MaxProviderStrikes

LEMMA BalanceTyped ==
    ASSUME IInv
    PROVE  Balance \in Int /\ Total(held) \in Nat /\ StartBalance \in Nat
BY UnderWayTyped, JobAssumption DEF Balance

LEMMA InitOneInv == OneChunk /\ Init => OneInv
<1> SUFFICES ASSUME OneChunk, Init PROVE OneInv OBVIOUS
<1>1. Chunk = {1} BY OneChunkIs
<1>2. Manned BY <1>1 DEF Manned, Init
<1>3. StruckForAttempts BY <1>1 DEF StruckForAttempts, Init
<1>4. LeftBroke /\ Wrecked /\ LastAnswer BY <1>1 DEF LeftBroke, Wrecked, LastAnswer, Init
<1> QED BY <1>2, <1>3, <1>4 DEF OneInv

LEMMA GiveUpOne ==
    ASSUME OneChunk, IInv, OneInv, NEW p \in Provider, NEW c \in Chunk, GiveUp(p, c)
    PROVE  OneInv' /\ Balance < 2 * Fare /\ Balance' = Balance /\ AllDone' = AllDone
<1>1. /\ p \notin over /\ Acquires(p, c) /\ ~Affords(p, c) /\ over' = over \cup {p}
      /\ attempts[c][p] < MaxAttemptsPerProvider
      /\ attempts' = [attempts EXCEPT ![c][p] = @ + 1]
      /\ strikes' = [strikes EXCEPT ![p] = MaxProviderStrikes]
      /\ UNCHANGED <<inFlight, accepted, serving, crashed, held>>
  BY DEF GiveUp, AtLoopHead, Acquires, Open, CountAttempt, purse
<1>2. c = 1 /\ Margin = Fare /\ inFlight[1] = {} /\ \A q \in Provider : serving[q] = 0
  BY <1>1, FreeChunk
<1>3. Chunk = {1} /\ Fare \in Nat /\ Amount(p, 1) = Fare BY OneChunkIs
<1>4. Balance < 2 * Fare BY <1>1, <1>2, <1>3, BalanceTyped DEF Affords
<1>5. Balance' = Balance /\ AllDone' = AllDone BY <1>1 DEF Balance, AllDone
<1>6. Manned' BY <1>1, <1>2, <1>3 DEF OneInv, Manned
<1>7. StruckForAttempts'
  <2>1. \A q \in Provider : q # p => attempts'[1][q] = attempts[1][q] /\ strikes'[q] = strikes[q]
    BY <1>1, <1>2, AttemptCounted DEF IInv, TypeOK
  <2> QED BY <1>1, <2>1 DEF OneInv, StruckForAttempts
<1>8. LeftBroke' BY <1>4, <1>5 DEF LeftBroke
<1>9. Wrecked' /\ LastAnswer' BY <1>1, <1>5 DEF OneInv, Wrecked, LastAnswer
<1> QED BY <1>4, <1>5, <1>6, <1>7, <1>8, <1>9 DEF OneInv

LEMMA SendOne ==
    ASSUME OneChunk, IInv, OneInv, NEW p \in Provider, NEW c \in Chunk, Send(p, c)
    PROVE  OneInv' /\ Balance >= 2 * Fare /\ Balance' = Balance /\ AllDone' = AllDone
<1>1. /\ p \notin over /\ Acquires(p, c) /\ Affords(p, c)
      /\ attempts[c][p] < MaxAttemptsPerProvider
      /\ attempts' = [attempts EXCEPT ![c][p] = @ + 1]
      /\ inFlight' = [inFlight EXCEPT ![c] = @ \cup {p}]
      /\ serving' = [serving EXCEPT ![p] = c]
      /\ UNCHANGED <<accepted, strikes, over, crashed, held>>
  BY DEF Send, AtLoopHead, Acquires, Open, CountAttempt
<1>2. /\ c = 1 /\ Margin = Fare /\ inFlight[1] = {} /\ ~AllDone /\ crashed = {}
      /\ \A q \in Provider : serving[q] = 0
  BY <1>1, FreeChunk
<1>3. Chunk = {1} /\ Fare \in Nat /\ Amount(p, 1) = Fare BY OneChunkIs
<1>4. Balance >= 2 * Fare BY <1>1, <1>2, <1>3, BalanceTyped DEF Affords
<1>5. Balance' = Balance /\ AllDone' = AllDone BY <1>1 DEF Balance, AllDone
<1>6. /\ inFlight'[1] = {p} /\ serving'[p] = 1
      /\ \A q \in Provider : q # p => serving'[q] = 0
  BY <1>1, <1>2, <1>3 DEF IInv, TypeOK
<1>7. Manned' BY <1>1, <1>3, <1>6 DEF Manned
<1>8. StruckForAttempts'
  <2>1. /\ attempts'[1][p] = attempts[1][p] + 1 /\ attempts[1][p] \in Nat
        /\ \A q \in Provider : q # p => attempts'[1][q] = attempts[1][q]
    <3>1. TypeOK BY DEF IInv
    <3>2. /\ attempts'[c][p] = attempts[c][p] + 1
          /\ \A q \in Provider : q # p => attempts'[c][q] = attempts[c][q]
      BY <1>1, <3>1, AttemptCounted
    <3>3. attempts[c][p] \in Nat BY <3>1, AttemptsTyped
    <3> QED BY <1>2, <3>2, <3>3
  <2>2. strikes[p] \in Nat /\ strikes[p] <= attempts[1][p]
    <3>1. strikes[p] \in 0..MaxProviderStrikes BY DEF IInv, TypeOK
    <3>2. strikes[p] \in Nat BY <3>1 DEF MaxProviderStrikes
    <3> QED BY <1>1, <3>2 DEF OneInv, StruckForAttempts
  <2> QED BY <1>1, <1>6, <2>1, <2>2 DEF OneInv, StruckForAttempts
<1>9. LeftBroke' /\ Wrecked' /\ LastAnswer'
  BY <1>1, <1>2, <1>5 DEF OneInv, LeftBroke, Wrecked, LastAnswer
<1> QED BY <1>4, <1>5, <1>7, <1>8, <1>9 DEF OneInv

LEMMA EndsOne ==
    ASSUME OneChunk, IInv, OneInv, NEW p \in Provider, NEW c \in Chunk, Arrives(p, c)
    PROVE  /\ c = 1 /\ p \notin over /\ ~AllDone /\ serving[p] # 0 /\ crashed = {}
           /\ \A q \in Provider : serving'[q] = 0 /\ (q # p => serving[q] = 0)
           /\ inFlight[1] = {p}
           /\ strikes[p] \in Nat /\ attempts[1][p] \in Nat /\ strikes[p] < attempts[1][p]
<1>1. serving[p] = c /\ serving' = [serving EXCEPT ![p] = 0] BY DEF Arrives
<1>2. c = 1 /\ serving[p] # 0 BY <1>1, OneChunkIs
<1>3. p \notin over BY <1>2 DEF OneInv, Manned
<1>4. \A q \in Provider : q # p => serving[q] = 0 BY <1>2, OneFacts
<1>5. \A q \in Provider : serving'[q] = 0 BY <1>1, <1>4 DEF IInv, TypeOK
<1>6. inFlight[1] = {p}
  <2>1. inFlight[1] \in SUBSET Provider BY OneChunkIs DEF IInv, TypeOK
  <2> QED BY <1>2, <1>4, <2>1, OneFacts
<1>7. ~AllDone /\ crashed = {} BY <1>2, <1>6 DEF OneInv, Wrecked, LastAnswer
<1>8. strikes[p] \in Nat /\ attempts[1][p] \in Nat
  <2>1. strikes[p] \in 0..MaxProviderStrikes BY DEF IInv, TypeOK
  <2>2. attempts[1][p] \in Nat BY OneChunkIs, AttemptsTyped DEF IInv
  <2> QED BY <2>1, <2>2 DEF MaxProviderStrikes
<1>9. strikes[p] < attempts[1][p] BY <1>2, <1>3 DEF OneInv, StruckForAttempts
<1> QED BY <1>2, <1>3, <1>4, <1>5, <1>6, <1>7, <1>8, <1>9

LEMMA FailOne ==
    ASSUME OneChunk, IInv, OneInv, NEW p \in Provider, NEW c \in Chunk, Fail(p, c)
    PROVE  OneInv' /\ Balance' = Balance /\ AllDone' = AllDone
<1>1. /\ Resumes(p, c) /\ inFlight' = [inFlight EXCEPT ![c] = @ \ {p}]
      /\ strikes' = [strikes EXCEPT ![p] = @ + 1]
      /\ UNCHANGED <<accepted, held, over, crashed, attempts>> /\ Arrives(p, c)
  BY DEF Fail, Resumes, Arrives, LeaveFlight
<1>2. /\ c = 1 /\ p \notin over /\ ~AllDone /\ inFlight[1] = {p} /\ crashed = {}
      /\ \A q \in Provider : serving'[q] = 0
      /\ strikes[p] \in Nat /\ attempts[1][p] \in Nat /\ strikes[p] < attempts[1][p]
  BY <1>1, EndsOne
<1>3. Chunk = {1} BY OneChunkIs
<1>4. Balance' = Balance /\ AllDone' = AllDone BY <1>1 DEF Balance, AllDone
<1>5. inFlight'[1] = {} BY <1>1, <1>2, <1>3 DEF IInv, TypeOK
<1>6. Manned' BY <1>2, <1>3, <1>5 DEF Manned
<1>7. StruckForAttempts'
  <2>1. /\ strikes'[p] = strikes[p] + 1
        /\ \A q \in Provider : q # p => strikes'[q] = strikes[q]
    BY <1>1 DEF IInv, TypeOK
  <2>2. strikes'[p] <= attempts'[1][p] BY <1>1, <1>2, <2>1
  <2> QED BY <1>1, <1>2, <2>1, <2>2 DEF OneInv, StruckForAttempts
<1>8. LeftBroke' /\ Wrecked' /\ LastAnswer'
  BY <1>1, <1>2, <1>4, <1>5 DEF OneInv, LeftBroke, Wrecked, LastAnswer
<1> QED BY <1>4, <1>6, <1>7, <1>8 DEF OneInv

\* The first answer carries the vote.
LEMMA DeliverOne ==
    ASSUME OneChunk, IInv, OneInv, NEW p \in Provider, NEW c \in Chunk, NEW v \in Value,
           Deliver(p, c, v)
    PROVE  OneInv' /\ AllDone'
<1>1. /\ Resumes(p, c) /\ inFlight' = [inFlight EXCEPT ![c] = @ \ {p}]
      /\ results' = [results EXCEPT ![c][p] = v] /\ Tally(c, results'[c])
      /\ strikes' = [strikes EXCEPT ![p] = 0]
      /\ UNCHANGED <<over, crashed, attempts>> /\ Arrives(p, c)
  BY DEF Deliver, Resumes, Arrives
<1>2. /\ c = 1 /\ inFlight[1] = {p} /\ crashed = {} /\ \A q \in Provider : serving'[q] = 0
      /\ attempts[1][p] \in Nat
  BY <1>1, EndsOne
<1>3. Chunk = {1} /\ Majority = 1 BY OneChunkIs
<1>4. v \in Winners(results'[c])
  <2>1. results'[c][p] = v BY <1>1 DEF IInv, TypeOK
  <2>2. p \in Votes(results'[c], v) /\ Votes(results'[c], v) \in SUBSET Provider
    BY <2>1 DEF Votes
  <2>3. /\ Cardinality(Votes(results'[c], v)) \in Nat
        /\ IsFiniteSet(Votes(results'[c], v))
    BY <2>2, ProvidersFinite
  <2>4. Cardinality(Votes(results'[c], v)) # 0 BY <2>2, <2>3, FS_EmptySet
  <2> QED BY <1>3, <2>3, <2>4 DEF Winners
<1>5. AllDone'
  <2>1. PICK w \in Winners(results'[c]) : accepted' = [accepted EXCEPT ![c] = w]
    BY <1>1, <1>4 DEF Tally
  <2>2. accepted'[1] = w BY <1>2, <1>3, <2>1 DEF IInv, TypeOK
  <2>3. w # NoResult BY <2>1, SwarmAssumption DEF Winners
  <2> QED BY <1>3, <2>2, <2>3 DEF AllDone
<1>6. inFlight'[1] = {} BY <1>1, <1>2, <1>3 DEF IInv, TypeOK
<1>7. Manned' BY <1>2, <1>3, <1>6 DEF Manned
<1>8. StruckForAttempts'
  <2>1. /\ strikes'[p] = 0
        /\ \A q \in Provider : q # p => strikes'[q] = strikes[q]
    BY <1>1 DEF IInv, TypeOK
  <2> QED BY <1>1, <1>2, <2>1 DEF OneInv, StruckForAttempts
<1>9. LeftBroke' /\ Wrecked' /\ LastAnswer'
  BY <1>1, <1>2, <1>5, <1>6 DEF LeftBroke, Wrecked, LastAnswer
<1> QED BY <1>5, <1>7, <1>8, <1>9 DEF OneInv

LEMMA CrashOne ==
    ASSUME OneChunk, IInv, OneInv, NEW p \in Provider, NEW c \in Chunk, Crash(p, c)
    PROVE  OneInv' /\ Balance' = Balance /\ ~AllDone'
<1>1. /\ Arrives(p, c) /\ over' = over \cup {p} /\ crashed' = crashed \cup {p}
      /\ UNCHANGED <<accepted, held, attempts, inFlight, strikes>>
  BY DEF Crash, Arrives
<1>2. /\ ~AllDone /\ inFlight[1] = {p} /\ \A q \in Provider : serving'[q] = 0
  BY <1>1, EndsOne
<1>3. Chunk = {1} BY OneChunkIs
<1>4. Balance' = Balance /\ ~AllDone' BY <1>1, <1>2 DEF Balance, AllDone
<1>5. Manned' BY <1>1, <1>2, <1>3 DEF Manned
<1>6. StruckForAttempts' BY <1>1, <1>2 DEF OneInv, StruckForAttempts
<1>7. LeftBroke' /\ Wrecked' /\ LastAnswer'
  BY <1>1, <1>2, <1>4 DEF LeftBroke, Wrecked, LastAnswer
<1> QED BY <1>4, <1>5, <1>6, <1>7 DEF OneInv

\* A payment that comes by gossip is one credit note more.
LEMMA GossipOne ==
    ASSUME OneChunk, IInv, NEW x \in Payment, Gossiped(x)
    PROVE  Balance' = Balance - Fare /\ Balance' <= Balance
<1>1. x \in signed \ held /\ held' = held \cup {x} BY DEF Gossiped
<1>2. held \in SUBSET Payment BY UnderWayTyped
<1>3. Amount(x.to, x.chunk) = Fare /\ Fare \in Nat BY OneChunkIs DEF Payment
<1>4. Total(held \cup {x}) = Total(held) + Amount(x.to, x.chunk) BY <1>1, <1>2, TotalAdd
<1>5. Balance' = StartBalance - Total(held \cup {x}) BY <1>1 DEF Balance
<1>6. Balance = StartBalance - Total(held) BY DEF Balance
<1> QED BY <1>3, <1>4, <1>5, <1>6, BalanceTyped

LEMMA SameOne ==
    ASSUME OneInv, UNCHANGED <<inFlight, serving, over, crashed, strikes, attempts, accepted>>,
           Balance' = Balance \/ (Balance' <= Balance /\ Balance' \in Int /\ Balance \in Int),
           OneChunk
    PROVE  OneInv'
<1>1. AllDone' = AllDone BY DEF AllDone
<1>2. Manned' /\ StruckForAttempts' BY DEF OneInv, Manned, StruckForAttempts
<1>3. LeftBroke' BY <1>1, OneChunkIs DEF OneInv, LeftBroke
<1>4. Wrecked' /\ LastAnswer' BY <1>1 DEF OneInv, Wrecked, LastAnswer
<1> QED BY <1>2, <1>3, <1>4 DEF OneInv

LEMMA ReturnOne ==
    ASSUME OneChunk, IInv, OneInv, NEW p \in Provider, Return(p)
    PROVE  AllDone /\ OneInv' /\ UNCHANGED <<board, purse, serving, crashed>>
<1>1. /\ p \notin over /\ serving[p] = 0 /\ ~MayGoOn(p) /\ over' = over \cup {p}
      /\ UNCHANGED <<board, purse, serving, crashed, strikes>>
  BY DEF Return, AtLoopHead
<1>2. AllDone BY <1>1, StaysOn
<1>3. UNCHANGED <<inFlight, accepted, attempts>> BY <1>1 DEF board
<1>4. AllDone' BY <1>2, <1>3 DEF AllDone
<1>5. Manned' BY <1>1, <1>3 DEF OneInv, Manned
<1>6. StruckForAttempts' BY <1>1, <1>3 DEF OneInv, StruckForAttempts
<1>7. LeftBroke' /\ Wrecked' /\ LastAnswer'
  BY <1>1, <1>2, <1>3, <1>4 DEF OneInv, LeftBroke, Wrecked, LastAnswer
<1> QED BY <1>1, <1>2, <1>5, <1>6, <1>7 DEF OneInv

LEMMA NextOneInv ==
    ASSUME OneChunk, IInv, OneInv, [Next]_vars
    PROVE  OneInv'
<1>1. ASSUME NEW p \in Provider, Turn(p) PROVE OneInv'
  <2>1. CASE Nap(p)
    <3>1. /\ UNCHANGED <<inFlight, serving, over, crashed, strikes, attempts, accepted>>
          /\ Balance' = Balance
      BY <2>1 DEF Nap, AtLoopHead, board, purse, Balance
    <3> QED BY <3>1, SameOne
  <2> QED BY <1>1, <2>1, ReturnOne, GiveUpOne, SendOne DEF Turn
<1>2. ASSUME NEW p \in Provider, Answer(p) PROVE OneInv'
  <2>1. PICK c \in Chunk : \/ Refuse(p, c) \/ Unreachable(p, c) \/ Crash(p, c)
                           \/ \E v \in Value : Deliver(p, c, v)
    BY <1>2 DEF Answer
  <2>2. CASE Refuse(p, c) \/ Unreachable(p, c)
    <3>1. Fail(p, c) BY <2>2 DEF Refuse, Unreachable
    <3> QED BY <3>1, FailOne
  <2> QED BY <2>1, <2>2, CrashOne, DeliverOne
<1>3. ASSUME NEW x \in Payment, Gossiped(x) PROVE OneInv'
  <2>1. UNCHANGED <<inFlight, serving, over, crashed, strikes, attempts, accepted>>
    BY <1>3 DEF Gossiped, board, crew
  <2>2. Balance' = Balance - Fare /\ Balance' <= Balance BY <1>3, GossipOne
  <2>3. Balance' \in Int /\ Balance \in Int BY <2>2, BalanceTyped, OneChunkIs
  <2> QED BY <2>1, <2>2, <2>3, SameOne
<1>4. CASE UNCHANGED vars
  <2>1. /\ UNCHANGED <<inFlight, serving, over, crashed, strikes, attempts, accepted>>
        /\ Balance' = Balance
    BY <1>4 DEF vars, board, crew, purse, Balance
  <2> QED BY <2>1, SameOne
<1> QED BY <1>1, <1>2, <1>3, <1>4 DEF Next

LEMMA OneInvariance == ASSUME OneChunk PROVE Spec => [](IInv /\ Books /\ OneInv)
<1>1. Init => IInv /\ Books /\ OneInv BY InitIInv, InitBooks, InitOneInv
<1>2. IInv /\ Books /\ OneInv /\ [Next]_vars => (IInv /\ Books /\ OneInv)'
  BY NextIInv, NextBooks, NextOneInv
<1> QED BY <1>1, <1>2, PTL DEF Spec

----------------------------------------------------------------------------
\* The job as a call of ConsumerCalls.

JobBook == [c \in {"job"} |-> AsCall]

JobDue == Total(failed \ held)

JobBack == Total(failed \cap held)

\* A call of a job.
Rec(where, n, seen) ==
    [how |-> "batch", at |-> where, left |-> n, told |-> FALSE, seen |-> seen]

Left == MaxAttemptsPerProvider * Cardinality(Provider) - Cardinality(signed)

LEMMA CallIs ==
    /\ crashed # {} => AsCall = Rec("crashed", 0, FALSE)
    /\ crashed = {} =>
          /\ AllDone => AsCall = Rec("done", 0, FALSE)
          /\ ~AllDone /\ over = Provider => AsCall = Rec("raised", 0, FALSE)
          /\ ~AllDone /\ over # Provider =>
                /\ signed = {} => AsCall = Rec("looking", 0, FALSE)
                /\ signed # {} /\ UnderWay = {} => AsCall = Rec("choosing", Left, FALSE)
                /\ signed # {} /\ UnderWay # {} =>
                      AsCall = Rec("asking", Left, UnderWay \subseteq held)
<1>1. CASE crashed = {} /\ AllDone
  <2>1. Progress = "done" BY <1>1 DEF Progress
  <2> QED BY <1>1, <2>1 DEF AsCall, Rec
<1>2. CASE crashed = {} /\ ~AllDone /\ over = Provider
  <2>1. Progress = "raised" BY <1>2 DEF Progress
  <2> QED BY <1>2, <2>1 DEF AsCall, Rec
<1>3. CASE crashed = {} /\ ~AllDone /\ over # Provider
  <2>1. Progress = IF signed = {} THEN "looking"
                   ELSE IF UnderWay # {} THEN "asking" ELSE "choosing"
    BY <1>3 DEF Progress
  <2>2. CASE signed = {}
    <3>1. Progress = "looking" BY <2>1, <2>2
    <3> QED BY <1>3, <2>2, <3>1 DEF AsCall, Rec
  <2>3. CASE signed # {} /\ UnderWay = {}
    <3>1. Progress = "choosing" BY <2>1, <2>3
    <3> QED BY <1>3, <2>3, <3>1 DEF AsCall, Rec, Left
  <2>4. CASE signed # {} /\ UnderWay # {}
    <3>1. Progress = "asking" BY <2>1, <2>4
    <3> QED BY <1>3, <2>4, <3>1 DEF AsCall, Rec, Left
  <2> QED BY <1>3, <2>2, <2>3, <2>4
<1>4. CASE crashed # {}
  <2>1. Progress = "crashed" BY <1>4 DEF Progress
  <2> QED BY <1>4, <2>1 DEF AsCall, Rec
<1> QED BY <1>1, <1>2, <1>3, <1>4

LEMMA CallIsNext ==
    /\ crashed' # {} => AsCall' = Rec("crashed", 0, FALSE)
    /\ crashed' = {} =>
          /\ AllDone' => AsCall' = Rec("done", 0, FALSE)
          /\ ~AllDone' /\ over' = Provider => AsCall' = Rec("raised", 0, FALSE)
          /\ ~AllDone' /\ over' # Provider =>
                /\ signed' = {} => AsCall' = Rec("looking", 0, FALSE)
                /\ signed' # {} /\ UnderWay' = {} => AsCall' = Rec("choosing", Left', FALSE)
                /\ signed' # {} /\ UnderWay' # {} =>
                      AsCall' = Rec("asking", Left', UnderWay' \subseteq held')
<1>1. CASE crashed' = {} /\ AllDone'
  <2>1. Progress' = "done" BY <1>1 DEF Progress
  <2> QED BY <1>1, <2>1 DEF AsCall, Rec
<1>2. CASE crashed' = {} /\ ~AllDone' /\ over' = Provider
  <2>1. Progress' = "raised" BY <1>2 DEF Progress
  <2> QED BY <1>2, <2>1 DEF AsCall, Rec
<1>3. CASE crashed' = {} /\ ~AllDone' /\ over' # Provider
  <2>1. Progress' = IF signed' = {} THEN "looking"
                    ELSE IF UnderWay' # {} THEN "asking" ELSE "choosing"
    BY <1>3 DEF Progress
  <2>2. CASE signed' = {}
    <3>1. Progress' = "looking" BY <2>1, <2>2
    <3> QED BY <1>3, <2>2, <3>1 DEF AsCall, Rec
  <2>3. CASE signed' # {} /\ UnderWay' = {}
    <3>1. Progress' = "choosing" BY <2>1, <2>3
    <3> QED BY <1>3, <2>3, <3>1 DEF AsCall, Rec, Left
  <2>4. CASE signed' # {} /\ UnderWay' # {}
    <3>1. Progress' = "asking" BY <2>1, <2>4
    <3> QED BY <1>3, <2>4, <3>1 DEF AsCall, Rec, Left
  <2> QED BY <1>3, <2>2, <2>3, <2>4
<1>4. CASE crashed' # {}
  <2>1. Progress' = "crashed" BY <1>4 DEF Progress
  <2> QED BY <1>4, <2>1 DEF AsCall, Rec
<1> QED BY <1>1, <1>2, <1>3, <1>4

\* Nothing the account knows of.
SameAccount == Balance' = Balance /\ JobDue' = JobDue /\ JobBack' = JobBack

LEMMA SameIs ==
    ASSUME AsCall' = AsCall, SameAccount
    PROVE  Calls!CallsStep
<1>1. JobBook' = JobBook BY DEF JobBook
<1> QED BY <1>1 DEF Calls!CallsStep, Calls!account, JobBook, JobDue, JobBack, SameAccount

LEMMA JobTurns ==
    /\ JobBook["job"] = AsCall
    /\ \A X : AsCall' = X => JobBook' = [JobBook EXCEPT !["job"] = X]
BY DEF JobBook

LEMMA GoesIs ==
    ASSUME NEW n, NEW has, AsCall.how = "batch",
           AsCall' = IF n > 0 /\ has >= 2 * Fare THEN Rec("asking", n - 1, FALSE)
                                                  ELSE Rec("raised", 0, FALSE)
    PROVE  Calls!Goes("job", n, has)
<1>1. JobBook["job"] = AsCall BY JobTurns
<1>2. Calls!Covered("batch", has) <=> has >= 2 * Fare BY DEF Calls!Covered
<1>3. Calls!On("job", "asking", n - 1) = Rec("asking", n - 1, FALSE)
  BY <1>1 DEF Calls!On, Calls!Fresh, JobBook, Rec
<1>4. Calls!Over("job", "raised") = Rec("raised", 0, FALSE)
  BY <1>1 DEF Calls!Over, Calls!On, Calls!Fresh, JobBook, Rec
<1> DEFINE X == IF n > 0 /\ has >= 2 * Fare THEN Rec("asking", n - 1, FALSE)
                                            ELSE Rec("raised", 0, FALSE)
<1>5. JobBook' = [JobBook EXCEPT !["job"] = X] BY JobTurns
<1> QED BY <1>1, <1>2, <1>3, <1>4, <1>5 DEF Calls!Goes, JobBook

LEMMA FindIs ==
    ASSUME AsCall = Rec("looking", 0, FALSE), NEW n \in 0..Cardinality(Provider),
           AsCall' = IF MaxAttemptsPerProvider * n > 0 /\ Balance >= 2 * Fare
                     THEN Rec("asking", MaxAttemptsPerProvider * n - 1, FALSE)
                     ELSE Rec("raised", 0, FALSE),
           SameAccount
    PROVE  Calls!CallsStep
<1>1. AsCall.how = "batch" /\ AsCall.at = "looking" /\ JobBook["job"] = AsCall
  BY JobTurns DEF Rec
<1>2. Calls!Goes("job", MaxAttemptsPerProvider * n, Balance) BY <1>1, GoesIs
<1>3. Calls!Find("job")
  BY <1>1, <1>2 DEF Calls!Find, Calls!account, Calls!MaxAttempts, MaxAttemptsPerProvider,
                    JobBook, JobDue, JobBack, SameAccount
<1> QED BY <1>3 DEF Calls!CallsStep, Calls!CallsNext, Calls!Move

LEMMA ChooseIs ==
    ASSUME NEW n, AsCall = Rec("choosing", n, FALSE),
           AsCall' = IF n > 0 /\ Balance >= 2 * Fare THEN Rec("asking", n - 1, FALSE)
                                                     ELSE Rec("raised", 0, FALSE),
           SameAccount
    PROVE  Calls!CallsStep
<1>1. AsCall.how = "batch" /\ AsCall.at = "choosing" /\ AsCall.left = n /\ JobBook["job"] = AsCall
  BY JobTurns DEF Rec
<1>2. Calls!Goes("job", n, Balance) BY <1>1, GoesIs
<1>3. Calls!Choose("job")
  BY <1>1, <1>2 DEF Calls!Choose, Calls!account, JobBook, JobDue, JobBack, SameAccount
<1> QED BY <1>3 DEF Calls!CallsStep, Calls!CallsNext, Calls!Move

Sees(r) == [r EXCEPT !.seen = TRUE]

RecSeen(n) == Rec("asking", n, TRUE)

LEMMA RecSees == ASSUME NEW n PROVE Sees(Rec("asking", n, FALSE)) = RecSeen(n)
<1> DEFINE R == [how : {"batch"}, at : {"asking"}, left : {n}, told : {FALSE}, seen : BOOLEAN]
           r == Rec("asking", n, FALSE)
           b == [r EXCEPT !.seen = TRUE]
<1>1. r \in R /\ r.seen = FALSE BY DEF Rec
<1>2. /\ r.how = "batch" /\ r.at = "asking" /\ r.left = n /\ r.told = FALSE
  BY DEF Rec
<1> HIDE DEF r
<1>3. b \in R BY <1>1
<1>4. b.how = r.how /\ b.at = r.at /\ b.left = r.left /\ b.told = r.told /\ b.seen = TRUE
  BY <1>1
<1> HIDE DEF b
<1>5. \A q \in R : q = [how |-> q.how, at |-> q.at, left |-> q.left, told |-> q.told,
                       seen |-> q.seen]
  OBVIOUS
<1>6. b = Rec("asking", n, TRUE) BY <1>2, <1>3, <1>4, <1>5 DEF Rec
<1> QED BY <1>6 DEF b, r, Sees, RecSeen

LEMMA SeeIs ==
    ASSUME NEW n, AsCall = Rec("asking", n, FALSE), AsCall' = Rec("asking", n, TRUE),
           Balance' = Balance - Fare, JobDue' = JobDue, JobBack' = JobBack
    PROVE  Calls!CallsStep
<1>1. AsCall.at = "asking" /\ AsCall.seen = FALSE /\ JobBook["job"] = AsCall
  BY JobTurns DEF Rec
<1>2. AsCall' = RecSeen(n) BY DEF RecSeen
<1>3. AsCall' = Sees(AsCall) BY <1>2, RecSees
<1>4. JobBook' = [JobBook EXCEPT !["job"] = Sees(AsCall)] BY <1>3, JobTurns
<1>5. Calls!See("job")
  BY <1>1, <1>4 DEF Calls!See, Calls!Signing, Sees, JobBook, JobDue, JobBack
<1> QED BY <1>5 DEF Calls!CallsStep, Calls!CallsNext, Calls!Quiet

LEMMA FinishIs ==
    ASSUME NEW n, NEW seen, AsCall = Rec("asking", n, seen),
           AsCall' = Rec("done", 0, FALSE),
           Balance' = IF seen THEN Balance ELSE Balance - Fare,
           JobDue' = JobDue, JobBack' = JobBack
    PROVE  Calls!CallsStep
<1>1. /\ AsCall.at = "asking" /\ AsCall.seen = seen /\ AsCall.how = "batch"
      /\ JobBook["job"] = AsCall
  BY JobTurns DEF Rec
<1>2. Calls!Over("job", "done") = Rec("done", 0, FALSE)
  BY <1>1 DEF Calls!Over, Calls!On, Calls!Fresh, JobBook, Rec
<1>3. JobBook' = [JobBook EXCEPT !["job"] = Rec("done", 0, FALSE)] BY JobTurns
<1>4. Calls!Finish("job")
  BY <1>1, <1>2, <1>3
     DEF Calls!Finish, Calls!Signing, Calls!Booked, JobBook, JobDue, JobBack
<1> QED BY <1>4 DEF Calls!CallsStep, Calls!CallsNext, Calls!Move

LEMMA FailIs ==
    ASSUME NEW n, NEW seen, AsCall = Rec("asking", n, seen),
           AsCall' = Rec("choosing", n, FALSE), Balance' = Balance,
           IF seen THEN JobBack' = JobBack + Fare /\ JobDue' = JobDue
                   ELSE JobDue' = JobDue + Fare /\ JobBack' = JobBack
    PROVE  Calls!CallsStep
<1>1. /\ AsCall.at = "asking" /\ AsCall.seen = seen /\ AsCall.how = "batch"
      /\ AsCall.left = n /\ AsCall.told = FALSE /\ JobBook["job"] = AsCall
  BY JobTurns DEF Rec
<1>2. Calls!On("job", "choosing", n) = Rec("choosing", n, FALSE)
  BY <1>1 DEF Calls!On, Calls!Fresh, JobBook, Rec
<1>3. JobBook' = [JobBook EXCEPT !["job"] = Rec("choosing", n, FALSE)] BY JobTurns
<1>4. Calls!Forgotten("job") BY <1>1 DEF Calls!Forgotten, JobBook, JobDue, JobBack
<1>5. Calls!Fail("job")
  BY <1>1, <1>2, <1>3, <1>4 DEF Calls!Fail, Calls!Signing, JobBook
<1> QED BY <1>5 DEF Calls!CallsStep, Calls!CallsNext, Calls!Move

LEMMA CrashIs ==
    ASSUME NEW n, NEW seen, AsCall = Rec("asking", n, seen),
           AsCall' = Rec("crashed", 0, FALSE), Balance' = Balance,
           IF seen THEN JobBack' = JobBack + Fare /\ JobDue' = JobDue
                   ELSE JobDue' = JobDue + Fare /\ JobBack' = JobBack
    PROVE  Calls!CallsStep
<1>1. /\ AsCall.at = "asking" /\ AsCall.seen = seen /\ AsCall.how = "batch"
      /\ JobBook["job"] = AsCall
  BY JobTurns DEF Rec
<1>2. Calls!Over("job", "crashed") = Rec("crashed", 0, FALSE)
  BY <1>1 DEF Calls!Over, Calls!On, Calls!Fresh, JobBook, Rec
<1>3. JobBook' = [JobBook EXCEPT !["job"] = Rec("crashed", 0, FALSE)] BY JobTurns
<1>4. Calls!Forgotten("job") BY <1>1 DEF Calls!Forgotten, JobBook, JobDue, JobBack
<1>5. Calls!Crash("job")
  BY <1>1, <1>2, <1>3, <1>4 DEF Calls!Crash, Calls!Signing, JobBook
<1> QED BY <1>5 DEF Calls!CallsStep, Calls!CallsNext, Calls!Move

LEMMA PullIs ==
    ASSUME AsCall' = AsCall, Balance' = Balance - Fare, JobBack' = JobBack + Fare,
           JobDue' = JobDue - Fare, JobDue >= Fare
    PROVE  Calls!CallsStep
<1>1. JobBook' = JobBook BY DEF JobBook
<1>2. Calls!Pull BY <1>1 DEF Calls!Pull, JobBook, JobDue, JobBack
<1> QED BY <1>2 DEF Calls!CallsStep, Calls!CallsNext

\* The bookkeeping of an attempt that ends, and of gossip.
LEMMA PayOne ==
    ASSUME OneChunk, NEW S \in SUBSET Payment, NEW x \in Payment, x \notin S
    PROVE  /\ Total(S \cup {x}) = Total(S) + Fare
           /\ Total(S) \in Nat /\ Fare \in Nat
<1>1. Amount(x.to, x.chunk) = Fare /\ Fare \in Nat BY OneChunkIs DEF Payment
<1>2. Total(S \cup {x}) = Total(S) + Amount(x.to, x.chunk) BY TotalAdd
<1>3. Total(S) \in Nat BY TotalOf
<1> QED BY <1>1, <1>2, <1>3

\* There are twice as many payments to make as there are providers.
LEMMA PaymentsCounted ==
    ASSUME OneChunk
    PROVE  /\ IsFiniteSet(Payment) /\ Cardinality(Payment) \in Nat
           /\ Cardinality(Payment) <= MaxAttemptsPerProvider * Cardinality(Provider)
           /\ Cardinality(Provider) \in Nat \ {0}
<1> DEFINE T == Provider \X (1..MaxAttemptsPerProvider)
           f == [x \in Payment |-> <<x.to, x.try>>]
<1>1. IsFiniteSet(1..MaxAttemptsPerProvider) /\ Cardinality(1..MaxAttemptsPerProvider) = 2
  <2>1. PICK one \in Int, two \in Int : one = 1 /\ two = 2 OBVIOUS
  <2>2. /\ IsFiniteSet(one..two)
        /\ Cardinality(one..two) = IF one > two THEN 0 ELSE two - one + 1
    BY FS_Interval
  <2> QED BY <2>1, <2>2 DEF MaxAttemptsPerProvider
<1>2. Cardinality(Provider) \in Nat \ {0}
  <2>1. Cardinality(Provider) # 0 BY OneChunkIs, ProvidersFinite, FS_EmptySet
  <2>2. Cardinality(Provider) \in Nat BY ProvidersFinite, FS_CardinalityType
  <2> QED BY <2>1, <2>2
<1>3. IsFiniteSet(T) /\ Cardinality(T) = Cardinality(Provider) * 2
  <2>1. /\ IsFiniteSet(T)
        /\ Cardinality(T) = Cardinality(Provider) * Cardinality(1..MaxAttemptsPerProvider)
    BY <1>1, ProvidersFinite, FS_Product
  <2> QED BY <1>1, <2>1
<1>4. f \in [Payment -> T] BY DEF Payment
<1>5. ASSUME NEW x \in Payment, NEW y \in Payment, f[x] = f[y] PROVE x = y
  <2>1. x.to = y.to /\ x.try = y.try BY <1>5
  <2>2. x.chunk = y.chunk BY OneChunkIs DEF Payment
  <2> QED BY <2>1, <2>2 DEF Payment
<1>6. f \in Injection(Payment, T) BY <1>4, <1>5 DEF Injection, IsInjective
<1> HIDE DEF f, T
<1>7. Cardinality(Payment) <= Cardinality(T) BY <1>3, <1>6, FS_Injection
<1>8. IsFiniteSet(Payment) /\ Cardinality(Payment) \in Nat
  BY PaymentsFinite, FS_CardinalityType
<1> QED BY <1>2, <1>3, <1>7, <1>8 DEF MaxAttemptsPerProvider

\* The only payment under way, if any.
LEMMA OneUnderWay ==
    ASSUME OneChunk, IInv, OneInv, NEW x \in UnderWay
    PROVE  /\ UnderWay = {x} /\ ~AllDone /\ over # Provider /\ signed # {}
           /\ x \in Payment /\ serving[x.to] # 0 /\ crashed = {}
<1>1. UnderWay \in SUBSET Payment /\ UnderWay \subseteq signed BY UnderWayTyped DEF UnderWay
<1>2. \A y \in UnderWay : y.to \in Provider /\ y.chunk = 1 /\ serving[y.to] # 0
  BY <1>1, OneChunkIs DEF UnderWay, Payment
<1>3. \A y \in UnderWay : y = x
  <2> SUFFICES ASSUME NEW y \in UnderWay PROVE y = x OBVIOUS
  <2>1. y.to = x.to BY <1>2, OneFacts
  <2>2. y.chunk = x.chunk /\ y.try = x.try BY <1>2, <2>1 DEF UnderWay
  <2>3. x \in Payment /\ y \in Payment BY <1>1
  <2> QED BY <2>1, <2>2, <2>3 DEF Payment
<1>4. x.to \in inFlight[1] BY <1>2, OneFacts
<1>5. ~AllDone BY <1>4 DEF OneInv, LastAnswer
<1>6. over # Provider BY <1>2 DEF OneInv, Manned
<1>7. crashed = {} BY <1>2 DEF OneInv, Wrecked
<1> QED BY <1>1, <1>2, <1>3, <1>5, <1>6, <1>7

\* What changes none of it is not to be seen.
LEMMA QuietIsCall ==
    ASSUME UNCHANGED <<accepted, attempts, serving, signed, failed, held, crashed>>,
           over' = over \/ AllDone
    PROVE  Calls!CallsStep
<1>1. AllDone' = AllDone /\ UnderWay' = UnderWay BY DEF AllDone, UnderWay
<1>2. SameAccount BY DEF SameAccount, Balance, JobDue, JobBack
<1>3. Left' = Left BY DEF Left
<1>4. AsCall' = AsCall
  <2>1. CASE AllDone BY <1>1, <2>1, CallIs, CallIsNext
  <2>2. CASE over' = over
    <3>1. Progress' = Progress BY <1>1, <2>2 DEF Progress
    <3> QED BY <1>1, <3>1 DEF AsCall
  <2> QED BY <2>1, <2>2
<1> QED BY <1>2, <1>4, SameIs

\* A worker that gives up is noticed when it is the last to leave.
LEMMA GiveUpIsCall ==
    ASSUME OneChunk, IInv, Books, OneInv, NEW p \in Provider, NEW c \in Chunk, GiveUp(p, c)
    PROVE  Calls!CallsStep
<1>1. /\ p \notin over /\ Acquires(p, c)
      /\ UNCHANGED <<accepted, serving, signed, failed, held, crashed>>
  BY DEF GiveUp, AtLoopHead, purse
<1>2. c = 1 /\ ~AllDone /\ crashed = {} /\ \A q \in Provider : serving[q] = 0
  BY <1>1, FreeChunk
<1>3. Balance < 2 * Fare /\ AllDone' = AllDone BY GiveUpOne
<1>4. UnderWay = {} /\ UnderWay' = {}
  <2>1. \A x \in signed : x.to \in Provider /\ x.chunk = 1
    BY UnderWayTyped, OneChunkIs DEF Payment
  <2> QED BY <1>1, <1>2, <2>1 DEF UnderWay
<1>5. SameAccount BY <1>1 DEF SameAccount, Balance, JobDue, JobBack
<1>6. over # Provider BY <1>1
<1>7. Left' = Left BY <1>1 DEF Left
<1>8. ~(Balance >= 2 * Fare) BY <1>3, BalanceTyped, OneChunkIs
<1>9. CASE over' = Provider
  <2>1. AsCall' = Rec("raised", 0, FALSE) BY <1>1, <1>2, <1>3, <1>9, CallIsNext
  <2>2. CASE signed = {}
    <3>1. AsCall = Rec("looking", 0, FALSE) BY <1>2, <1>6, <2>2, CallIs
    <3>2. PICK n \in 0..Cardinality(Provider) : n = 0 BY PaymentsCounted
    <3> QED BY <1>5, <1>8, <2>1, <3>1, <3>2, FindIs
  <2>3. CASE signed # {}
    <3>1. AsCall = Rec("choosing", Left, FALSE) BY <1>2, <1>4, <1>6, <2>3, CallIs
    <3> QED BY <1>5, <1>8, <2>1, <3>1, ChooseIs
  <2> QED BY <2>2, <2>3
<1>10. CASE over' # Provider
  <2>1. AsCall' = AsCall
    <3>1. CASE signed = {} BY <1>1, <1>2, <1>3, <1>6, <1>10, <3>1, CallIs, CallIsNext
    <3>2. CASE signed # {}
      BY <1>1, <1>2, <1>3, <1>4, <1>6, <1>7, <1>10, <3>2, CallIs, CallIsNext
    <3> QED BY <3>1, <3>2
  <2> QED BY <1>5, <2>1, SameIs
<1> QED BY <1>9, <1>10

\* A payment is signed with twice its price on the account.
LEMMA SendIsCall ==
    ASSUME OneChunk, IInv, Books, OneInv, NEW p \in Provider, NEW c \in Chunk, Send(p, c)
    PROVE  Calls!CallsStep
<1> DEFINE pay == [to |-> p, chunk |-> c, try |-> attempts[c][p] + 1]
<1>1. /\ p \notin over /\ Acquires(p, c) /\ attempts[c][p] < MaxAttemptsPerProvider
      /\ attempts' = [attempts EXCEPT ![c][p] = @ + 1]
      /\ serving' = [serving EXCEPT ![p] = c]
      /\ signed' = signed \cup {pay}
      /\ UNCHANGED <<accepted, over, crashed, failed, held>>
  BY DEF Send, AtLoopHead, Acquires, Open, CountAttempt
<1>2. c = 1 /\ ~AllDone /\ crashed = {} /\ \A q \in Provider : serving[q] = 0
  BY <1>1, FreeChunk
<1>3. Balance >= 2 * Fare /\ AllDone' = AllDone BY SendOne
<1>4. /\ attempts'[c][p] = attempts[c][p] + 1 /\ attempts[c][p] \in Nat
      /\ attempts[c][p] + 1 \in 1..MaxAttemptsPerProvider
  <2>1. TypeOK BY DEF IInv
  <2> QED BY <1>1, <2>1, AttemptCounted, AttemptsTyped
<1>5. /\ pay \in Payment /\ pay.to = p /\ pay.chunk = c
      /\ pay.try = attempts[c][p] + 1
  BY <1>4 DEF Payment
<1> HIDE DEF pay
<1>6. pay \notin signed
  <2> SUFFICES ASSUME pay \in signed PROVE FALSE OBVIOUS
  <2>1. pay.try <= attempts[c][p] BY <1>5 DEF Books, TriesCounted
  <2> QED BY <1>4, <1>5, <2>1
<1>7. signed \in SUBSET Payment /\ held \subseteq signed
  BY UnderWayTyped DEF IInv, TypeOK
<1>8. UnderWay = {}
  <2>1. \A x \in signed : x.to \in Provider /\ x.chunk = 1
    BY <1>7, OneChunkIs DEF Payment
  <2> QED BY <1>2, <2>1 DEF UnderWay
<1>9. pay \in UnderWay'
  <2>1. serving'[p] = c BY <1>1 DEF IInv, TypeOK
  <2> QED BY <1>1, <1>4, <1>5, <2>1 DEF UnderWay
<1>10. (UnderWay' \subseteq held') = FALSE BY <1>1, <1>6, <1>7, <1>9
<1>11. Cardinality(signed') = Cardinality(signed) + 1 /\ Cardinality(signed) \in Nat
       /\ Cardinality(signed') <= MaxAttemptsPerProvider * Cardinality(Provider)
  <2>1. IsFiniteSet(signed) BY <1>7, PaymentsFinite
  <2>2. Cardinality(signed \cup {pay}) = Cardinality(signed) + 1 BY <1>6, <2>1, FS_AddElement
  <2>3. Cardinality(signed) \in Nat BY <2>1, FS_CardinalityType
  <2>4. (signed \cup {pay}) \in SUBSET Payment BY <1>5, <1>7
  <2>5. Cardinality(signed \cup {pay}) <= Cardinality(Payment)
    BY <2>4, PaymentsCounted, FS_Subset
  <2>6. MaxAttemptsPerProvider * Cardinality(Provider) \in Nat
    BY PaymentsCounted DEF MaxAttemptsPerProvider
  <2> QED BY <1>1, <2>2, <2>3, <2>5, <2>6, PaymentsCounted
<1>12. PICK m \in Nat : m = MaxAttemptsPerProvider * Cardinality(Provider) /\ m > 0
  BY PaymentsCounted DEF MaxAttemptsPerProvider
<1>13. Left' = Left - 1 /\ Left > 0 /\ Left = m - Cardinality(signed)
  BY <1>11, <1>12 DEF Left
<1>14. over # Provider BY <1>1
<1>15. SameAccount BY <1>1 DEF SameAccount, Balance, JobDue, JobBack
<1>16. AsCall' = Rec("asking", Left', FALSE)
  <2>1. signed' # {} /\ UnderWay' # {} BY <1>1, <1>9
  <2>2. AsCall' = Rec("asking", Left', UnderWay' \subseteq held')
    BY <1>1, <1>2, <1>3, <1>14, <2>1, CallIsNext
  <2> QED BY <1>10, <2>2
<1>17. CASE signed = {}
  <2>1. AsCall = Rec("looking", 0, FALSE) BY <1>2, <1>14, <1>17, CallIs
  <2>2. Cardinality(signed) = 0 BY <1>17, FS_EmptySet
  <2>3. Left' = MaxAttemptsPerProvider * Cardinality(Provider) - 1 BY <1>12, <1>13, <2>2
  <2>4. AsCall' = Rec("asking", MaxAttemptsPerProvider * Cardinality(Provider) - 1, FALSE)
    BY <1>16, <2>3
  <2>5. PICK n \in 0..Cardinality(Provider) : n = Cardinality(Provider) BY PaymentsCounted
  <2>6. MaxAttemptsPerProvider * n > 0 BY <1>12, <2>5
  <2>7. AsCall' = IF MaxAttemptsPerProvider * n > 0 /\ Balance >= 2 * Fare
                  THEN Rec("asking", MaxAttemptsPerProvider * n - 1, FALSE)
                  ELSE Rec("raised", 0, FALSE)
    BY <1>3, <2>4, <2>5, <2>6
  <2> QED BY <1>15, <2>1, <2>7, FindIs
<1>18. CASE signed # {}
  <2>1. AsCall = Rec("choosing", Left, FALSE) BY <1>2, <1>8, <1>14, <1>18, CallIs
  <2>2. AsCall' = IF Left > 0 /\ Balance >= 2 * Fare THEN Rec("asking", Left - 1, FALSE)
                                                     ELSE Rec("raised", 0, FALSE)
    BY <1>3, <1>13, <1>16
  <2> QED BY <1>15, <2>1, <2>2, ChooseIs
<1> QED BY <1>17, <1>18

\* The attempt that ends.
LEMMA EndIs ==
    ASSUME OneChunk, IInv, Books, OneInv, NEW p \in Provider, NEW c \in Chunk, Arrives(p, c)
    PROVE  LET x == PaymentOf(p, c) IN
             /\ x \in Payment /\ UnderWay = {x} /\ UnderWay' = {}
             /\ x \in signed /\ x \notin failed
             /\ AsCall = Rec("asking", Left, x \in held)
<1> DEFINE x == PaymentOf(p, c)
<1>1. x \in UnderWay /\ UnderWay' = UnderWay \ {x} BY WaitEnds
<1> HIDE DEF x
<1>2. /\ UnderWay = {x} /\ ~AllDone /\ over # Provider /\ signed # {} /\ x \in Payment
      /\ crashed = {}
  BY <1>1, OneUnderWay
<1>3. x \in signed /\ x \notin failed BY <1>1 DEF UnderWay, Books, Apart
<1>4. (UnderWay \subseteq held) = (x \in held) BY <1>2
<1>5. AsCall = Rec("asking", Left, UnderWay \subseteq held) BY <1>2, CallIs
<1>6. AsCall = Rec("asking", Left, x \in held) BY <1>4, <1>5
<1> QED BY <1>1, <1>2, <1>3, <1>6 DEF x

\* A payment that came to nothing may be in the replica, or not yet.
LEMMA LossBooks ==
    ASSUME OneChunk, IInv, NEW x \in Payment, x \notin failed,
           failed' = failed \cup {x}, held' = held
    PROVE  IF x \in held THEN JobBack' = JobBack + Fare /\ JobDue' = JobDue
                         ELSE JobDue' = JobDue + Fare /\ JobBack' = JobBack
<1>1. failed \in SUBSET Payment BY UnderWayTyped DEF IInv, TypeOK
<1>2. CASE x \in held
  <2> DEFINE S == failed \cap held
  <2>1. failed' \cap held' = S \cup {x} /\ failed' \ held' = failed \ held
    BY <1>2
  <2>2. S \in SUBSET Payment /\ x \notin S BY <1>1
  <2> HIDE DEF S
  <2>3. Total(S \cup {x}) = Total(S) + Fare BY <2>2, PayOne
  <2> QED BY <1>2, <2>1, <2>3 DEF JobBack, JobDue, S
<1>3. CASE x \notin held
  <2> DEFINE S == failed \ held
  <2>1. failed' \ held' = S \cup {x} /\ failed' \cap held' = failed \cap held
    BY <1>3
  <2>2. S \in SUBSET Payment /\ x \notin S BY <1>1
  <2> HIDE DEF S
  <2>3. Total(S \cup {x}) = Total(S) + Fare BY <2>2, PayOne
  <2> QED BY <1>3, <2>1, <2>3 DEF JobBack, JobDue, S
<1> QED BY <1>2, <1>3

LEMMA FailIsCall ==
    ASSUME OneChunk, IInv, Books, OneInv, NEW p \in Provider, NEW c \in Chunk, Fail(p, c)
    PROVE  Calls!CallsStep
<1> DEFINE x == PaymentOf(p, c)
<1>1. /\ Arrives(p, c) /\ failed' = failed \cup {x}
      /\ UNCHANGED <<signed, held, over, crashed>>
  BY DEF Fail, Resumes, Arrives
<1>2. /\ x \in Payment /\ UnderWay' = {} /\ x \in signed /\ x \notin failed
      /\ AsCall = Rec("asking", Left, x \in held)
  BY <1>1, EndIs
<1> HIDE DEF x
<1>3. p \notin over /\ ~AllDone /\ crashed = {} BY <1>1, EndsOne
<1>4. AllDone' = AllDone /\ Balance' = Balance BY FailOne
<1>5. AsCall' = Rec("choosing", Left, FALSE)
  <2>1. Left' = Left BY <1>1 DEF Left
  <2>2. over' # Provider /\ signed' # {} /\ crashed' = {} BY <1>1, <1>2, <1>3
  <2> QED BY <1>2, <1>3, <1>4, <2>1, <2>2, CallIsNext
<1> QED BY <1>1, <1>2, <1>4, <1>5, LossBooks, FailIs

LEMMA CrashIsCall ==
    ASSUME OneChunk, IInv, Books, OneInv, NEW p \in Provider, NEW c \in Chunk, Crash(p, c)
    PROVE  Calls!CallsStep
<1> DEFINE x == PaymentOf(p, c)
<1>1. /\ Arrives(p, c) /\ failed' = failed \cup {x} /\ crashed' = crashed \cup {p}
      /\ held' = held
  BY DEF Crash
<1>2. /\ x \in Payment /\ x \notin failed
      /\ AsCall = Rec("asking", Left, x \in held)
  BY <1>1, EndIs
<1> HIDE DEF x
<1>3. Balance' = Balance BY CrashOne
<1>4. crashed' # {} BY <1>1
<1>5. AsCall' = Rec("crashed", 0, FALSE) BY <1>4, CallIsNext
<1> QED BY <1>1, <1>2, <1>3, <1>5, LossBooks, CrashIs

LEMMA DeliverIsCall ==
    ASSUME OneChunk, IInv, Books, OneInv, NEW p \in Provider, NEW c \in Chunk,
           NEW v \in Value, Deliver(p, c, v)
    PROVE  Calls!CallsStep
<1> DEFINE x == PaymentOf(p, c)
<1>1. /\ Arrives(p, c) /\ held' = held \cup {x} /\ failed' = failed /\ crashed' = crashed
  BY DEF Deliver, Resumes, Arrives
<1>2. /\ x \in Payment /\ x \notin failed
      /\ AsCall = Rec("asking", Left, x \in held)
  BY <1>1, EndIs
<1> HIDE DEF x
<1>3. AsCall' = Rec("done", 0, FALSE)
  <2>1. crashed' = {} BY <1>1, EndsOne
  <2> QED BY <2>1, DeliverOne, CallIsNext
<1>4. JobDue' = JobDue /\ JobBack' = JobBack
  <2>1. failed' \ held' = failed \ held /\ failed' \cap held' = failed \cap held
    BY <1>1, <1>2
  <2> QED BY <2>1 DEF JobDue, JobBack
<1>5. CASE x \in held
  <2>1. held' = held BY <1>1, <1>5
  <2>2. Balance' = Balance BY <2>1 DEF Balance
  <2>3. (x \in held) = TRUE BY <1>5
  <2> QED BY <1>2, <1>3, <1>4, <2>2, <2>3, FinishIs
<1>6. CASE x \notin held
  <2>1. held \in SUBSET Payment BY UnderWayTyped
  <2>2. Total(held \cup {x}) = Total(held) + Fare /\ Fare \in Nat BY <1>2, <1>6, <2>1, PayOne
  <2>3. Balance' = StartBalance - Total(held \cup {x}) BY <1>1 DEF Balance
  <2>4. Balance = StartBalance - Total(held) BY DEF Balance
  <2>5. Balance' = Balance - Fare BY <2>2, <2>3, <2>4, BalanceTyped
  <2>6. (x \in held) = FALSE BY <1>6
  <2> QED BY <1>2, <1>3, <1>4, <2>5, <2>6, FinishIs
<1> QED BY <1>5, <1>6

\* Gossip brings the payment of the attempt that runs or of one that failed.
LEMMA GossipIsCall ==
    ASSUME OneChunk, IInv, Books, OneInv, NEW x \in Payment, Gossiped(x)
    PROVE  Calls!CallsStep
<1>1. /\ x \in signed /\ x \notin held /\ held' = held \cup {x}
      /\ UNCHANGED <<accepted, attempts, serving, signed, failed, over, crashed>>
  BY DEF Gossiped, board, crew
<1>2. Balance' = Balance - Fare BY GossipOne
<1>3. AllDone' = AllDone /\ UnderWay' = UnderWay /\ Left' = Left
  BY <1>1 DEF AllDone, UnderWay, Left
<1>4. x \in failed \/ x \in UnderWay BY <1>1 DEF Books, Tracked
<1>5. CASE x \in UnderWay
  <2>1. UnderWay = {x} /\ ~AllDone /\ over # Provider /\ signed # {} /\ crashed = {}
    BY <1>5, OneUnderWay
  <2>2. x \notin failed BY <1>5 DEF Books, Apart
  <2>3. (UnderWay \subseteq held) = FALSE /\ (UnderWay' \subseteq held') = TRUE
    BY <1>1, <1>3, <2>1
  <2>4. AsCall = Rec("asking", Left, UnderWay \subseteq held) BY <2>1, CallIs
  <2>5. AsCall' = Rec("asking", Left', UnderWay' \subseteq held')
    BY <1>1, <1>3, <2>1, CallIsNext
  <2>6. AsCall = Rec("asking", Left, FALSE) BY <2>3, <2>4
  <2>7. AsCall' = Rec("asking", Left, TRUE) BY <1>3, <2>3, <2>5
  <2>8. failed' \ held' = failed \ held /\ failed' \cap held' = failed \cap held
    BY <1>1, <2>2
  <2>9. JobDue' = JobDue /\ JobBack' = JobBack BY <2>8 DEF JobDue, JobBack
  <2> QED BY <1>2, <2>6, <2>7, <2>9, SeeIs
<1>6. CASE x \in failed
  <2>1. x \notin UnderWay BY <1>6 DEF Books, Apart
  <2>2. (UnderWay' \subseteq held') = (UnderWay \subseteq held) BY <1>1, <1>3, <2>1
  <2>3. AsCall' = AsCall
    <3>1. Progress' = Progress BY <1>1, <1>3 DEF Progress
    <3> QED BY <1>1, <2>2, <3>1 DEF AsCall
  <2> DEFINE A == (failed \ held) \ {x}
             B == failed \cap held
  <2>4. failed \ held = A \cup {x} /\ failed' \ held' = A /\ failed' \cap held' = B \cup {x}
    BY <1>1, <1>6
  <2>5. A \in SUBSET Payment /\ B \in SUBSET Payment /\ x \notin A /\ x \notin B
    BY <1>1, UnderWayTyped DEF IInv, TypeOK
  <2>6. JobDue = Total(A \cup {x}) /\ JobDue' = Total(A) /\ JobBack = Total(B)
        /\ JobBack' = Total(B \cup {x})
    BY <2>4 DEF JobDue, JobBack
  <2> HIDE DEF A, B
  <2>7. /\ Total(A \cup {x}) = Total(A) + Fare /\ Total(A) \in Nat /\ Fare \in Nat
        /\ Total(B \cup {x}) = Total(B) + Fare
    BY <2>5, PayOne
  <2>8. JobBack' = JobBack + Fare BY <2>6, <2>7
  <2>9. JobDue' = JobDue - Fare /\ JobDue >= Fare BY <2>6, <2>7
  <2> QED BY <1>2, <2>3, <2>8, <2>9, PullIs
<1> QED BY <1>4, <1>5, <1>6

LEMMA NextIsCall ==
    ASSUME OneChunk, IInv, Books, OneInv, [Next]_vars
    PROVE  Calls!CallsStep
<1>1. ASSUME NEW p \in Provider, Turn(p) PROVE Calls!CallsStep
  <2>1. CASE Nap(p) BY <2>1, QuietIsCall DEF Nap, AtLoopHead, board, purse
  <2>2. CASE Return(p)
    <3>1. AllDone /\ UNCHANGED <<board, purse, serving, crashed>> BY <2>2, ReturnOne
    <3> QED BY <3>1, QuietIsCall DEF board, purse
  <2> QED BY <1>1, <2>1, <2>2, GiveUpIsCall, SendIsCall DEF Turn
<1>2. ASSUME NEW p \in Provider, Answer(p) PROVE Calls!CallsStep
  <2>1. PICK c \in Chunk : \/ Refuse(p, c) \/ Unreachable(p, c) \/ Crash(p, c)
                           \/ \E v \in Value : Deliver(p, c, v)
    BY <1>2 DEF Answer
  <2>2. CASE Refuse(p, c) \/ Unreachable(p, c)
    <3>1. Fail(p, c) BY <2>2 DEF Refuse, Unreachable
    <3> QED BY <3>1, FailIsCall
  <2> QED BY <2>1, <2>2, CrashIsCall, DeliverIsCall
<1>3. CASE UNCHANGED vars BY <1>3, QuietIsCall DEF vars, board, crew, purse
<1> QED BY <1>1, <1>2, <1>3, GossipIsCall DEF Next

LEMMA InitIsCalls ==
    ASSUME OneChunk, Init
    PROVE  Calls!OneCallEach("batch")
<1>1. signed = {} /\ failed = {} /\ held = {} /\ over = {} /\ crashed = {} BY DEF Init
<1>2. ~AllDone
  <2>1. accepted[1] = NoResult /\ Chunk = {1} BY OneChunkIs DEF Init
  <2> QED BY <2>1 DEF AllDone
<1>3. over # Provider BY <1>1, OneChunkIs
<1>4. AsCall = Rec("looking", 0, FALSE) BY <1>1, <1>2, <1>3, CallIs
<1>5. JobDue = 0 /\ JobBack = 0
  <2>1. failed \ held = {} /\ failed \cap held = {} BY <1>1
  <2> QED BY <2>1, TotalEmpty DEF JobDue, JobBack
<1>6. Balance = StartBalance BY <1>1, TotalEmpty, JobAssumption DEF Balance
<1>7. JobBook = [c \in {"job"} |-> Rec("looking", 0, FALSE)] BY <1>4 DEF JobBook
<1> QED BY <1>5, <1>6, <1>7
        DEF Calls!OneCallEach, Calls!Begun, Calls!Fresh, JobBook, JobDue, JobBack, Rec

\* A job of one item that is executed once is, to the account, a call of
\* ConsumerCalls, for every set of providers and whatever they do: failures,
\* payments that gossip brings back before or after, the margin every worker
\* keeps and the workers that leave one by one included.
THEOREM JobImplementsCalls ==
    ASSUME OneChunk
    PROVE  Spec => ImplementsCalls
<1>1. Init => Calls!OneCallEach("batch") BY InitIsCalls
<1>2. IInv /\ Books /\ OneInv /\ [Next]_vars => [Calls!CallsStep]_vars BY NextIsCall
<1> QED BY <1>1, <1>2, OneInvariance, PTL DEF Spec, ImplementsCalls
=============================================================================
