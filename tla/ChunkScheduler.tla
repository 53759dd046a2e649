---------------------------- MODULE ChunkScheduler ----------------------------
(***************************************************************************)
(* A consumer's job (src/kemi/consumer.py, _Scheduler and run_job): items  *)
(* are cut into chunks, one coroutine per provider takes chunks, pays and  *)
(* waits, and with redundancy a chunk's results are put to a vote.         *)
(*                                                                         *)
(* The coroutines share one event loop.  running names the one that holds  *)
(* it between an answer and its next await; every other step starts at an  *)
(* await and ends at one.  An error nobody expects in one of them ends the *)
(* job for its caller (gather), and leaves the others at work.             *)
(***************************************************************************)
EXTENDS Integers, FiniteSets, FiniteSetsExt

CONSTANTS
    Provider,       \* the providers list_providers returned
    Price,          \* Price[p]: what p charges for an item
    Honest,         \* providers whose results, if any, are the right ones
    Reliable,       \* honest providers that never fail a request
    NumItems,       \* len(job.items)
    ChunkSize,      \* job.chunk_size
    Redundancy,     \* job.redundancy
    StartBalance,   \* the consumer's balance when the job starts
    Value,          \* fingerprints of a chunk's results
    Right,          \* the fingerprint an honest provider produces
    NoResult, Nobody

MaxProviderStrikes     == 3
MaxAttemptsPerProvider == 2
MaxExtraRounds         == 2

NumChunks == (NumItems + ChunkSize - 1) \div ChunkSize

Chunk == 1..NumChunks

\* The last chunk may be short.
Size(c) == IF c < NumChunks THEN ChunkSize ELSE NumItems - ChunkSize * (c - 1)

Amount(p, c) == Price[p] * Size(c)

MaxPrice == Max({Price[p] : p \in Provider})

\* run_job's early returns.
ASSUME JobAssumption ==
    /\ NumItems \in Nat \ {0} /\ ChunkSize \in Nat \ {0}
    /\ IsFiniteSet(Provider)
    /\ Redundancy \in 1..Cardinality(Provider)
    /\ StartBalance \in Nat
    /\ StartBalance >= Min({Price[p] : p \in Provider}) * NumItems * Redundancy

ASSUME SwarmAssumption ==
    /\ Reliable \subseteq Honest /\ Honest \subseteq Provider
    /\ Right \in Value /\ NoResult \notin Value /\ Nobody \notin Provider
    /\ Price \in [Provider -> Nat]

VARIABLES
    needed,         \* _ChunkState.needed: executions wanted of the chunk
    results,        \* .results_by_provider
    inFlight,       \* .in_flight
    attempts,       \* .attempts
    accepted,       \* .accepted
    serving,        \* the chunk whose answer p's worker waits for, 0 if none
    strikes,        \* the worker's failures in a row
    over,           \* workers that have ended
    crashed,        \* those that ended with an error, which is the job's
    running,        \* the worker that has not yet reached its next await
    signed,         \* payments signed for this job
    failed,         \* those whose request failed
    held,           \* those in the consumer's own ledger replica
    spent,          \* JobReport.spent
    exposure,       \* JobReport.exposure
    mismatches      \* "mismatch" events recorded per chunk and provider

board == <<needed, results, inFlight, attempts, accepted>>
crew  == <<serving, strikes, over, crashed, running>>
purse == <<signed, failed, held, spent, exposure>>
vars  == <<board, crew, purse, mismatches>>

Payment == [to : Provider, chunk : Chunk, try : 1..MaxAttemptsPerProvider]

\* The credits that the payments S are worth, one by one.
Credits(S) == UNION {{x} \X (1..Amount(x.to, x.chunk)) : x \in S}

Total(S) == Cardinality(Credits(S))

Balance == StartBalance - Total(held)

----------------------------------------------------------------------------
\* _Scheduler.

Answered(c) == {p \in Provider : results[c][p] # NoResult}

AllDone == \A c \in Chunk : accepted[c] # NoResult

\* The chunks acquire would hand to p.
Open(p) ==
    {c \in Chunk : /\ accepted[c] = NoResult
                   /\ p \notin inFlight[c] /\ results[c][p] = NoResult
                   /\ attempts[c][p] < MaxAttemptsPerProvider
                   /\ Cardinality(Answered(c)) + Cardinality(inFlight[c])
                        < needed[c]}

\* It hands out the first one.
Acquires(p, c) == c \in Open(p) /\ \A d \in Open(p) : c <= d

Votes(res, v) == {p \in Provider : res[p] = v}

\* Mutant: half the votes carry.
Majority_Half == Redundancy \div 2

Majority == Redundancy \div 2 + 1

Winners(res) == {v \in Value : Cardinality(Votes(res, v)) >= Majority}

\* Mutant: a chunk that is decided is not counted again.
Losers_Undecided(c, res, w) ==
    IF accepted[c] # NoResult THEN {}
    ELSE {p \in Provider : res[p] \notin {NoResult, w}}

Losers(c, res, w) == {p \in Provider : res[p] \notin {NoResult, w}}

Widened(c, res) ==
    IF /\ Cardinality({p \in Provider : res[p] # NoResult}) >= needed[c]
       /\ needed[c] < Redundancy + MaxExtraRounds
    THEN needed[c] + 1 ELSE needed[c]

\* The vote on chunk c once its results are res.  Dict order picks among two
\* majorities, should there ever be two.
Tally(c, res) ==
    \/ /\ Winners(res) = {}
       /\ needed' = [needed EXCEPT ![c] = Widened(c, res)]
       /\ UNCHANGED <<accepted, mismatches>>
    \/ \E w \in Winners(res) :
          /\ accepted' = [accepted EXCEPT ![c] = w]
          /\ mismatches' = [mismatches EXCEPT ![c] =
                [p \in Provider |-> IF p \in Losers(c, res, w)
                                    THEN @[p] + 1 ELSE @[p]]]
          /\ UNCHANGED needed

----------------------------------------------------------------------------
\* provider_worker.

\* Mutant: nothing is held back for what is under way.
Margin_None == 0

\* The executions under way, each with its chunk.
Taken == UNION {{c} \X inFlight[c] : c \in Chunk}

\* spent_pending, read after acquire: the place just taken is in it.
Margin == (Cardinality(Taken) + 1) * MaxPrice * ChunkSize

Affords(p, c) == Balance - Margin >= Amount(p, c)

Init ==
    /\ needed = [c \in Chunk |-> Redundancy]
    /\ results = [c \in Chunk |-> [p \in Provider |-> NoResult]]
    /\ inFlight = [c \in Chunk |-> {}]
    /\ attempts = [c \in Chunk |-> [p \in Provider |-> 0]]
    /\ accepted = [c \in Chunk |-> NoResult]
    /\ serving = [p \in Provider |-> 0]
    /\ strikes = [p \in Provider |-> 0]
    /\ over = {} /\ crashed = {} /\ running = Nobody
    /\ signed = {} /\ failed = {} /\ held = {}
    /\ spent = 0 /\ exposure = 0
    /\ mismatches = [c \in Chunk |-> [p \in Provider |-> 0]]

\* The worker starts, wakes from its nap or comes back from handling an answer.
AtLoopHead(p) ==
    /\ p \notin over /\ serving[p] = 0
    /\ running \in {p, Nobody}
    /\ running' = Nobody /\ UNCHANGED crashed

MayGoOn(p) == ~AllDone /\ strikes[p] < MaxProviderStrikes

Return(p) ==
    /\ AtLoopHead(p) /\ ~MayGoOn(p)
    /\ over' = over \cup {p}
    /\ UNCHANGED <<board, serving, strikes, purse, mismatches>>

Nap(p) ==
    /\ AtLoopHead(p) /\ MayGoOn(p) /\ Open(p) = {}
    /\ UNCHANGED <<board, serving, strikes, over, purse, mismatches>>

CountAttempt(p, c) == attempts' = [attempts EXCEPT ![c][p] = @ + 1]

\* The place is given back, the attempt stays counted, the worker returns.
GiveUp(p, c) ==
    /\ AtLoopHead(p) /\ MayGoOn(p) /\ Acquires(p, c) /\ ~Affords(p, c)
    /\ CountAttempt(p, c)
    /\ strikes' = [strikes EXCEPT ![p] = MaxProviderStrikes]
    /\ over' = over \cup {p}
    /\ UNCHANGED <<needed, results, inFlight, accepted, serving, purse, mismatches>>

Send(p, c) ==
    /\ AtLoopHead(p) /\ MayGoOn(p) /\ Acquires(p, c) /\ Affords(p, c)
    /\ CountAttempt(p, c)
    /\ inFlight' = [inFlight EXCEPT ![c] = @ \cup {p}]
    /\ serving' = [serving EXCEPT ![p] = c]
    /\ signed' = signed \cup {[to |-> p, chunk |-> c, try |-> attempts[c][p] + 1]}
    /\ UNCHANGED <<needed, results, accepted, strikes, over, failed, held,
                   spent, exposure, mismatches>>

\* The answer of p's request on chunk c arrives.
Arrives(p, c) ==
    /\ running = Nobody /\ serving[p] = c
    /\ serving' = [serving EXCEPT ![p] = 0]
    /\ UNCHANGED <<attempts, signed>>

\* p's coroutine takes it and goes on.
Resumes(p, c) ==
    /\ Arrives(p, c)
    /\ running' = p
    /\ UNCHANGED <<over, crashed>>

\* Mutant: the place of a failed request is not given back.
LeaveFlight_Leak(p, c) == inFlight' = inFlight

LeaveFlight(p, c) == inFlight' = [inFlight EXCEPT ![c] = @ \ {p}]

PaymentOf(p, c) == [to |-> p, chunk |-> c, try |-> attempts[c][p]]

Deliver(p, c, v) ==
    /\ Resumes(p, c)
    /\ p \in Honest => v = Right
    /\ inFlight' = [inFlight EXCEPT ![c] = @ \ {p}]
    /\ results' = [results EXCEPT ![c][p] = v]
    /\ Tally(c, results'[c])
    /\ strikes' = [strikes EXCEPT ![p] = 0]
    /\ held' = held \cup {PaymentOf(p, c)}
    /\ spent' = spent + Amount(p, c)
    /\ UNCHANGED <<failed, exposure>>

Fail(p, c) ==
    /\ Resumes(p, c)
    /\ p \notin Reliable
    /\ LeaveFlight(p, c)
    /\ strikes' = [strikes EXCEPT ![p] = @ + 1]
    /\ failed' = failed \cup {PaymentOf(p, c)}
    /\ UNCHANGED <<needed, results, accepted, held, spent, mismatches>>

\* An error answer or a malformed one.
Refuse(p, c) == Fail(p, c) /\ exposure' = exposure + Amount(p, c)

\* NETWORK_ERRORS, the chunk's timeout among them.
Unreachable(p, c) == Fail(p, c) /\ UNCHANGED exposure

\* Sealed as it should be, and no object: an AttributeError, which gather hands
\* to the caller.  The chunk keeps p's place; the payment is written off nowhere.
Crash(p, c) ==
    /\ Arrives(p, c)
    /\ p \notin Honest
    /\ over' = over \cup {p} /\ crashed' = crashed \cup {p}
    /\ failed' = failed \cup {PaymentOf(p, c)}
    /\ UNCHANGED <<needed, results, inFlight, accepted, strikes, running,
                   held, spent, exposure, mismatches>>

\* A payment whose request failed or is under way comes back by gossip: the
\* provider kept it, or a witness stored it before the task ran.
Gossiped(x) ==
    /\ x \in signed \ held
    /\ running = Nobody
    /\ held' = held \cup {x}
    /\ UNCHANGED <<board, crew, signed, failed, spent, exposure, mismatches>>

Turn(p) == Return(p) \/ Nap(p) \/ \E c \in Chunk : GiveUp(p, c) \/ Send(p, c)

Answer(p) ==
    \E c \in Chunk : \/ Refuse(p, c) \/ Unreachable(p, c) \/ Crash(p, c)
                     \/ \E v \in Value : Deliver(p, c, v)

Next ==
    \/ \E p \in Provider : Turn(p) \/ Answer(p)
    \/ \E x \in Payment : Gossiped(x)

Spec == Init /\ [][Next]_vars

\* The event loop resumes every coroutine it can, and a request ends within
\* chunk_timeout.
Fairness == \A p \in Provider : WF_vars(Turn(p)) /\ WF_vars(Answer(p))

FairSpec == Spec /\ Fairness

----------------------------------------------------------------------------
\* The type invariant.
TypeOK ==
    /\ needed \in [Chunk -> Redundancy..(Redundancy + MaxExtraRounds)]
    /\ results \in [Chunk -> [Provider -> Value \cup {NoResult}]]
    /\ inFlight \in [Chunk -> SUBSET Provider]
    /\ attempts \in [Chunk -> [Provider -> 0..MaxAttemptsPerProvider]]
    /\ accepted \in [Chunk -> Value \cup {NoResult}]
    /\ serving \in [Provider -> Chunk \cup {0}]
    /\ strikes \in [Provider -> 0..MaxProviderStrikes]
    /\ over \subseteq Provider /\ crashed \subseteq over
    /\ running \in Provider \cup {Nobody}
    /\ signed \subseteq Payment /\ failed \subseteq signed /\ held \subseteq signed
    /\ mismatches \in [Chunk -> [Provider -> Nat]]

\* A result that was accepted stays: executions still under way when the vote
\* is decided run the vote again (complete) and must not turn it.
AcceptedIsFinal ==
    [][\A c \in Chunk : accepted[c] # NoResult => accepted'[c] = accepted[c]]_vars

\* While at most half as many providers lie as executions are asked for, no
\* wrong result is accepted, whatever fails, is retried or is widened.
HonestAnswerWins ==
    2 * Cardinality(Provider \ Honest) <= Redundancy
        => \A c \in Chunk : accepted[c] \in {NoResult, Right}

\* Whoever answered a decided chunk otherwise has been punished for it and
\* whoever answered it like the majority has not, early or late answers alike.
WrongIsPunished ==
    \A c \in Chunk : accepted[c] # NoResult =>
        \A p \in Answered(c) :
            (mismatches[c][p] > 0) = (results[c][p] # accepted[c])

UnderWay == {x \in signed : serving[x.to] = x.chunk
                              /\ x.try = attempts[x.chunk][x.to]}

\* What the job has paid for and what it is waiting for never exceed what the
\* consumer had, though the workers check one balance and sign side by side.
SpentWithinBalance == spent + Total(UnderWay) <= StartBalance

\* Only payments of requests that came to nothing, when they come back by
\* gossip, take the account below zero: whatever the job holds an answer for
\* or still waits for was covered when it was signed.
OverdrawnByFailures == Balance + Total(failed \cap held) >= 0

\* With enough reliable providers among those asked, every chunk is decided
\* and every worker returns, unless an answer that is no object ends the job:
\* nothing else that a provider does, or fails to do, keeps it from completing.
JobCompletes == <>((AllDone /\ over = Provider) \/ crashed # {})

----------------------------------------------------------------------------
\* What the code's documents say and the code does not do.

\* "a malicious provider can keep at most one chunk's price without delivering"
AtMostOneChunkLost ==
    \A p \in Provider :
        Total({x \in failed : x.to = p}) <= Price[p] * ChunkSize

\* exposure is "credits signed away to providers that failed".
ExposureCounts == exposure = Total(failed)

\* A worker is skipped when the consumer is "out of credits for this one".
SkippedOnlyWhenBroke ==
    [][\A p \in Provider, c \in Chunk :
          GiveUp(p, c) => Balance - Total(UnderWay) < Amount(p, c)]_vars

\* The margin kept for what is under way keeps the account out of the red.
NeverOverdrawn == Balance >= 0

\* A job that cannot be completed or verified fails with a JobError.
JobReturns == <>(over = Provider \/ crashed # {})

----------------------------------------------------------------------------
\* The call of ConsumerCalls, when the job is one chunk of one item that is
\* executed once, and every attempt costs the same.
Fare == Price[CHOOSE p \in Provider : TRUE]

OneChunk ==
    /\ NumItems = 1 /\ ChunkSize = 1 /\ Redundancy = 1
    /\ Fare > 0 /\ \A p \in Provider : Price[p] = Fare

\* How far the job has come for its user.
Progress ==
    CASE crashed # {} -> "crashed"
      [] crashed = {} /\ AllDone -> "done"
      [] crashed = {} /\ ~AllDone /\ over = Provider -> "raised"
      [] crashed = {} /\ ~AllDone /\ over # Provider ->
            IF signed = {} THEN "looking" ELSE IF UnderWay # {} THEN "asking" ELSE "choosing"

AsCall ==
    [how |-> "batch", at |-> Progress,
     left |-> IF Progress \in {"asking", "choosing"}
              THEN MaxAttemptsPerProvider * Cardinality(Provider) - Cardinality(signed) ELSE 0,
     told |-> FALSE, seen |-> Progress = "asking" /\ UnderWay \subseteq held]

Calls == INSTANCE ConsumerCalls WITH
    Caller <- {"job"}, Price <- Fare, Funds <- StartBalance,
    MaxOffers <- Cardinality(Provider),
    call <- [c \in {"job"} |-> AsCall],
    balance <- Balance,
    unseen <- Total(failed \ held),
    pulled <- Total(failed \cap held)

\* To the one who pays, such a job is a call as ConsumerCalls has it.
ImplementsCalls == Calls!OneCallEach("batch") /\ [][Calls!CallsStep]_vars
=============================================================================
