---------------------------- MODULE StreamSession ----------------------------
(***************************************************************************)
(* Live token streams (src/kemi/consumer.py, stream_generate, against      *)
(* src/kemi/node.py, _stream_task).  Here a provider applies the payment   *)
(* before it sends anything; the consumer learns of it from the frames it  *)
(* reads, mirrors it when the stream ends, and goes on to the next         *)
(* provider as long as no token came.                                      *)
(*                                                                         *)
(* An attempt <<s, k>> is the k-th provider tried for stream s.  What is   *)
(* in pipe has been sent and not been read: it may be under way or lie in  *)
(* a buffer, so the consumer can time out on a pipe that is not empty.     *)
(***************************************************************************)
EXTENDS Integers, Sequences, FiniteSets, FiniteSetsExt

CONSTANTS
    Session,        \* the streams asked for
    Owner,          \* Owner[s]: the node that asks and pays
    Parallel,       \* owners that run several streams at a time
    Cancellable,    \* streams the caller may cancel or drop
    Idler,          \* streams whose caller may stop iterating and keep them
    Ranking,        \* Ranking[s]: what list_providers returns, best first
    Relayed,        \* those that are reached through a relay
    Erratic,        \* those that may send what is sealed as it should be and no object
    Price,          \* Price[p]: what p charges for the prompt
    StartBalance,   \* the balance each owner starts with
    MaxWorkers,     \* max_workers
    MaxUnread       \* the frames that fit between two ends: a write waits for room

Attempt == UNION {{<<s, k>> : k \in DOMAIN Ranking[s]} : s \in Session}

Seller(a) == Ranking[a[1]][a[2]]

Provider == {Seller(a) : a \in Attempt}

Asker == {Owner[s] : s \in Session}

ASSUME StreamAssumption ==
    /\ IsFiniteSet(Session) /\ Cancellable \subseteq Session /\ Idler \subseteq Session
    /\ DOMAIN Owner = Session /\ DOMAIN Ranking = Session
    /\ Ranking \in [Session -> Seq(Provider)] 
    /\ Relayed \subseteq Provider /\ Erratic \subseteq Provider
    /\ Price \in [Provider -> Nat] /\ StartBalance \in Nat
    /\ MaxWorkers \in Nat \ {0} /\ MaxUnread \in Nat \ {0}

VARIABLES
    stage,      \* stage[s]: how far the call has come
    at,         \* at[s]: the attempt that runs, or ran last
    committed,  \* payment_committed, of this attempt
    streamed,   \* streamed_any, of this attempt
    pipe,       \* pipe[s]: frames of this attempt that were not read yet
    linked,     \* linked[s]: the connection of this attempt is up
    work,       \* work[s][k]: the provider's side of an attempt
    free,       \* free[p]: free places of p's _work_semaphore
    inForce,    \* attempts whose payment some ledger of the swarm holds
    mirrored,   \* those the consumer's own ledger holds
    reported    \* history: those a frame has told the consumer of

caller == <<stage, at, committed, streamed>>
wire   == <<pipe, linked>>
seller == <<work, free>>
books  == <<inForce, mirrored, reported>>
vars   == <<caller, wire, seller, books>>

\* Streams that were left at an await or a yield: nothing was settled.
Left == {"cancelled", "crashed"}

Over == {"done", "failed"} \cup Left

\* Frames that are only sent once the payment has been applied.
Receipts == {"accepted", "warming", "token", "end", "broke"}

\* "refused" is every error before that; "relay failed" comes from the relay.
Frame == Receipts \cup {"refused", "relay failed"}

\* The credits paid for the attempts A, one by one.
Credits(A) == UNION {{a} \X (1..Price[Seller(a)]) : a \in A}

Total(A) == Cardinality(Credits(A))

Of(o, A) == {a \in A : Owner[a[1]] = o}

\* The balance of o in a ledger that holds the payments A.
Balance(o, A) == StartBalance - Total(Of(o, A))

Init ==
    /\ stage = [s \in Session |-> "idle"]
    /\ at = [s \in Session |-> 0]
    /\ committed = [s \in Session |-> FALSE]
    /\ streamed = [s \in Session |-> FALSE]
    /\ pipe = [s \in Session |-> <<>>]
    /\ linked = [s \in Session |-> FALSE]
    /\ work = [s \in Session |-> [k \in DOMAIN Ranking[s] |-> "none"]]
    /\ free = [p \in Provider |-> MaxWorkers]
    /\ inForce = {} /\ mirrored = {} /\ reported = {}

----------------------------------------------------------------------------
\* The consumer.

\* The connection is closed (source.aclose), what was unread is gone.
HangsUp(s) ==
    /\ pipe' = [pipe EXCEPT ![s] = <<>>]
    /\ linked' = [linked EXCEPT ![s] = FALSE]

\* The call is over and its local variables are gone.
Leave(s, outcome) ==
    /\ stage' = [stage EXCEPT ![s] = outcome]
    /\ committed' = [committed EXCEPT ![s] = FALSE]
    /\ streamed' = [streamed EXCEPT ![s] = FALSE]
    /\ UNCHANGED at

\* Mutant: the balance is looked at for the first provider only.
MayHire_OnceChecked(s, k, held) ==
    k \in DOMAIN Ranking[s] /\ (k = 1 => Balance(Owner[s], held) >= Price[Seller(<<s, k>>)])

\* There is a k-th provider, and a ledger that holds held affords it.
MayHire(s, k, held) ==
    k \in DOMAIN Ranking[s] /\ Balance(Owner[s], held) >= Price[Seller(<<s, k>>)]

\* The loop over the providers goes on with the k-th: JobError, or a payment
\* is signed and the request sent.  held is what the ledger holds by now.
Try(s, k, held) ==
    IF MayHire(s, k, held)
    THEN /\ stage' = [stage EXCEPT ![s] = "reading"]
         /\ at' = [at EXCEPT ![s] = k]
         /\ committed' = [committed EXCEPT ![s] = FALSE]
         /\ streamed' = [streamed EXCEPT ![s] = FALSE]
         /\ linked' = [linked EXCEPT ![s] = TRUE]
         /\ work' = [work EXCEPT ![s][k] = "asked"]
    ELSE Leave(s, "failed") /\ UNCHANGED <<linked, work>>

Open(s) ==
    /\ stage[s] = "idle"
    /\ Owner[s] \notin Parallel =>
          \A t \in Session : Owner[t] = Owner[s] => stage[t] \in Over \cup {"idle"}
    /\ Try(s, 1, mirrored)
    /\ UNCHANGED <<pipe, free, books>>

Current(s) == <<s, at[s]>>

\* An attempt of s is under way.
Active(s) == stage[s] \in {"reading", "closing"}

\* Mutant: an error frame of any kind counts as a receipt.
Tells_Anything(f) == f # "relay failed"

\* What a frame tells of the payment.
Tells(f) == f \in Receipts

\* The next frame, and the stream goes on.
Read(s) ==
    /\ stage[s] = "reading" /\ pipe[s] # <<>>
    /\ LET f == Head(pipe[s])
       IN /\ f \in {"accepted", "warming", "token"}
          /\ committed' = [committed EXCEPT ![s] = TRUE]
          /\ streamed' = [streamed EXCEPT ![s] = @ \/ f = "token"]
    /\ reported' = reported \cup {Current(s)}
    /\ pipe' = [pipe EXCEPT ![s] = Tail(@)]
    /\ UNCHANGED <<stage, at, linked, seller, inForce, mirrored>>

\* The last frame: the payment is mirrored and the results are there.
Complete(s) ==
    /\ stage[s] = "reading" /\ pipe[s] # <<>> /\ Head(pipe[s]) = "end"
    /\ mirrored' = mirrored \cup {Current(s)}
    /\ reported' = reported \cup {Current(s)}
    /\ Leave(s, "done") /\ HangsUp(s)
    /\ UNCHANGED <<seller, inForce>>

\* The last frame is an error; some errors tell of a payment in force.
GiveUp(s) ==
    /\ stage[s] = "reading" /\ pipe[s] # <<>>
    /\ LET f == Head(pipe[s])
       IN /\ f \in {"broke", "refused", "relay failed"}
          /\ committed' = [committed EXCEPT ![s] = @ \/ Tells(f)]
          /\ reported' = IF f \in Receipts THEN reported \cup {Current(s)} ELSE reported
    /\ stage' = [stage EXCEPT ![s] = "closing"]
    /\ HangsUp(s)
    /\ UNCHANGED <<at, streamed, seller, inForce, mirrored>>

\* Mutant: silence is waited out, only what cannot be opened ends a stream.
Stall_Patient(s) ==
    /\ stage[s] = "reading" /\ pipe[s] # <<>>
    /\ stage' = [stage EXCEPT ![s] = "closing"]
    /\ HangsUp(s)
    /\ UNCHANGED <<at, committed, streamed, seller, books>>

\* Nothing read in time, data that cannot be opened, or a broken connection.
Stall(s) ==
    /\ stage[s] = "reading"
    /\ stage' = [stage EXCEPT ![s] = "closing"]
    /\ HangsUp(s)
    /\ UNCHANGED <<at, committed, streamed, seller, books>>

\* Mutant: a payment that was reported is forgotten with the stream.
Mirrored_Never(s) == mirrored

Mirrored(s) == IF committed[s] THEN mirrored \cup {Current(s)} ELSE mirrored

\* source.aclose() has been awaited: the payment is mirrored if it is known to
\* be in force, and the next provider is tried if no token came.
Settle(s) ==
    /\ stage[s] = "closing"
    /\ mirrored' = Mirrored(s)
    /\ IF streamed[s] THEN Leave(s, "failed") /\ UNCHANGED <<linked, work>>
                      ELSE Try(s, at[s] + 1, mirrored')
    /\ UNCHANGED <<pipe, free, inForce, reported>>

\* The generator is left where it is: what follows its finally is not run.
Abandon(s, outcome) ==
    /\ Leave(s, outcome) /\ HangsUp(s)
    /\ UNCHANGED <<seller, books>>

\* The caller's deadline, or a caller that closes the generator.
Cancel(s) ==
    /\ s \in Cancellable /\ stage[s] \in {"reading", "closing"}
    /\ Abandon(s, "cancelled")

\* A frame that opens and is no object, or numbers no item: an error nobody
\* expects, which the caller gets.
Crash(s) ==
    /\ stage[s] = "reading" /\ Seller(Current(s)) \in Erratic
    /\ Abandon(s, "crashed")

\* A payment in force comes to the consumer's ledger by gossip.
Gossip(a) ==
    /\ a \in inForce \ mirrored
    /\ mirrored' = mirrored \cup {a}
    /\ UNCHANGED <<caller, wire, seller, inForce, reported>>

----------------------------------------------------------------------------
\* The connection.

\* It breaks; what had been sent may not all arrive.
Cut(s) ==
    /\ stage[s] = "reading" /\ linked[s]
    /\ linked' = [linked EXCEPT ![s] = FALSE]
    /\ \E n \in 0..Len(pipe[s]) : pipe' = [pipe EXCEPT ![s] = SubSeq(@, 1, n)]
    /\ UNCHANGED <<caller, seller, books>>

\* The relay has no session for the provider, or waited too long for a frame.
RelayFails(s) ==
    /\ stage[s] = "reading" /\ linked[s] /\ Seller(Current(s)) \in Relayed
    /\ linked' = [linked EXCEPT ![s] = FALSE]
    /\ pipe' = [pipe EXCEPT ![s] = Append(@, "relay failed")]
    /\ UNCHANGED <<caller, seller, books>>

----------------------------------------------------------------------------
\* The provider.

Heard(s, k) == stage[s] = "reading" /\ at[s] = k /\ linked[s]

\* emit; to a consumer that is gone it goes unnoticed, or fails (see HangUp).
Emit(s, k, f) ==
    pipe' = IF Heard(s, k) THEN [pipe EXCEPT ![s] = Append(@, f)] ELSE pipe

Reach(s, k, w) == work' = [work EXCEPT ![s][k] = w]

\* Mutant: a stream whose consumer went away keeps its place.
Release_Leak(s, k) == free' = IF Heard(s, k) THEN [free EXCEPT ![Seller(<<s, k>>)] = @ + 1]
                                             ELSE free

Release(s, k) == free' = [free EXCEPT ![Seller(<<s, k>>)] = @ + 1]

\* A witness that is shown the payment stores it, whatever becomes of it.
Witness(s, k) ==
    /\ work[s][k] = "asked" /\ <<s, k>> \notin inForce
    /\ inForce' = inForce \cup {<<s, k>>}
    /\ UNCHANGED <<caller, wire, seller, mirrored, reported>>

\* Not offered, payment not valid, not witnessed.
Refuse(s, k) ==
    /\ work[s][k] = "asked"
    /\ Reach(s, k, "over") /\ Emit(s, k, "refused")
    /\ UNCHANGED <<caller, linked, free, books>>

\* The payment is applied and the receipt sent.
Commit(s, k) ==
    /\ work[s][k] = "asked"
    /\ inForce' = inForce \cup {<<s, k>>}
    /\ \/ Reach(s, k, "queued") /\ Emit(s, k, "accepted")
       \/ ~Heard(s, k) /\ Reach(s, k, "over") /\ UNCHANGED pipe
    /\ UNCHANGED <<caller, linked, free, mirrored, reported>>

Begin(s, k) ==
    /\ work[s][k] = "queued" /\ free[Seller(<<s, k>>)] > 0
    /\ free' = [free EXCEPT ![Seller(<<s, k>>)] = @ - 1]
    /\ Reach(s, k, "working")
    /\ UNCHANGED <<caller, wire, books>>

\* The backend is at work on its first token.
Warm(s, k) ==
    /\ work[s][k] = "working" /\ Heard(s, k) /\ Len(pipe[s]) < MaxUnread
    /\ Emit(s, k, "warming")
    /\ UNCHANGED <<caller, linked, seller, books>>

Talk(s, k) ==
    /\ work[s][k] \in {"working", "talking"} /\ Len(pipe[s]) < MaxUnread
    /\ Reach(s, k, "talking") /\ Emit(s, k, "token")
    /\ UNCHANGED <<caller, linked, free, books>>

\* There is room for a frame, or nobody to send it to.
Room(s, k) == Heard(s, k) => Len(pipe[s]) < MaxUnread

\* The backend is done, has failed, or took longer than task_timeout: the last
\* frame is written, for which there is no deadline, and the place given back.
Finish(s, k) ==
    /\ work[s][k] \in {"working", "talking", "ending"} /\ Room(s, k)
    /\ Reach(s, k, "over") /\ Release(s, k)
    /\ \E f \in {"end", "broke"} : Emit(s, k, f)
    /\ UNCHANGED <<caller, linked, books>>

\* The write does not get through, and nothing else is written any more.
Block(s, k) ==
    /\ work[s][k] \in {"working", "talking"} /\ ~Room(s, k)
    /\ Reach(s, k, "ending")
    /\ UNCHANGED <<caller, wire, free, books>>

\* A frame cannot be sent: the consumer went away.
HangUp(s, k) ==
    /\ work[s][k] \in {"working", "talking", "ending"} /\ ~Heard(s, k)
    /\ Reach(s, k, "over") /\ Release(s, k)
    /\ UNCHANGED <<caller, wire, books>>

----------------------------------------------------------------------------
Consume(s) == Read(s) \/ Complete(s) \/ GiveUp(s) \/ Stall(s) \/ Settle(s)

Serve(s, k) ==
    \/ Refuse(s, k) \/ Commit(s, k) \/ Begin(s, k)
    \/ Finish(s, k) \/ Block(s, k) \/ HangUp(s, k)

Next ==
    \/ \E s \in Session :
          Open(s) \/ Consume(s) \/ Cancel(s) \/ Crash(s) \/ Cut(s) \/ RelayFails(s)
    \/ \E a \in Attempt :
          \/ Gossip(a) \/ Witness(a[1], a[2])
          \/ Serve(a[1], a[2]) \/ Warm(a[1], a[2]) \/ Talk(a[1], a[2])

Spec == Init /\ [][Next]_vars

\* Where the generator does not wait for its caller to take a token.
Awaits(s) == s \in Idler => ~(stage[s] = "reading" /\ streamed[s])

\* The event loop resumes the consumer when a frame or a timeout is there; a
\* provider's checks end, and its backend within task_timeout.
Fairness ==
    /\ \A s \in Session : WF_vars(Awaits(s) /\ Consume(s))
    /\ \A a \in Attempt : WF_vars(Serve(a[1], a[2]))

FairSpec == Spec /\ Fairness

----------------------------------------------------------------------------
\* The type invariant.
TypeOK ==
    /\ stage \in [Session -> {"idle", "reading", "closing"} \cup Over]
    /\ at \in [Session -> Nat]
    /\ committed \in [Session -> BOOLEAN] /\ streamed \in [Session -> BOOLEAN]
    /\ pipe \in [Session -> Seq(Frame)]
    /\ linked \in [Session -> BOOLEAN]
    /\ work = [s \in Session |-> work[s]]
    /\ \A s \in Session : work[s] \in [DOMAIN Ranking[s] ->
                    {"none", "asked", "queued", "working", "talking", "ending", "over"}]
    /\ free \in [Provider -> 0..MaxWorkers]
    /\ inForce \subseteq Attempt /\ mirrored \subseteq Attempt /\ reported \subseteq Attempt

\* The consumer never charges itself for a payment nobody applied: whatever
\* stream ends in whatever way, only frames sent after the payment tell of it.
MirroredIsInForce == mirrored \subseteq inForce

\* Attempts that were running when their streams were left.
Abandoned == {Current(s) : s \in {t \in Session : stage[t] \in Left}}

\* What a consumer was told it has paid never exceeds what it had, across
\* failover and all the streams it ran one after the other ("payment receipts":
\* a reported payment is mirrored before the next provider is hired).  All that
\* escapes is the attempt that runs when its stream is cancelled or crashes.
WithinBalance ==
    \A o \in Asker \ Parallel : Total(Of(o, reported \ Abandoned)) <= StartBalance

\* A stream that was opened comes to an end, unless its caller keeps it and
\* reads no further.
StreamsEnd == \A s \in Session : stage[s] = "reading" ~> stage[s] \in Over

\* Every provider gets all its places back, from consumers that stalled, were
\* cancelled or cut off as well, and a last frame there was no room for is no
\* reason to keep one: whoever does not read it gives up or goes away.
PlacesComeBack == <>[](free = [p \in Provider |-> MaxWorkers])

----------------------------------------------------------------------------
\* What the code's documents say and the code does not do.

\* "A consumer that abandons a stalled stream after that receipt mirrors the
\* payment into its own ledger replica before hiring the next ship".
AbandonedIsMirrored ==
    \A s \in Session : stage[s] \in Over /\ Current(s) \in reported
        => Current(s) \in mirrored

----------------------------------------------------------------------------
\* The calls of ConsumerCalls, when every attempt costs the same.
Fare == Price[CHOOSE p \in Provider : TRUE]

FlatPrices == Fare > 0 /\ \A p \in Provider : Price[p] = Fare

\* How far the call of s has come for its user.
Progress(s) ==
    CASE stage[s] = "idle" -> "looking"
      [] Active(s) -> IF streamed[s] THEN "talking" ELSE "asking"
      [] stage[s] = "done" -> "done"
      [] stage[s] = "failed" -> "raised"
      [] stage[s] \in Left -> stage[s]

AsCall(s) ==
    [how |-> "stream", at |-> Progress(s),
     left |-> IF Active(s) THEN Len(Ranking[s]) - at[s] ELSE 0,
     told |-> committed[s], seen |-> Active(s) /\ Current(s) \in mirrored]

\* Attempts that ended and whose payment the consumer did not book.
Lapsed ==
    {a \in Attempt : /\ a[2] <= at[a[1]]
                     /\ Active(a[1]) => a # Current(a[1])
                     /\ a \in reported => a \in Abandoned}

Streams(o) == {s \in Session : Owner[s] = o}

Calls(o) == INSTANCE ConsumerCalls WITH
    Caller <- Streams(o), Price <- Fare, Funds <- StartBalance,
    MaxOffers <- Cardinality(Attempt),
    call <- [s \in Streams(o) |-> AsCall(s)],
    balance <- Balance(o, mirrored),
    unseen <- Total(Of(o, Lapsed \ mirrored)),
    pulled <- Total(Of(o, Lapsed \cap mirrored))

\* To everyone who pays, the streams are calls as ConsumerCalls has them:
\* failover, receipts, gossip that overtakes the frames and requests that get
\* through late never charge the account otherwise, or let a call sign without
\* the price in it.
ImplementsCalls ==
    /\ \A o \in Asker : Calls(o)!OneCallEach("stream")
    /\ [][\A o \in Asker : Calls(o)!CallsStep]_vars
=============================================================================
