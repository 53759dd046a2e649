----------------------------- MODULE ConsumerCalls -----------------------------
(***************************************************************************)
(* What those who use one Consumer side by side see of it                  *)
(* (src/kemi/consumer.py): calls of stream_generate and of run_job that    *)
(* draw on one account.  StreamSession and ChunkScheduler tell what goes   *)
(* on inside a call, and implement this; here a call is what it asks of    *)
(* the account and how it can end.  A job is one chunk of one item; of a   *)
(* longer one that crashes the other workers go on, see ChunkScheduler.    *)
(*                                                                         *)
(* Between its last look at the balance and the end of an attempt a call   *)
(* has signed one payment.  The node's replica hears of it when the        *)
(* attempt ends well, when a stream ends that has shown it was paid for,   *)
(* or by gossip: from a witness, or from the provider.                     *)
(***************************************************************************)
EXTENDS Integers

CONSTANTS
    Caller,         \* those that make calls, each one at a time
    Price,          \* of every attempt
    Funds,          \* the balance to begin with
    MaxOffers       \* bound: how many providers a lookup finds

ASSUME CallAssumption ==
    Price \in Nat \ {0} /\ Funds \in Nat /\ MaxOffers \in Nat

VARIABLES
    call,       \* call[c]: c's call, or its last one
    balance,    \* of the account, on the node's own replica
    unseen,     \* payments of attempts that ended, in force or perhaps never,
                \* that the replica does not know of
    pulled      \* history: those of them it came to know of by gossip

account == <<balance, unseen, pulled>>

\* MAX_ATTEMPTS_PER_PROVIDER: a chunk is given to a provider twice.
MaxAttempts == 2

\* An attempt is under way: a payment is signed and the call waits.
Signing == {"asking", "talking"}

\* Waiting for a lookup, for a provider, between two tokens; or, a job, for its
\* workers to look at the balance again, which they need never do.
Live == {"looking", "choosing"} \cup Signing

Running(c) == call[c].at \in Live

\* A call with n attempts left, of the next one nothing known.
Fresh(how, at, n) == [how |-> how, at |-> at, left |-> n, told |-> FALSE, seen |-> FALSE]

CallsInit ==
    /\ call = [c \in Caller |-> Fresh("none", "idle", 0)]
    /\ balance = Funds /\ unseen = 0 /\ pulled = 0

\* The call begins: it looks for providers.
Begun(how) == Fresh(how, "looking", 0)

\* Mutant: nobody looks at the balance before a payment is signed.
Covered_Unchecked(how, held) == TRUE

\* What the account must hold for an attempt: a job keeps a margin for the
\* attempt it is about to make.
Covered(how, held) == held >= (IF how = "batch" THEN 2 * Price ELSE Price)

\* The call goes on, or is over.
On(c, at, n) == Fresh(call[c].how, at, n)

Over(c, outcome) == On(c, outcome, 0)

\* The call has n attempts left and the account holds held: a payment is signed
\* and the request sent, or the call fails.
Goes(c, n, held) ==
    call' = [call EXCEPT ![c] = IF n > 0 /\ Covered(call[c].how, held)
                                THEN On(c, "asking", n - 1) ELSE Over(c, "raised")]

\* list_providers has answered.
Find(c) ==
    /\ call[c].at = "looking"
    /\ \E n \in 0..MaxOffers :
          Goes(c, IF call[c].how = "batch" THEN MaxAttempts * n ELSE n, balance)
    /\ UNCHANGED account

\* A worker of a job is handed the chunk that was given back.
Choose(c) ==
    /\ call[c].at = "choosing"
    /\ Goes(c, call[c].left, balance)
    /\ UNCHANGED account

\* A frame that is only sent when the payment has been applied.
Hear(c) ==
    /\ call[c].at = "asking" /\ call[c].how = "stream"
    /\ call' = [call EXCEPT ![c].told = TRUE]
    /\ UNCHANGED account

\* The payment of the attempt that runs comes with another node's ledger.
See(c) ==
    /\ call[c].at \in Signing /\ ~call[c].seen
    /\ call' = [call EXCEPT ![c].seen = TRUE]
    /\ balance' = balance - Price
    /\ UNCHANGED <<unseen, pulled>>

\* A token.
Speak(c) ==
    /\ call[c].how = "stream" /\ call[c].at \in Signing
    /\ call' = [call EXCEPT ![c].at = "talking", ![c].told = TRUE]
    /\ UNCHANGED account

\* The payment of the attempt is in the replica from here on (add_tx).
Booked(c) == balance' = IF call[c].seen THEN balance ELSE balance - Price

\* The attempt ends well: its payment is in force and mirrored.
Finish(c) ==
    /\ call[c].at \in Signing
    /\ call' = [call EXCEPT ![c] = Over(c, "done")]
    /\ Booked(c)
    /\ UNCHANGED <<unseen, pulled>>

\* Nothing is mirrored of an attempt: its payment may have been applied, and
\* the request may still get there.
Forgotten(c) ==
    /\ IF call[c].seen THEN pulled' = pulled + Price /\ UNCHANGED unseen
                       ELSE unseen' = unseen + Price /\ UNCHANGED pulled
    /\ UNCHANGED balance

\* The attempt fails.  A stream that was told mirrors the payment, and is not
\* tried elsewhere when it has talked.
Fail(c) ==
    /\ call[c].at \in Signing
    /\ IF call[c].told THEN Booked(c) /\ UNCHANGED <<unseen, pulled>> ELSE Forgotten(c)
    /\ IF call[c].how = "batch"
       THEN call' = [call EXCEPT ![c] = On(c, "choosing", call[c].left)]
       ELSE IF call[c].at = "talking" THEN call' = [call EXCEPT ![c] = Over(c, "raised")]
                                      ELSE Goes(c, call[c].left, balance')

\* An answer that is sealed as it should be and no object: an error nobody
\* expects, which ends the call.
Crash(c) ==
    /\ call[c].at \in Signing
    /\ call' = [call EXCEPT ![c] = Over(c, "crashed")]
    /\ Forgotten(c)

\* The caller gives up.
Cancel(c) ==
    /\ Running(c)
    /\ call' = [call EXCEPT ![c] = Over(c, "cancelled")]
    /\ IF call[c].at \in Signing THEN Forgotten(c) ELSE UNCHANGED account

\* What the caller does not see, and what it may return from.
Quiet(c) == Hear(c) \/ See(c)

Move(c) == Find(c) \/ Choose(c) \/ Finish(c) \/ Fail(c) \/ Crash(c)

\* What was forgotten comes back with another node's ledger, one by one.
Pull ==
    /\ unseen >= Price
    /\ balance' = balance - Price /\ pulled' = pulled + Price /\ unseen' = unseen - Price
    /\ UNCHANGED call

----------------------------------------------------------------------------
\* What the calls of one kind are compared with: every caller makes one.
OneCallEach(how) ==
    /\ call = [c \in Caller |-> Begun(how)]
    /\ balance = Funds /\ unseen = 0 /\ pulled = 0

CallsNext == Pull \/ \E c \in Caller : Move(c) \/ Quiet(c) \/ Speak(c) \/ Cancel(c)

\* Most steps of a protocol are none of a call's.
CallsStep == UNCHANGED <<call, account>> \/ CallsNext
=============================================================================
