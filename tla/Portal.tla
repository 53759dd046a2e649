-------------------------------- MODULE Portal --------------------------------
(***************************************************************************)
(* The public portal (src/kemi/webapp.py): visitors without a node of      *)
(* their own ask the network through the operator's, who gives each a      *)
(* starting allowance and meters what their questions cost.  Visitors,     *)
(* their questions and the operator's console interleave at every await of *)
(* a question; accounts are saved to a file, and the process may end at    *)
(* any time.                                                               *)
(***************************************************************************)
EXTENDS Integers, Sequences, FiniteSets, FiniteSetsExt, SequencesExt

CONSTANTS
    Token,         \* names sessions get, each once
    Address,       \* visitors' addresses
    NoAddress,     \* the address of a connection that has none
    Faucet,        \* faucet of the command line
    Grants,        \* amounts the operator may set or give
    Prices,        \* what an answer may cost
    MaxPrice,      \* what it costs at most
    Wasted,        \* what attempts may cost that come to nothing
    GuestsPerIp, MaxGuests, Cooldown, Window, MaxChats,
    MaxTime, MaxEnds, MaxUnsaved, MaxCredit      \* bounds

ASSUME PortalAssumption ==
    /\ IsFiniteSet(Token) /\ IsFiniteSet(Address) /\ NoAddress \notin Address
    /\ Faucet \in Nat /\ Grants \subseteq Nat
    /\ MaxPrice \in Nat \ {0} /\ Prices \subseteq 0..MaxPrice
    /\ GuestsPerIp \in Nat /\ MaxGuests \in Nat \ {0}
    /\ Cooldown \in Nat /\ Window \in Nat /\ MaxChats \in Nat \ {0}
    /\ Wasted \subseteq Nat
    /\ MaxTime \in Nat /\ MaxEnds \in Nat /\ MaxUnsaved \in Nat /\ MaxCredit \in Nat

VARIABLES
    now,
    faucet,    \* the starting allowance
    known,     \* the tokens in _guests
    guest,     \* guest[t]: the account of t, also one that _guests has lost
    mints,     \* mints[a]: a's claims that are remembered, as in _mints
    queue,     \* the questions that wait for a place among MaxChats, by token
    running,   \* running[t]: t's questions that are being answered
    file,      \* what was saved last
    used,      \* the tokens given out
    ends, unsaved,      \* counters
    lost,      \* history, lost[t]: what was paid for t's questions but not charged to t
    granted    \* history, granted[a]: the claims of a that this process granted

memory  == <<faucet, known, guest>>
asks    == <<queue, running>>
history == <<lost, granted>>
bounds  == <<ends, unsaved>>
vars    == <<now, memory, mints, asks, file, used, bounds, history>>

\* credit is what t was ever given (history); it is part of the account so
\* that it is saved and lost with it.
Fresh(amount) ==
    [balance |-> amount, spent |-> 0, credit |-> amount, banned |-> FALSE,
     seen |-> now, busy |-> FALSE, last |-> -Cooldown]

Empty == [balance |-> 0, spent |-> 0, credit |-> 0, banned |-> FALSE,
          seen |-> 0, busy |-> FALSE, last |-> -Cooldown]

\* What becomes of an account.
Seen(g)   == [g EXCEPT !.seen = now]
Asking(g) == [g EXCEPT !.busy = TRUE, !.last = now, !.seen = now]
Freed(g)  == [g EXCEPT !.busy = FALSE]
Loaded(g) == [g EXCEPT !.busy = FALSE, !.last = -Cooldown]
Gifted(g, amount) == [g EXCEPT !.balance = @ + amount, !.credit = @ + amount]
Suspended(g, b)   == [g EXCEPT !.banned = b]

\* Mutant: what is taken from the balance is not written down as spent.
Charged_Unbooked(g, price) == [g EXCEPT !.balance = @ - price, !.busy = FALSE]

Charged(g, price) ==
    [g EXCEPT !.balance = @ - price, !.spent = @ + price, !.busy = FALSE]

Becomes(t, g) == guest' = [guest EXCEPT ![t] = g]

Init ==
    /\ now = 0
    /\ faucet = Faucet /\ known = {} /\ guest = [t \in Token |-> Empty]
    /\ mints = [a \in Address |-> {}]
    /\ queue = <<>> /\ running = [t \in Token |-> 0]
    /\ file = [faucet |-> Faucet, guests |-> <<>>]
    /\ used = {} /\ ends = 0 /\ unsaved = 0
    /\ lost = [t \in Token |-> 0] /\ granted = [a \in Address |-> {}]

\* _save, which only warns when it cannot write.  It is the last thing every
\* caller does: an error that is not of the file system (text that has no
\* UTF-8) leaves memory and file as a write that failed does, and differs in
\* what the caller is told, which is left out.
Save ==
    \/ /\ file' = [faucet |-> faucet', guests |-> [t \in known' |-> guest'[t]]]
       /\ UNCHANGED bounds
    \/ /\ unsaved < MaxUnsaved /\ unsaved' = unsaved + 1
       /\ UNCHANGED <<file, ends>>

----------------------------------------------------------------------------
\* Visitors.

\* Mutant: a claim counts until the window is full, not until it is over.
Recent_Short(a) == {m \in mints[a] : m.at > now - Window}

\* The claims of a that count.
Recent(a) == {m \in mints[a] : m.at >= now - Window}

\* Claims of one moment are told apart by their number.
Claim(a) == [nth |-> Cardinality(granted[a]) + 1, at |-> now]

\* _claim_allowance: a has one more; when there are too many addresses
\* those without a recent claim are forgotten.
Claimed(a) ==
    LET claimed == [mints EXCEPT ![a] = Recent(a) \cup {Claim(a)}]
        many == Cardinality({b \in Address : claimed[b] # {}}) > MaxGuests
    IN [b \in Address |->
          IF many /\ \A m \in claimed[b] : m.at < now - Window THEN {}
          ELSE claimed[b]]

Limited(a) == a # NoAddress /\ faucet > 0 /\ GuestsPerIp > 0

\* The address has claimed too often: all that changes is what is recent.
Refuse(a) ==
    /\ Limited(a) /\ Cardinality(Recent(a)) >= GuestsPerIp
    /\ mints' = [mints EXCEPT ![a] = Recent(a)]
    /\ UNCHANGED <<now, memory, asks, file, used, bounds, history>>

\* _evict: the one seen longest ago goes when there is one too many.
Evicted(t) ==
    IF Cardinality(known \cup {t}) <= MaxGuests THEN {{}}
    ELSE {{e} : e \in {k \in known : \A j \in known : guest[k].seen <= guest[j].seen}}

\* _guest makes t.
Welcome(t, a) ==
    /\ t \notin used /\ used' = used \cup {t}
    /\ IF Limited(a)
       THEN /\ Cardinality(Recent(a)) < GuestsPerIp /\ mints' = Claimed(a)
            /\ granted' = [granted EXCEPT ![a] = @ \cup {Claim(a)}]
       ELSE UNCHANGED <<mints, granted>>
    /\ Becomes(t, Fresh(faucet))
    /\ \E E \in Evicted(t) : known' = (known \ E) \cup {t}
    /\ UNCHANGED faucet
    /\ Save
    /\ UNCHANGED <<now, asks, lost>>

\* _guest and chat_state: t is back, or looks for the answer.
Resume(t) ==
    /\ t \in known
    /\ Becomes(t, Seen(guest[t]))
    /\ UNCHANGED <<now, faucet, known, mints, asks, file, used, bounds, history>>

\* Mutant: nothing keeps a visitor from asking while it waits for an answer.
Ask_Again(t) ==
    /\ t \in known
    /\ LET g == guest[t]
       IN ~g.banned /\ now - g.last >= Cooldown /\ g.balance > 0
    /\ Becomes(t, Asking(guest[t]))
    /\ queue' = Append(queue, t)
    /\ UNCHANGED <<now, faucet, known, mints, running, file, used, bounds, history>>

\* submit_ask.  A refusal is Resume.
Ask(t) ==
    /\ t \in known
    /\ LET g == guest[t]
       IN ~g.banned /\ ~g.busy /\ now - g.last >= Cooldown /\ g.balance > 0
    /\ Becomes(t, Asking(guest[t]))
    /\ queue' = Append(queue, t)
    /\ UNCHANGED <<now, faucet, known, mints, running, file, used, bounds, history>>

----------------------------------------------------------------------------
\* _run_ask.

Chats == FoldFunction(LAMBDA x, y : x + y, 0, running)

\* There is a place for the question that waits for longest.
Start ==
    /\ queue # <<>> /\ Chats < MaxChats
    /\ queue' = Tail(queue)
    /\ running' = [running EXCEPT ![Head(queue)] = @ + 1]
    /\ UNCHANGED <<now, memory, mints, file, used, bounds, history>>

\* chat_once returns: the visitor is charged what the provider took that
\* answered.  t may be gone from _guests.
Answered(t) ==
    /\ running[t] > 0 /\ running' = [running EXCEPT ![t] = @ - 1]
    /\ \E price \in Prices, wasted \in Wasted :
          /\ Becomes(t, Charged(guest[t], price))
          /\ lost' = [lost EXCEPT ![t] = @ + wasted]
    /\ UNCHANGED <<faucet, known>>
    /\ Save
    /\ UNCHANGED <<now, queue, mints, used, granted>>

\* Mutant: after an error the visitor stays busy.
Failed_Busy(t) ==
    /\ running[t] > 0 /\ running' = [running EXCEPT ![t] = @ - 1]
    /\ \E wasted \in Wasted : lost' = [lost EXCEPT ![t] = @ + wasted]
    /\ UNCHANGED memory
    /\ Save
    /\ UNCHANGED <<now, queue, mints, used, granted>>

\* It raises: no provider answered.
Failed(t) ==
    /\ running[t] > 0 /\ running' = [running EXCEPT ![t] = @ - 1]
    /\ \E wasted \in Wasted : lost' = [lost EXCEPT ![t] = @ + wasted]
    /\ Becomes(t, Freed(guest[t]))
    /\ UNCHANGED <<faucet, known>>
    /\ Save
    /\ UNCHANGED <<now, queue, mints, used, granted>>

----------------------------------------------------------------------------
\* The operator's console.

\* admin_guest_action: a gift, a ban, its end.
Console(t) ==
    /\ t \in known
    /\ \/ \E amount \in Grants \ {0} :
             /\ guest[t].credit + amount <= MaxCredit
             /\ Becomes(t, Gifted(guest[t], amount))
       \/ \E b \in BOOLEAN : Becomes(t, Suspended(guest[t], b))
    /\ UNCHANGED <<faucet, known>>
    /\ Save
    /\ UNCHANGED <<now, mints, asks, used, history>>

\* admin_set_faucet.
SetFaucet ==
    /\ faucet' \in Grants
    /\ UNCHANGED <<known, guest>>
    /\ Save
    /\ UNCHANGED <<now, mints, asks, used, history>>

----------------------------------------------------------------------------
\* The process ends, by stop, which saves, or without a word, and a new one
\* loads the file.

Image == [faucet |-> faucet, guests |-> [t \in known |-> guest[t]]]

End ==
    /\ ends < MaxEnds /\ ends' = ends + 1
    /\ \E saved \in {file, Image} :
          /\ file' = saved
          /\ faucet' = saved.faucet
          /\ known' = DOMAIN saved.guests
          /\ guest' = [t \in Token |->
                         IF t \in DOMAIN saved.guests
                         THEN Loaded(saved.guests[t])
                         ELSE Empty]
    /\ mints' = [a \in Address |-> {}] /\ granted' = [a \in Address |-> {}]
    /\ queue' = <<>> /\ running' = [t \in Token |-> 0]
    /\ UNCHANGED <<now, used, unsaved, lost>>

Tick ==
    /\ now < MaxTime /\ now' = now + 1
    /\ UNCHANGED <<memory, mints, asks, file, used, bounds, history>>

Next ==
    \/ \E t \in Token, a \in Address \cup {NoAddress} : Welcome(t, a)
    \/ \E a \in Address : Refuse(a)
    \/ \E t \in Token : Resume(t) \/ Ask(t) \/ Answered(t) \/ Failed(t) \/ Console(t)
    \/ Start \/ SetFaucet \/ End \/ Tick

Spec == Init /\ [][Next]_vars

\* chat_once ends: streams end, and so do the consumer's attempts.
Fairness == WF_vars(Start) /\ \A t \in Token : WF_vars(Answered(t) \/ Failed(t))

FairSpec == Spec /\ Fairness

----------------------------------------------------------------------------
\* What visitors were given is what they have and what they have spent, also
\* when a process ended in between and whatever it had not saved.
BalanceExplained ==
    \A t \in known : guest[t].balance + guest[t].spent = guest[t].credit

\* Nobody is ever further in debt than by one question.
WithinOneQuestion == \A t \in known : guest[t].balance > -MaxPrice

\* In no window does an address get more allowances than it may, as long as
\* the process lives, however many addresses come.
AllowancesLimited ==
    \A a \in Address : Cardinality({m \in granted[a] : m.at >= now - Window}) <= GuestsPerIp

\* Whoever asks can ask again, whatever becomes of the question.
AsksEnd == \A t \in Token : guest[t].busy ~> ~guest[t].busy

\* What webapp.py says of the portal: it meters each visitor's allowance by
\* exactly what its questions cost.
MeteredExactly == \A t \in known : lost[t] = 0
=============================================================================
