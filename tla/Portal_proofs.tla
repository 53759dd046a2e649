----------------------------- MODULE Portal_proofs -----------------------------
(***************************************************************************)
(* What holds of the portal for every number of visitors, every price and  *)
(* every order of questions, saves and ends of the process.                *)
(***************************************************************************)
EXTENDS Portal, SequenceTheorems, FiniteSetTheorems, TLAPS

Account == [balance : Int, spent : Int, credit : Int, banned : BOOLEAN,
            seen : Int, busy : BOOLEAN, last : Int]

\* An account whose books agree and that owes less than a question.
Sound == {g \in Account : g.balance + g.spent = g.credit /\ g.balance > -MaxPrice}

\* Its owner waits for an answer, and could pay when it asked.
Paying(g) == g.busy = TRUE /\ g.balance > 0

Shape ==
    /\ now \in Nat /\ faucet \in Nat
    /\ used \subseteq Token /\ known \subseteq used
    /\ queue \in Seq(Token) /\ running \in [Token -> 0..1]

Books == guest \in [Token -> Sound]

Filed ==
    /\ file.faucet \in Nat /\ DOMAIN file.guests \subseteq used
    /\ \A t \in DOMAIN file.guests : file.guests[t] \in Sound

Waiting == {queue[i] : i \in DOMAIN queue}

\* A visitor has one question under way at most, and is busy while it has.
Turns ==
    /\ \A i, j \in DOMAIN queue : queue[i] = queue[j] => i = j
    /\ \A t \in Waiting : running[t] = 0
    /\ \A t \in Token : t \in Waiting \/ running[t] # 0 => t \in used /\ Paying(guest[t])

PortalInv == Shape /\ Books /\ Filed /\ Turns

----------------------------------------------------------------------------
\* Accounts.

\* A new account is sound.
LEMMA FreshIsSound ==
    ASSUME NEW amount \in Nat, now \in Nat
    PROVE  Fresh(amount) \in Sound
BY PortalAssumption DEF Fresh, Sound, Account

\* So is an account that nobody has.
LEMMA EmptyIsSound == Empty \in Sound
BY PortalAssumption DEF Empty, Sound, Account

\* A visit changes nothing about what an account holds.
LEMMA SeenIsSound ==
    ASSUME NEW g \in Sound, now \in Nat
    PROVE  Seen(g) \in Sound /\ (Paying(g) => Paying(Seen(g)))
<1>1. g \in Account /\ g.balance + g.spent = g.credit /\ g.balance > -MaxPrice
  BY DEF Sound
<1>2. Seen(g) \in Account
  BY <1>1 DEF Seen, Account
<1>3. Seen(g).balance = g.balance /\ Seen(g).spent = g.spent /\ Seen(g).credit = g.credit
      /\ Seen(g).busy = g.busy
  BY <1>1 DEF Seen, Account
<1> QED BY <1>1, <1>2, <1>3 DEF Sound, Paying

\* Whoever asks has something to pay with.
LEMMA AskingIsSound ==
    ASSUME NEW g \in Sound, now \in Nat, g.balance > 0
    PROVE  Asking(g) \in Sound /\ Paying(Asking(g))
<1>1. g \in Account /\ g.balance + g.spent = g.credit /\ g.balance > -MaxPrice
  BY DEF Sound
<1>0. now \in Int
  OBVIOUS
<1>2. Asking(g) \in Account
  BY <1>0, <1>1 DEF Asking, Account
<1>3. /\ Asking(g).balance = g.balance /\ Asking(g).spent = g.spent
      /\ Asking(g).credit = g.credit /\ Asking(g).busy = TRUE
  BY <1>1 DEF Asking, Account
<1> QED BY <1>1, <1>2, <1>3 DEF Sound, Paying

\* An answer that failed costs nothing.
LEMMA FreedIsSound ==
    ASSUME NEW g \in Sound
    PROVE  Freed(g) \in Sound
BY DEF Freed, Sound, Account

\* What comes from the file is as sound as what went there.
LEMMA LoadedIsSound ==
    ASSUME NEW g \in Sound
    PROVE  Loaded(g) \in Sound
<1>1. g \in Account /\ g.balance + g.spent = g.credit /\ g.balance > -MaxPrice
  BY DEF Sound
<1>0. -Cooldown \in Int
  BY PortalAssumption
<1>2. Loaded(g) \in Account
  BY <1>0, <1>1 DEF Loaded, Account
<1>3. Loaded(g).balance = g.balance /\ Loaded(g).spent = g.spent /\ Loaded(g).credit = g.credit
  BY <1>1 DEF Loaded, Account
<1> QED BY <1>1, <1>2, <1>3, PortalAssumption DEF Sound

\* A gift is written down.
LEMMA GiftedIsSound ==
    ASSUME NEW g \in Sound, NEW amount \in Nat
    PROVE  Gifted(g, amount) \in Sound /\ (Paying(g) => Paying(Gifted(g, amount)))
<1>1. g \in Account /\ g.balance + g.spent = g.credit /\ g.balance > -MaxPrice
  BY DEF Sound
<1>0. g.balance + amount \in Int /\ g.credit + amount \in Int
  BY <1>1 DEF Account
<1>2. Gifted(g, amount) \in Account
  BY <1>0, <1>1 DEF Gifted, Account
<1>3. /\ Gifted(g, amount).balance = g.balance + amount
      /\ Gifted(g, amount).credit = g.credit + amount
      /\ Gifted(g, amount).spent = g.spent /\ Gifted(g, amount).busy = g.busy
  BY <1>1 DEF Gifted, Account
<1> QED BY <1>1, <1>2, <1>3, PortalAssumption DEF Account, Sound, Paying

\* A ban does not touch the books.
LEMMA SuspendedIsSound ==
    ASSUME NEW g \in Sound, NEW b \in BOOLEAN
    PROVE  Suspended(g, b) \in Sound /\ (Paying(g) => Paying(Suspended(g, b)))
BY DEF Suspended, Sound, Account, Paying

\* One question puts whoever could pay in debt by less than a question.
LEMMA ChargedIsSound ==
    ASSUME NEW g \in Sound, NEW price \in 0..MaxPrice, g.balance > 0
    PROVE  Charged(g, price) \in Sound
<1>1. g \in Account /\ g.balance + g.spent = g.credit /\ g.balance > -MaxPrice
  BY DEF Sound
<1>0. price \in Nat /\ g.balance - price \in Int /\ g.spent + price \in Int
  BY <1>1, PortalAssumption DEF Account
<1>2. Charged(g, price) \in Account
  BY <1>0, <1>1 DEF Charged, Account
<1>3. /\ Charged(g, price).balance = g.balance - price
      /\ Charged(g, price).spent = g.spent + price /\ Charged(g, price).credit = g.credit
  BY <1>1 DEF Charged, Account
<1> QED BY <1>1, <1>2, <1>3, PortalAssumption DEF Account, Sound

----------------------------------------------------------------------------
\* Parts of a step.

\* An account changes and no other: all of them are sound as before.
LEMMA BooksKept ==
    ASSUME Books, NEW t \in Token, NEW g \in Sound, Becomes(t, g)
    PROVE  /\ Books'
           /\ guest'[t] = g
           /\ \A u \in Token \ {t} : guest'[u] = guest[u]
BY DEF Books, Becomes

\* Whether it can be written or not, the file is sound when memory is.
LEMMA SaveKeeps ==
    ASSUME Filed, Books', faucet' \in Nat, used \subseteq used', used' \subseteq Token,
           known' \subseteq used', Save
    PROVE  Filed'
<1>1. CASE file' = file
  BY <1>1 DEF Filed
<1>2. CASE file' = [faucet |-> faucet', guests |-> [t \in known' |-> guest'[t]]]
  <2>1. file'.faucet = faucet' /\ file'.guests = [t \in known' |-> guest'[t]]
    BY <1>2
  <2> QED BY <2>1 DEF Filed, Books
<1> QED BY <1>1, <1>2 DEF Save

\* Turns are kept when no question moves and whoever has one could still pay.
LEMMA TurnsKept ==
    ASSUME Turns, UNCHANGED <<queue, running>>, used \subseteq used',
           \A t \in used : Paying(guest[t]) => Paying(guest'[t])
    PROVE  Turns'
<1>1. Waiting' = Waiting
  BY DEF Waiting
<1> QED BY <1>1 DEF Turns

----------------------------------------------------------------------------
\* Steps.

\* There is nobody at the start.
LEMMA InitIsSound == Init => PortalInv
<1> SUFFICES ASSUME Init PROVE PortalInv
  OBVIOUS
<1>1. Shape
  BY PortalAssumption DEF Init, Shape
<1>2. Books
  BY EmptyIsSound DEF Init, Books
<1>3. Filed
  <2>1. file.faucet = Faucet /\ file.guests = <<>>
    BY DEF Init
  <2> QED BY <2>1, PortalAssumption DEF Filed
<1>4. Turns
  BY DEF Init, Turns, Waiting
<1> QED BY <1>1, <1>2, <1>3, <1>4 DEF PortalInv

\* A new visitor has no question yet.
LEMMA WelcomeStep ==
    ASSUME PortalInv, NEW t \in Token, NEW a \in Address \cup {NoAddress}, Welcome(t, a)
    PROVE  PortalInv'
<1>1. /\ t \notin used /\ used' = used \cup {t} /\ faucet' = faucet /\ now' = now
      /\ queue' = queue /\ running' = running /\ Becomes(t, Fresh(faucet)) /\ Save
      /\ known' \subseteq used'
  BY DEF Welcome, PortalInv, Shape, asks
<1>2. Fresh(faucet) \in Sound
  BY FreshIsSound DEF PortalInv, Shape
<1>3. Books' /\ \A u \in Token \ {t} : guest'[u] = guest[u]
  BY <1>1, <1>2, BooksKept DEF PortalInv
<1>4. Shape'
  BY <1>1 DEF PortalInv, Shape
<1>5. Filed'
  BY <1>1, <1>3, <1>4, SaveKeeps DEF PortalInv, Shape
<1>6. Turns'
  <2>1. \A u \in used : guest'[u] = guest[u]
    BY <1>1, <1>3 DEF PortalInv, Shape
  <2> QED BY <1>1, <2>1, TurnsKept DEF PortalInv
<1> QED BY <1>3, <1>4, <1>5, <1>6 DEF PortalInv

\* A refusal leaves every account alone.
LEMMA RefuseStep ==
    ASSUME PortalInv, NEW a \in Address, Refuse(a)
    PROVE  PortalInv'
<1>1. UNCHANGED <<now, faucet, known, guest, queue, running, file, used>>
  BY DEF Refuse, memory, asks
<1> QED BY <1>1 DEF PortalInv, Shape, Books, Filed, Turns, Waiting

\* Nor does the clock.
LEMMA TickStep ==
    ASSUME PortalInv, Tick
    PROVE  PortalInv'
<1>1. UNCHANGED <<faucet, known, guest, queue, running, file, used>> /\ now' = now + 1
  BY DEF Tick, memory, asks
<1> QED BY <1>1 DEF PortalInv, Shape, Books, Filed, Turns, Waiting

\* A visit.
LEMMA ResumeStep ==
    ASSUME PortalInv, NEW t \in Token, Resume(t)
    PROVE  PortalInv'
<1>1. /\ Becomes(t, Seen(guest[t]))
      /\ UNCHANGED <<now, faucet, known, queue, running, file, used>>
  BY DEF Resume, asks
<1>2. guest[t] \in Sound /\ now \in Nat
  BY DEF PortalInv, Books, Shape
<1>3. Seen(guest[t]) \in Sound /\ (Paying(guest[t]) => Paying(Seen(guest[t])))
  BY <1>2, SeenIsSound
<1>4. /\ Books' /\ guest'[t] = Seen(guest[t])
      /\ \A u \in Token \ {t} : guest'[u] = guest[u]
  BY <1>1, <1>3, BooksKept DEF PortalInv
<1>5. Shape' /\ Filed'
  BY <1>1 DEF PortalInv, Shape, Filed
<1>6. Turns'
  <2>1. \A u \in used : Paying(guest[u]) => Paying(guest'[u])
    BY <1>3, <1>4 DEF PortalInv, Shape
  <2> QED BY <1>1, <2>1, TurnsKept DEF PortalInv
<1> QED BY <1>4, <1>5, <1>6 DEF PortalInv

\* Who asks is not busy, so has no question under way.
LEMMA AskStep ==
    ASSUME PortalInv, NEW t \in Token, Ask(t)
    PROVE  PortalInv'
<1>1. /\ t \in known /\ guest[t].busy # TRUE /\ guest[t].balance > 0
      /\ Becomes(t, Asking(guest[t])) /\ queue' = Append(queue, t)
      /\ UNCHANGED <<now, faucet, known, running, file, used>>
  BY DEF Ask
<1>2. guest[t] \in Sound /\ now \in Nat /\ t \in used
  BY <1>1 DEF PortalInv, Books, Shape
<1>3. Asking(guest[t]) \in Sound /\ Paying(Asking(guest[t]))
  BY <1>1, <1>2, AskingIsSound
<1>4. /\ Books' /\ guest'[t] = Asking(guest[t])
      /\ \A u \in Token \ {t} : guest'[u] = guest[u]
  BY <1>1, <1>3, BooksKept DEF PortalInv
<1>5. Shape' /\ Filed'
  BY <1>1 DEF PortalInv, Shape, Filed
<1>6. Turns'
  <2>1. t \notin Waiting /\ running[t] = 0
    BY <1>1 DEF PortalInv, Turns, Paying
  <2>2. /\ DOMAIN queue' = 1..(Len(queue) + 1) /\ DOMAIN queue = 1..Len(queue)
        /\ Len(queue) \in Nat /\ queue'[Len(queue) + 1] = t
        /\ \A i \in DOMAIN queue : queue'[i] = queue[i]
    BY <1>1 DEF PortalInv, Shape
  <2>3. Waiting' = Waiting \cup {t}
    BY <2>2 DEF Waiting
  <2>4. \A i, j \in DOMAIN queue' : queue'[i] = queue'[j] => i = j
    <3>1. \A i \in DOMAIN queue : queue[i] # t
      BY <2>1 DEF Waiting
    <3> QED BY <2>2, <3>1 DEF PortalInv, Turns
  <2>5. \A u \in Waiting' : running'[u] = 0
    BY <1>1, <2>1, <2>3 DEF PortalInv, Turns
  <2>6. \A u \in Token : u \in Waiting' \/ running'[u] # 0 => u \in used' /\ Paying(guest'[u])
    BY <1>1, <1>2, <1>3, <1>4, <2>3 DEF PortalInv, Turns
  <2> QED BY <2>4, <2>5, <2>6 DEF Turns
<1> QED BY <1>4, <1>5, <1>6 DEF PortalInv

\* The question at the head of the queue has its turn and nobody else's.
LEMMA StartStep ==
    ASSUME PortalInv, Start
    PROVE  PortalInv'
<1> DEFINE h == Head(queue)
<1>1. /\ queue # <<>> /\ queue' = Tail(queue) /\ running' = [running EXCEPT ![h] = @ + 1]
      /\ UNCHANGED <<now, faucet, known, guest, file, used>>
  BY DEF Start, memory
<1>2. /\ Len(queue) \in Nat /\ Len(queue) > 0 /\ DOMAIN queue = 1..Len(queue)
      /\ DOMAIN queue' = 1..(Len(queue) - 1) /\ queue' \in Seq(Token)
      /\ h = queue[1] /\ h \in Token
      /\ \A i \in DOMAIN queue' : queue'[i] = queue[i + 1]
  BY <1>1 DEF PortalInv, Shape
<1>3. h \in Waiting /\ running[h] = 0
  BY <1>2 DEF PortalInv, Turns, Waiting
<1>4. /\ running'[h] = 1 /\ running' \in [Token -> 0..1]
      /\ \A u \in Token \ {h} : running'[u] = running[u]
  BY <1>1, <1>2, <1>3 DEF PortalInv, Shape
<1>5. Shape' /\ Books' /\ Filed'
  BY <1>1, <1>2, <1>4 DEF PortalInv, Shape, Books, Filed
<1>6. Waiting' \subseteq Waiting \ {h}
  BY <1>2 DEF PortalInv, Turns, Waiting
<1>7. \A i, j \in DOMAIN queue' : queue'[i] = queue'[j] => i = j
  <2> SUFFICES ASSUME NEW i \in DOMAIN queue', NEW j \in DOMAIN queue', queue'[i] = queue'[j]
               PROVE  i = j
    OBVIOUS
  <2>1. i \in Int /\ j \in Int /\ i + 1 \in DOMAIN queue /\ j + 1 \in DOMAIN queue
        /\ queue[i + 1] = queue[j + 1]
    BY <1>2
  <2>2. i + 1 = j + 1
    BY <2>1 DEF PortalInv, Turns
  <2> QED BY <2>1, <2>2
<1>8. \A u \in Waiting' : running'[u] = 0
  <2>1. Waiting \subseteq Token
    BY DEF PortalInv, Shape, Waiting
  <2> QED BY <1>4, <1>6, <2>1 DEF PortalInv, Turns
<1>9. \A u \in Token : u \in Waiting' \/ running'[u] # 0 => u \in used' /\ Paying(guest'[u])
  BY <1>1, <1>3, <1>4, <1>6 DEF PortalInv, Turns
<1>10. Turns'
  BY <1>7, <1>8, <1>9 DEF Turns
<1> QED BY <1>5, <1>10 DEF PortalInv

\* When a question ends its owner has no other.
LEMMA TurnEnds ==
    ASSUME PortalInv, NEW t \in Token, running[t] > 0,
           running' = [running EXCEPT ![t] = @ - 1], UNCHANGED <<queue, used>>,
           \A u \in Token \ {t} : guest'[u] = guest[u]
    PROVE  Turns' /\ running' \in [Token -> 0..1]
<1>1. running[t] = 1 /\ running'[t] = 0 /\ running' \in [Token -> 0..1]
      /\ \A u \in Token \ {t} : running'[u] = running[u]
  BY DEF PortalInv, Shape
<1>2. t \notin Waiting /\ Waiting' = Waiting /\ Waiting \subseteq Token
  BY <1>1 DEF PortalInv, Turns, Waiting, Shape
<1> QED BY <1>1, <1>2 DEF PortalInv, Turns

\* An answer is paid by one who could pay something.
LEMMA AnsweredStep ==
    ASSUME PortalInv, NEW t \in Token, Answered(t)
    PROVE  PortalInv'
<1>1. /\ running[t] > 0 /\ running' = [running EXCEPT ![t] = @ - 1] /\ Save
      /\ UNCHANGED <<now, faucet, known, queue, used>>
  BY DEF Answered
<1>2. PICK price \in Prices : Becomes(t, Charged(guest[t], price))
  BY DEF Answered
<1>3. guest[t] \in Sound /\ guest[t].balance > 0 /\ price \in 0..MaxPrice
  <2>1. running[t] # 0
    BY <1>1 DEF PortalInv, Shape
  <2> QED BY <2>1, PortalAssumption DEF PortalInv, Books, Turns, Paying
<1>4. Charged(guest[t], price) \in Sound
  BY <1>3, ChargedIsSound
<1>5. Books' /\ \A u \in Token \ {t} : guest'[u] = guest[u]
  BY <1>2, <1>4, BooksKept DEF PortalInv
<1>6. Turns' /\ running' \in [Token -> 0..1]
  BY <1>1, <1>5, TurnEnds
<1>7. Shape'
  BY <1>1, <1>6 DEF PortalInv, Shape
<1>8. Filed'
  BY <1>1, <1>5, <1>7, SaveKeeps DEF PortalInv, Shape
<1> QED BY <1>5, <1>6, <1>7, <1>8 DEF PortalInv

\* A failure is paid by nobody.
LEMMA FailedStep ==
    ASSUME PortalInv, NEW t \in Token, Failed(t)
    PROVE  PortalInv'
<1>1. /\ running[t] > 0 /\ running' = [running EXCEPT ![t] = @ - 1] /\ Save
      /\ UNCHANGED <<now, faucet, known, queue, used>> /\ Becomes(t, Freed(guest[t]))
  BY DEF Failed
<1>2. Freed(guest[t]) \in Sound
  BY FreedIsSound DEF PortalInv, Books
<1>3. Books' /\ \A u \in Token \ {t} : guest'[u] = guest[u]
  BY <1>1, <1>2, BooksKept DEF PortalInv
<1>4. Turns' /\ running' \in [Token -> 0..1]
  BY <1>1, <1>3, TurnEnds
<1>5. Shape'
  BY <1>1, <1>4 DEF PortalInv, Shape
<1>6. Filed'
  BY <1>1, <1>3, <1>5, SaveKeeps DEF PortalInv, Shape
<1> QED BY <1>3, <1>4, <1>5, <1>6 DEF PortalInv

\* What the operator gives is written down, whatever the visitor is doing.
LEMMA ConsoleStep ==
    ASSUME PortalInv, NEW t \in Token, Console(t)
    PROVE  PortalInv'
<1>1. Save /\ UNCHANGED <<now, faucet, known, queue, running, used>>
  BY DEF Console, asks
<1>2. \E g \in Sound : Becomes(t, g) /\ (Paying(guest[t]) => Paying(g))
  <2>0. guest[t] \in Sound
    BY DEF PortalInv, Books
  <2>1. CASE \E amount \in Grants \ {0} : Becomes(t, Gifted(guest[t], amount))
    <3>1. PICK amount \in Nat : Becomes(t, Gifted(guest[t], amount))
      BY <2>1, PortalAssumption
    <3> QED BY <2>0, <3>1, GiftedIsSound
  <2>2. CASE \E b \in BOOLEAN : Becomes(t, Suspended(guest[t], b))
    <3>1. PICK b \in BOOLEAN : Becomes(t, Suspended(guest[t], b))
      BY <2>2
    <3> QED BY <2>0, <3>1, SuspendedIsSound
  <2> QED BY <2>1, <2>2 DEF Console
<1>3. PICK g \in Sound : Becomes(t, g) /\ (Paying(guest[t]) => Paying(g))
  BY <1>2
<1>4. Books' /\ guest'[t] = g /\ \A u \in Token \ {t} : guest'[u] = guest[u]
  BY <1>3, BooksKept DEF PortalInv
<1>5. Shape'
  BY <1>1 DEF PortalInv, Shape
<1>6. Filed'
  BY <1>1, <1>4, <1>5, SaveKeeps DEF PortalInv, Shape
<1>7. Turns'
  <2>1. \A u \in used : Paying(guest[u]) => Paying(guest'[u])
    BY <1>3, <1>4 DEF PortalInv, Shape
  <2> QED BY <1>1, <2>1, TurnsKept DEF PortalInv
<1> QED BY <1>4, <1>5, <1>6, <1>7 DEF PortalInv

\* What later visitors get is no account's business.
LEMMA SetFaucetStep ==
    ASSUME PortalInv, SetFaucet
    PROVE  PortalInv'
<1>1. faucet' \in Nat /\ Save /\ UNCHANGED <<now, known, guest, queue, running, used>>
  BY PortalAssumption DEF SetFaucet, asks
<1>2. Shape' /\ Books'
  BY <1>1 DEF PortalInv, Shape, Books
<1>3. Filed'
  BY <1>1, <1>2, SaveKeeps DEF PortalInv, Shape
<1>4. Turns'
  BY <1>1, TurnsKept DEF PortalInv
<1> QED BY <1>2, <1>3, <1>4 DEF PortalInv

\* A new process knows what was saved, and nobody waits for it.
LEMMA EndStep ==
    ASSUME PortalInv, End
    PROVE  PortalInv'
<1>1. PICK saved \in {file, Image} :
        /\ file' = saved /\ faucet' = saved.faucet /\ known' = DOMAIN saved.guests
        /\ guest' = [t \in Token |-> IF t \in DOMAIN saved.guests
                                     THEN Loaded(saved.guests[t]) ELSE Empty]
  BY DEF End
<1>2. now' = now /\ used' = used /\ queue' = <<>> /\ running' = [t \in Token |-> 0]
  BY DEF End
<1>3. /\ saved.faucet \in Nat /\ DOMAIN saved.guests \subseteq used
      /\ \A t \in DOMAIN saved.guests : saved.guests[t] \in Sound
  <2>1. CASE saved = file
    BY <2>1 DEF PortalInv, Filed
  <2>2. CASE saved = Image
    <3>1. saved.faucet = faucet /\ saved.guests = [t \in known |-> guest[t]]
      BY <2>2 DEF Image
    <3> QED BY <3>1 DEF PortalInv, Shape, Books
  <2> QED BY <1>1, <2>1, <2>2
<1>4. Filed'
  BY <1>1, <1>2, <1>3 DEF Filed
<1>5. Books'
  <2>1. \A t \in DOMAIN saved.guests : Loaded(saved.guests[t]) \in Sound
    BY <1>3, LoadedIsSound
  <2> QED BY <1>1, <2>1, EmptyIsSound DEF Books
<1>6. Shape'
  BY <1>1, <1>2, <1>3 DEF PortalInv, Shape
<1>7. Turns'
  BY <1>2 DEF Turns, Waiting
<1> QED BY <1>4, <1>5, <1>6, <1>7 DEF PortalInv

----------------------------------------------------------------------------
\* Results.

\* Accounts are sound, on file and in memory, and nobody has two questions
\* under way (_save, _load, submit_ask, _run_ask).
THEOREM PortalInvariance == Spec => []PortalInv
<1>1. Init => PortalInv
  BY InitIsSound
<1>2. PortalInv /\ [Next]_vars => PortalInv'
  <2> SUFFICES ASSUME PortalInv, [Next]_vars PROVE PortalInv'
    OBVIOUS
  <2>1. CASE \E t \in Token, a \in Address \cup {NoAddress} : Welcome(t, a)
    BY <2>1, WelcomeStep
  <2>2. CASE \E a \in Address : Refuse(a)
    BY <2>2, RefuseStep
  <2>3. CASE \E t \in Token : Resume(t) \/ Ask(t) \/ Answered(t) \/ Failed(t) \/ Console(t)
    BY <2>3, ResumeStep, AskStep, AnsweredStep, FailedStep, ConsoleStep
  <2>4. CASE Start \/ SetFaucet \/ End \/ Tick
    BY <2>4, StartStep, SetFaucetStep, EndStep, TickStep
  <2>5. CASE UNCHANGED vars
    <3>1. UNCHANGED <<now, faucet, known, guest, queue, running, file, used>>
      BY <2>5 DEF vars, memory, asks
    <3> QED BY <3>1 DEF PortalInv, Shape, Books, Filed, Turns, Waiting
  <2> QED BY <2>1, <2>2, <2>3, <2>4, <2>5 DEF Next
<1> QED BY <1>1, <1>2, PTL DEF Spec

\* What visitors were given is what they have and what they have spent,
\* whatever is saved and whenever the process ends (submit_ask, _run_ask,
\* admin_guest_action, _load).
THEOREM BooksAreExplained == Spec => []BalanceExplained
<1>1. PortalInv => BalanceExplained
  BY DEF PortalInv, Shape, Books, Sound, BalanceExplained
<1> QED BY <1>1, PortalInvariance, PTL

\* No visitor ever owes as much as a question may cost: the allowance is
\* checked before the question and charged after it, and busy keeps a second
\* question out in between (submit_ask, _run_ask).
THEOREM DebtIsOneQuestion == Spec => []WithinOneQuestion
<1>1. PortalInv => WithinOneQuestion
  BY DEF PortalInv, Shape, Books, Sound, WithinOneQuestion
<1> QED BY <1>1, PortalInvariance, PTL

----------------------------------------------------------------------------
\* Allowances.

ClaimRecord == [nth : Nat, at : Nat]

\* What an address was given in the window is among its remembered claims,
\* and no claim is counted for another.
Allowances ==
    /\ granted \in [Address -> SUBSET ClaimRecord]
    /\ mints \in [Address -> SUBSET ClaimRecord]
    /\ \A a \in Address :
          /\ IsFiniteSet(granted[a]) /\ IsFiniteSet(mints[a])
          /\ \A m \in granted[a] : m.nth <= Cardinality(granted[a])
          /\ {m \in granted[a] : m.at >= now - Window} \subseteq mints[a]
    /\ AllowancesLimited

\* A claim that is granted is not among the earlier ones and makes the window
\* fuller by one at most.
LEMMA GrantEffect ==
    ASSUME PortalInv, Allowances, NEW a \in Address,
           Cardinality(Recent(a)) < GuestsPerIp
    PROVE  LET G == granted[a] \cup {Claim(a)}
           IN  /\ Claim(a) \in ClaimRecord \ granted[a] /\ Claim(a).at = now
               /\ IsFiniteSet(G)
               /\ \A m \in G : m.nth <= Cardinality(G)
               /\ Cardinality({m \in G : m.at >= now - Window}) <= GuestsPerIp
<1> DEFINE G == granted[a] \cup {Claim(a)}
           W == {m \in granted[a] : m.at >= now - Window}
<1>1. /\ IsFiniteSet(granted[a]) /\ IsFiniteSet(mints[a]) /\ now \in Nat
      /\ granted[a] \subseteq ClaimRecord /\ W \subseteq mints[a]
      /\ \A m \in granted[a] : m.nth <= Cardinality(granted[a])
  BY DEF Allowances, PortalInv, Shape
<1>2. Cardinality(granted[a]) \in Nat BY <1>1, FS_CardinalityType
<1>3. Claim(a) \in ClaimRecord /\ Claim(a).nth = Cardinality(granted[a]) + 1 /\ Claim(a).at = now
  BY <1>1, <1>2 DEF Claim, ClaimRecord
<1>4. Claim(a) \notin granted[a]
  <2> SUFFICES ASSUME Claim(a) \in granted[a] PROVE FALSE OBVIOUS
  <2>1. Claim(a).nth <= Cardinality(granted[a]) BY <1>1
  <2> QED BY <1>2, <1>3, <2>1
<1>5. IsFiniteSet(G) /\ Cardinality(G) = Cardinality(granted[a]) + 1
  BY <1>1, <1>4, FS_AddElement
<1>6. ASSUME NEW m \in G PROVE m.nth <= Cardinality(G)
  <2>1. CASE m = Claim(a) BY <1>2, <1>3, <1>5, <2>1
  <2>2. CASE m \in granted[a]
    <3>1. m.nth <= Cardinality(granted[a]) /\ m.nth \in Nat
      BY <1>1, <2>2 DEF ClaimRecord
    <3> QED BY <1>2, <1>5, <3>1
  <2> QED BY <2>1, <2>2
<1>7. Cardinality(W) < GuestsPerIp /\ IsFiniteSet(W) /\ Cardinality(W) \in Nat
  <2>1. W \subseteq Recent(a) BY <1>1 DEF Recent
  <2>2. IsFiniteSet(Recent(a))
    <3>1. Recent(a) \subseteq mints[a] BY DEF Recent
    <3> QED BY <1>1, <3>1, FS_Subset
  <2> HIDE DEF W
  <2>3. IsFiniteSet(W) /\ Cardinality(W) <= Cardinality(Recent(a)) BY <2>1, <2>2, FS_Subset
  <2>4. Cardinality(W) \in Nat /\ Cardinality(Recent(a)) \in Nat
    BY <2>2, <2>3, FS_CardinalityType
  <2>5. GuestsPerIp \in Nat BY PortalAssumption
  <2> QED BY <2>3, <2>4, <2>5
<1>8. Cardinality({m \in G : m.at >= now - Window}) <= GuestsPerIp
  <2>1. {m \in G : m.at >= now - Window} \in SUBSET (W \cup {Claim(a)}) OBVIOUS
  <2> DEFINE V == {m \in G : m.at >= now - Window}
  <2> HIDE DEF V, W
  <2>2. IsFiniteSet(W \cup {Claim(a)}) /\ Cardinality(W \cup {Claim(a)}) <= Cardinality(W) + 1
    <3> DEFINE c == Claim(a)
    <3> HIDE DEF c
    <3>1. /\ IsFiniteSet(W \cup {c})
          /\ Cardinality(W \cup {c}) = IF c \in W THEN Cardinality(W) ELSE Cardinality(W) + 1
      BY <1>7, FS_AddElement
    <3>2. Cardinality(W \cup {c}) <= Cardinality(W) + 1 BY <1>7, <3>1
    <3> QED BY <3>1, <3>2 DEF c
  <2>3. V \in SUBSET (W \cup {Claim(a)}) BY <2>1 DEF V
  <2>4. Cardinality(V) <= Cardinality(W \cup {Claim(a)}) /\ IsFiniteSet(V) BY <2>2, <2>3, FS_Subset
  <2>5. Cardinality(V) \in Nat /\ Cardinality(W \cup {Claim(a)}) \in Nat
    BY <2>2, <2>4, FS_CardinalityType
  <2>6. GuestsPerIp \in Nat BY PortalAssumption
  <2>7. Cardinality(V) <= GuestsPerIp BY <1>7, <2>2, <2>4, <2>5, <2>6
  <2> QED BY <2>7 DEF V
<1> QED BY <1>3, <1>4, <1>5, <1>6, <1>8

\* A new visitor.
LEMMA WelcomeAllowances ==
    ASSUME PortalInv, Allowances, NEW t \in Token, NEW a \in Address \cup {NoAddress},
           Welcome(t, a)
    PROVE  Allowances'
<1>1. now' = now BY DEF Welcome
<1>2. CASE ~Limited(a)
  <2>1. UNCHANGED <<mints, granted>> BY <1>2 DEF Welcome
  <2> QED BY <1>1, <2>1 DEF Allowances, AllowancesLimited
<1>3. CASE Limited(a)
  <2>1. a \in Address BY <1>3 DEF Limited
  <2>2. /\ Cardinality(Recent(a)) < GuestsPerIp /\ mints' = Claimed(a)
        /\ granted' = [granted EXCEPT ![a] = @ \cup {Claim(a)}]
    BY <1>3 DEF Welcome
  <2>3. /\ granted \in [Address -> SUBSET ClaimRecord]
        /\ mints \in [Address -> SUBSET ClaimRecord] /\ now \in Nat
    BY DEF Allowances, PortalInv, Shape
  <2> DEFINE G == granted[a] \cup {Claim(a)}
  <2>4. /\ Claim(a) \in ClaimRecord /\ Claim(a).at = now
        /\ IsFiniteSet(G) /\ \A m \in G : m.nth <= Cardinality(G)
        /\ Cardinality({m \in G : m.at >= now - Window}) <= GuestsPerIp
    BY <2>1, <2>2, GrantEffect
  <2>5. \A b \in Address : granted'[b] = IF b = a THEN G ELSE granted[b]
    BY <2>2, <2>3
  <2> DEFINE claimed == [mints EXCEPT ![a] = Recent(a) \cup {Claim(a)}]
  <2>6. \A b \in Address : /\ mints'[b] \in {{}, claimed[b]}
                           /\ mints'[b] = {} =>
                                 \A m \in claimed[b] : ~(m.at >= now - Window)
    <3>1. /\ claimed \in [Address -> SUBSET ClaimRecord]
          /\ mints' \in [Address -> SUBSET ClaimRecord]
          /\ \A b \in Address : \/ mints'[b] = claimed[b]
                                \/ mints'[b] = {} /\ \A m \in claimed[b] : m.at < now - Window
      BY <2>2, <2>3, <2>4 DEF Claimed, Recent
    <3>2. Window \in Nat BY PortalAssumption
    <3> HIDE DEF claimed
    <3>3. \A b \in Address : \A m \in claimed[b] : m.at \in Nat BY <3>1 DEF ClaimRecord
    <3> QED BY <2>3, <3>1, <3>2, <3>3
  <2>7. \A b \in Address : claimed[b] = IF b = a THEN Recent(a) \cup {Claim(a)} ELSE mints[b]
    BY <2>3
  <2>8. mints' \in [Address -> SUBSET ClaimRecord]
    BY <2>2, <2>3, <2>4 DEF Claimed, Recent
  <2>9. granted' \in [Address -> SUBSET ClaimRecord]
    BY <2>1, <2>2, <2>3, <2>4
  <2> HIDE DEF claimed, G
  <2>10. ASSUME NEW b \in Address
         PROVE  /\ IsFiniteSet(granted'[b])
                /\ \A m \in granted'[b] : m.nth <= Cardinality(granted'[b])
                /\ Cardinality({m \in granted'[b] : m.at >= now - Window}) <= GuestsPerIp
    BY <2>4, <2>5 DEF Allowances, AllowancesLimited
  <2>11. ASSUME NEW b \in Address PROVE IsFiniteSet(mints'[b])
    <3>1. IsFiniteSet(mints[b]) /\ IsFiniteSet(mints[a]) BY <2>1 DEF Allowances
    <3>2. IsFiniteSet(Recent(a))
      <4>1. Recent(a) \subseteq mints[a] BY DEF Recent
      <4> QED BY <3>1, <4>1, FS_Subset
    <3>3. IsFiniteSet(Recent(a) \cup {Claim(a)}) BY <3>2, FS_AddElement
    <3>4. IsFiniteSet(claimed[b]) BY <2>7, <3>1, <3>3
    <3> QED BY <2>6, <3>4, FS_EmptySet
  <2>12. ASSUME NEW b \in Address, NEW m \in granted'[b], m.at >= now - Window
         PROVE  m \in mints'[b]
    <3>1. m \in claimed[b]
      <4>1. CASE b # a
        BY <2>5, <2>7, <2>12, <4>1 DEF Allowances
      <4>2. CASE b = a
        <5>1. m = Claim(a) \/ m \in granted[a] BY <2>5, <4>2 DEF G
        <5>2. m \in granted[a] => m \in Recent(a)
          BY <2>1, <2>12 DEF Allowances, Recent
        <5> QED BY <2>7, <4>2, <5>1, <5>2
      <4> QED BY <4>1, <4>2
    <3> QED BY <2>6, <2>12, <3>1
  <2> QED BY <1>1, <2>8, <2>9, <2>10, <2>11, <2>12 DEF Allowances, AllowancesLimited
<1> QED BY <1>2, <1>3

\* A claim that is refused.
LEMMA RefuseAllowances ==
    ASSUME Allowances, NEW a \in Address, Refuse(a)
    PROVE  Allowances'
<1>1. mints' = [mints EXCEPT ![a] = Recent(a)] /\ UNCHANGED <<now, granted>>
  BY DEF Refuse, history
<1>2. mints \in [Address -> SUBSET ClaimRecord] BY DEF Allowances
<1>3. Recent(a) \subseteq mints[a] BY DEF Recent
<1>4. \A b \in Address : mints'[b] = IF b = a THEN Recent(a) ELSE mints[b] BY <1>1, <1>2
<1>5. \A b \in Address : IsFiniteSet(mints'[b])
  <2>1. \A b \in Address : IsFiniteSet(mints[b]) BY DEF Allowances
  <2>2. IsFiniteSet(Recent(a)) BY <1>3, <2>1, FS_Subset
  <2> QED BY <1>4, <2>1, <2>2
<1>6. mints' \in [Address -> SUBSET ClaimRecord] BY <1>1, <1>2, <1>3
<1>7. \A b \in Address : {m \in granted[b] : m.at >= now - Window} \subseteq mints'[b]
  BY <1>4 DEF Allowances, Recent
<1> QED BY <1>1, <1>5, <1>6, <1>7 DEF Allowances, AllowancesLimited

\* As time passes fewer claims count.
LEMMA TickAllowances ==
    ASSUME PortalInv, Allowances, Tick
    PROVE  Allowances'
<1>1. now' = now + 1 /\ UNCHANGED <<mints, granted>> /\ now \in Nat
  BY DEF Tick, history, PortalInv, Shape
<1>2. Window \in Nat /\ GuestsPerIp \in Nat BY PortalAssumption
<1>3. ASSUME NEW a \in Address
      PROVE  /\ {m \in granted[a] : m.at >= now' - Window} \subseteq mints[a]
             /\ Cardinality({m \in granted[a] : m.at >= now' - Window}) <= GuestsPerIp
  <2> DEFINE V == {m \in granted[a] : m.at >= now' - Window}
             W == {m \in granted[a] : m.at >= now - Window}
  <2>1. \A m \in granted[a] : m.at \in Nat BY DEF Allowances, ClaimRecord
  <2>2. V \in SUBSET W BY <1>1, <1>2, <2>1
  <2>3. W \subseteq mints[a] /\ Cardinality(W) <= GuestsPerIp /\ IsFiniteSet(granted[a])
    BY DEF Allowances, AllowancesLimited
  <2>4. W \in SUBSET granted[a] OBVIOUS
  <2> HIDE DEF V, W
  <2>5. IsFiniteSet(W) BY <2>3, <2>4, FS_Subset
  <2>6. IsFiniteSet(V) /\ Cardinality(V) <= Cardinality(W) BY <2>2, <2>5, FS_Subset
  <2>7. Cardinality(V) \in Nat /\ Cardinality(W) \in Nat BY <2>5, <2>6, FS_CardinalityType
  <2>8. Cardinality(V) <= GuestsPerIp BY <1>2, <2>3, <2>6, <2>7
  <2> QED BY <2>2, <2>3, <2>8 DEF V
<1> QED BY <1>1, <1>3 DEF Allowances, AllowancesLimited

\* Nobody has been given anything by a process that begins.
LEMMA NothingGranted ==
    ASSUME mints' = [a \in Address |-> {}], granted' = [a \in Address |-> {}]
    PROVE  Allowances'
<1>1. \A a \in Address : granted'[a] = {} /\ mints'[a] = {} BY DEF Allowances
<1>2. IsFiniteSet({}) /\ Cardinality({}) = 0 BY FS_EmptySet
<1>3. \A a \in Address : {m \in granted'[a] : m.at >= now' - Window} = {} BY <1>1
<1>4. AllowancesLimited'
  <2>1. 0 <= GuestsPerIp BY PortalAssumption
  <2> QED BY <1>2, <1>3, <2>1 DEF AllowancesLimited
<1> QED BY <1>1, <1>2, <1>4 DEF Allowances

\* In no window does an address get more allowances than it may, as long as
\* the process lives, however many addresses come (_claim_allowance, _guest).
THEOREM AllowancesAreLimited == Spec => []AllowancesLimited
<1>1. Init => Allowances
  <2> SUFFICES ASSUME Init PROVE Allowances OBVIOUS
  <2>1. mints = [a \in Address |-> {}] /\ granted = [a \in Address |-> {}] BY DEF Init
  <2>2. \A a \in Address : granted[a] = {} /\ mints[a] = {} BY <2>1
  <2>3. IsFiniteSet({}) /\ Cardinality({}) = 0 BY FS_EmptySet
  <2>4. \A a \in Address : {m \in granted[a] : m.at >= now - Window} = {} BY <2>2
  <2>5. AllowancesLimited
    <3>1. 0 <= GuestsPerIp BY PortalAssumption
    <3> QED BY <2>3, <2>4, <3>1 DEF AllowancesLimited
  <2> QED BY <2>1, <2>2, <2>3, <2>5 DEF Allowances
<1>2. PortalInv /\ Allowances /\ [Next]_vars => Allowances'
  <2> SUFFICES ASSUME PortalInv, Allowances, [Next]_vars PROVE Allowances'
    OBVIOUS
  <2>1. ASSUME UNCHANGED <<now, mints, granted>> PROVE Allowances'
    BY <2>1 DEF Allowances, AllowancesLimited
  <2>2. CASE \E t \in Token, a \in Address \cup {NoAddress} : Welcome(t, a)
    BY <2>2, WelcomeAllowances
  <2>3. CASE \E a \in Address : Refuse(a)
    BY <2>3, RefuseAllowances
  <2>4. CASE \E t \in Token : Resume(t) \/ Ask(t) \/ Answered(t) \/ Failed(t) \/ Console(t)
    BY <2>1, <2>4 DEF Resume, Ask, Answered, Failed, Console, history
  <2>5. CASE Start \/ SetFaucet
    BY <2>1, <2>5 DEF Start, SetFaucet, history
  <2>6. CASE End
    BY <2>6, NothingGranted DEF End
  <2>7. CASE Tick
    BY <2>7, TickAllowances
  <2>8. CASE UNCHANGED vars
    BY <2>1, <2>8 DEF vars, history
  <2> QED BY <2>2, <2>3, <2>4, <2>5, <2>6, <2>7, <2>8 DEF Next
<1>3. Allowances => AllowancesLimited
  BY DEF Allowances
<1> QED BY <1>1, <1>2, <1>3, PortalInvariance, PTL DEF Spec

=============================================================================
