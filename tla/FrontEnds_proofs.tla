---------------------------- MODULE FrontEnds_proofs ----------------------------
(***************************************************************************)
(* What holds of the front ends for every number of jobs and requests:     *)
(* how far the account can be overdrawn, and the order of the chat.        *)
(***************************************************************************)
EXTENDS FrontEnds, FiniteSetTheorems, SequenceTheorems, TLAPS

Hows == {"none", "stream", "batch"}

Places == {"idle", "looking", "choosing", "asking", "talking",
           "done", "raised", "crashed", "cancelled"}

Record == [how : Hows, at : Places, left : Int, told : BOOLEAN, seen : BOOLEAN]

\* The account is not to be charged for the caller any more, unless it signs
\* again: no payment is under way, or gossip has brought it.
Charged(r) == r.at # "idle" /\ (r.at \in Signing => r.seen)

Quits == {c \in Caller : Charged(call[c])}

Unused == \A c \in Caller : call[c].at = "idle"

\* When the last one signed, the account held its price; since then it has been
\* charged at most for those that are quits by now.
CallInv ==
    /\ call \in [Caller -> Record]
    /\ balance \in Int /\ unseen \in Int /\ pulled \in Nat
    /\ Unused => balance + pulled >= 0
    /\ ~Unused => balance + pulled + Price * Cardinality(Quits) >= Price

\* What a step of c's call does to the account: it signs when the price is
\* there, or charges nothing, or what it had signed.
Charges(c, r) ==
    \/ balance' >= Price
    \/ /\ balance' + pulled' >= balance + pulled
       /\ Charged(call[c]) \/ call[c].at = "idle" => Charged(r)
    \/ /\ balance' + pulled' >= (balance + pulled) - Price
       /\ call[c].at # "idle" /\ ~Charged(call[c]) /\ Charged(r)

Touch(c) ==
    /\ balance' \in Int /\ unseen' \in Int /\ pulled' \in Nat
    /\ \E r \in Record : r.at # "idle" /\ call' = [call EXCEPT ![c] = r] /\ Charges(c, r)

\* Products with the price grow with the other factor.
LEMMA Products ==
    ASSUME NEW p \in Nat, NEW m \in Nat, NEW n \in Nat, m <= n
    PROVE  p * m \in Nat /\ p * m <= p * n
<1>1. PICK d \in Nat : n = m + d
  <2>1. n - m \in Nat /\ n = m + (n - m)
    OBVIOUS
  <2> QED BY <2>1
<1>2. p * (m + d) = p * m + p * d
  OBVIOUS
<1>3. p * d \in Nat /\ p * m \in Nat
  OBVIOUS
<1> QED BY <1>1, <1>2, <1>3

LEMMA AtLeast == \A a \in Int : \A b, p \in Nat : a >= p => a + b >= p
OBVIOUS

\* The account stays backed, whatever call takes a step.
LEMMA TouchKeeps ==
    ASSUME CallInv, NEW c \in Caller, Touch(c)
    PROVE  CallInv'
<1>1. PICK r \in Record : r.at # "idle" /\ call' = [call EXCEPT ![c] = r] /\ Charges(c, r)
  BY DEF Touch
<1>2. call' \in [Caller -> Record] /\ call'[c] = r
      /\ \A d \in Caller : d # c => call'[d] = call[d]
  BY <1>1 DEF CallInv
<1>3. /\ balance' \in Int /\ unseen' \in Int /\ pulled' \in Nat
      /\ pulled \in Nat /\ balance \in Int
  BY DEF Touch, CallInv
<1>4. ~Unused'
  BY <1>1, <1>2 DEF Unused
<1>5. Price \in Nat /\ IsFiniteSet(Caller)
  BY CallAssumption, FrontEndAssumption
<1>6. IsFiniteSet(Quits) /\ IsFiniteSet(Quits')
  BY <1>5, FS_Subset DEF Quits
<1>7. Cardinality(Quits) \in Nat /\ Cardinality(Quits') \in Nat
  BY <1>6, FS_CardinalityType
<1> DEFINE was == balance + pulled
            is == balance' + pulled'
            n == Price * Cardinality(Quits)
            m == Price * Cardinality(Quits')
<1>9. /\ was \in Int /\ is \in Int /\ (balance' >= Price => is >= Price)
      /\ (Unused => was >= 0) /\ (~Unused => was + n >= Price)
  <2>1. /\ was \in Int /\ is \in Int /\ (balance' >= Price => is >= Price)
    <3>1. was \in Int /\ is \in Int
      BY <1>3
    <3>2. balance' >= Price => balance' + pulled' >= Price
      BY <1>3, <1>5, AtLeast
    <3> QED BY <3>1, <3>2
  <2>2. (Unused => was >= 0) /\ (~Unused => was + n >= Price)
    BY DEF CallInv
  <2> QED BY <2>1, <2>2
<1>8. is + m >= Price
  <2>1. CASE balance' >= Price
    <3>1. Price * Cardinality(Quits') \in Nat
      BY <1>5, <1>7, Products
    <3> HIDE DEF was, is, m
    <3> QED BY <2>1, <3>1, <1>9, <1>5 DEF m
  <2>2. CASE /\ balance' + pulled' >= balance + pulled
             /\ Charged(call[c]) \/ call[c].at = "idle" => Charged(r)
    <3>1. Quits \subseteq Quits'
      BY <1>2, <2>2 DEF Quits
    <3>2. Cardinality(Quits) <= Cardinality(Quits')
      BY <3>1, <1>6, FS_Subset
    <3>3. Price * Cardinality(Quits) <= Price * Cardinality(Quits')
          /\ Price * Cardinality(Quits) \in Nat /\ Price * Cardinality(Quits') \in Nat
      BY <3>2, <1>5, <1>7, Products
    <3>4. CASE ~Unused
      <4>1. is >= was /\ was + n >= Price /\ n <= m /\ n \in Nat /\ m \in Nat
        BY <2>2, <3>3, <3>4, <1>9
      <4> HIDE DEF was, is, n, m
      <4> QED BY <4>1, <1>5, <1>9
    <3>5. CASE Unused
      <4>1. c \in Quits'
        BY <1>2, <2>2, <3>5 DEF Quits, Unused
      <4>2. Cardinality(Quits') >= 1
        <5>1. Cardinality({c}) = 1 /\ {c} \subseteq Quits'
          BY <4>1, FS_Singleton
        <5> QED BY <5>1, <1>6, FS_Subset
      <4>3. Price * 1 <= Price * Cardinality(Quits')
        BY <4>2, <1>5, <1>7, Products
      <4>4. is >= was /\ was >= 0 /\ Price <= m /\ m \in Nat
        BY <2>2, <3>3, <3>5, <4>3, <1>5, <1>9
      <4> HIDE DEF was, is, m
      <4> QED BY <4>4, <1>5, <1>9
    <3> QED BY <3>4, <3>5
  <2>3. CASE /\ balance' + pulled' >= (balance + pulled) - Price
             /\ call[c].at # "idle" /\ ~Charged(call[c]) /\ Charged(r)
    <3>1. Quits' = Quits \cup {c} /\ c \notin Quits
      BY <1>2, <2>3 DEF Quits
    <3>2. Cardinality(Quits') = Cardinality(Quits) + 1
      BY <3>1, <1>6, FS_AddElement
    <3>3. Price * (Cardinality(Quits) + 1) = Price * Cardinality(Quits) + Price
          /\ Price * Cardinality(Quits) \in Nat
      BY <1>5, <1>7, Products
    <3>4. ~Unused
      BY <2>3 DEF Unused
    <3>5. is >= was - Price /\ was + n >= Price
      <4>1. is >= was - Price
        BY <2>3
      <4>2. was + n >= Price
        BY <3>4, <1>9
      <4> QED BY <4>1, <4>2
    <3>6. m = n + Price /\ n \in Nat
      BY <3>2, <3>3
    <3> HIDE DEF was, is, n, m
    <3> QED BY <3>5, <3>6, <1>5, <1>9
  <2> QED BY <1>1, <2>1, <2>2, <2>3 DEF Charges
<1> QED BY <1>2, <1>3, <1>4, <1>8 DEF CallInv

\* The records that Begun and On make.
LEMMA FreshRecord ==
    ASSUME NEW how \in Hows, NEW at \in Places, NEW n \in Int
    PROVE  Fresh(how, at, n) \in Record /\ Fresh(how, at, n).at = at
BY DEF Fresh, Record

LEMMA OnRecord ==
    ASSUME CallInv, NEW c \in Caller, NEW at \in Places, NEW n \in Int
    PROVE  On(c, at, n) \in Record /\ On(c, at, n).at = at
<1>1. call[c].how \in Hows
  BY DEF CallInv, Record
<1> QED BY <1>1, FreshRecord DEF On

\* A call that is over or has nothing under way is quits.
LEMMA RestsTouches ==
    ASSUME CallInv, NEW c \in Caller, NEW r \in Record, r.at \notin Signing, r.at # "idle",
           call' = [call EXCEPT ![c] = r],
           balance' \in Int, unseen' \in Int, pulled' \in Nat,
           \/ balance' + pulled' >= balance + pulled
           \/ /\ balance' + pulled' >= (balance + pulled) - Price
              /\ call[c].at # "idle" /\ ~Charged(call[c])
    PROVE  Touch(c)
<1>1. Charged(r)
  BY DEF Charged
<1> QED BY <1>1 DEF Touch, Charges

\* A call is begun, whatever became of the caller's last one.
LEMMA BeginTouches ==
    ASSUME CallInv, NEW c \in Caller, NEW how \in Hows,
           call' = [call EXCEPT ![c] = Begun(how)], UNCHANGED account
    PROVE  Touch(c)
<1>1. Begun(how) \in Record /\ Begun(how).at = "looking"
  BY FreshRecord DEF Begun, Places
<1>2. balance' = balance /\ unseen' = unseen /\ pulled' = pulled
  BY DEF account
<1>3. Begun(how).at \notin Signing /\ Begun(how).at # "idle"
  BY <1>1 DEF Signing
<1>4. balance' \in Int /\ unseen' \in Int /\ pulled' \in Nat
      /\ balance' + pulled' >= balance + pulled
  BY <1>2 DEF CallInv
<1> QED BY <1>1, <1>3, <1>4, RestsTouches

\* The call goes on with an attempt only if the price is there.
LEMMA GoesTouches ==
    ASSUME CallInv, NEW c \in Caller, NEW n \in Int, NEW held \in Int,
           Goes(c, n, held), balance' = held, unseen' \in Int, pulled' \in Nat,
           \/ held + pulled' >= balance + pulled
           \/ /\ held + pulled' >= (balance + pulled) - Price
              /\ call[c].at # "idle" /\ ~Charged(call[c])
    PROVE  Touch(c)
<1>1. Price \in Nat
  BY CallAssumption
<1>2. CASE n > 0 /\ Covered(call[c].how, held)
  <2>1. call' = [call EXCEPT ![c] = On(c, "asking", n - 1)]
    BY <1>2 DEF Goes
  <2>2. held >= Price
    BY <1>1, <1>2 DEF Covered
  <2>3. On(c, "asking", n - 1) \in Record /\ On(c, "asking", n - 1).at = "asking"
    BY OnRecord DEF Places
  <2>4. Charges(c, On(c, "asking", n - 1))
    BY <2>2 DEF Charges
  <2> QED BY <2>1, <2>3, <2>4 DEF Touch
<1>3. CASE ~(n > 0 /\ Covered(call[c].how, held))
  <2>1. call' = [call EXCEPT ![c] = On(c, "raised", 0)]
    BY <1>3 DEF Goes, Over
  <2>2. /\ On(c, "raised", 0) \in Record
        /\ On(c, "raised", 0).at \notin Signing /\ On(c, "raised", 0).at # "idle"
    BY OnRecord DEF Places, Signing
  <2>3. \/ balance' + pulled' >= balance + pulled
        \/ /\ balance' + pulled' >= (balance + pulled) - Price
           /\ call[c].at # "idle" /\ ~Charged(call[c])
    OBVIOUS
  <2> QED BY <2>1, <2>2, <2>3, RestsTouches
<1> QED BY <1>2, <1>3

\* What a call knows of its attempt changes nothing, and what gossip brings of
\* it is what was signed.
LEMMA LearnsTouches ==
    ASSUME CallInv, NEW c \in Caller, Hear(c) \/ See(c) \/ Speak(c)
    PROVE  Touch(c)
<1>1. /\ balance \in Int /\ unseen \in Int /\ pulled \in Nat /\ Price \in Nat
      /\ call[c] \in Record
  BY CallAssumption DEF CallInv
<1>2. CASE Hear(c)
  <2> DEFINE r == [call[c] EXCEPT !.told = TRUE]
  <2>1. r \in Record /\ r.at = call[c].at /\ r.seen = call[c].seen
    BY <1>1 DEF Record
  <2>2. call' = [call EXCEPT ![c] = r] /\ UNCHANGED <<balance, unseen, pulled>>
    BY <1>2 DEF Hear, account
  <2>3. r.at # "idle"
    BY <1>2, <2>1 DEF Hear
  <2>4. Charges(c, r)
    BY <1>1, <2>1, <2>2, <2>3 DEF Charges, Charged
  <2> HIDE DEF r
  <2> QED BY <1>1, <2>1, <2>2, <2>3, <2>4 DEF Touch
<1>3. CASE Speak(c)
  <2> DEFINE r == [call[c] EXCEPT !.at = "talking", !.told = TRUE]
  <2>1. r \in Record /\ r.at = "talking" /\ r.seen = call[c].seen
    BY <1>1 DEF Record, Places
  <2>2. call' = [call EXCEPT ![c] = r] /\ UNCHANGED <<balance, unseen, pulled>>
    BY <1>3 DEF Speak, account
  <2>3. call[c].at \in Signing /\ "talking" \in Signing
    BY <1>3 DEF Speak, Signing
  <2>4. Charges(c, r)
    BY <1>1, <2>1, <2>2, <2>3 DEF Charges, Charged, Signing
  <2> HIDE DEF r
  <2> QED BY <1>1, <2>1, <2>2, <2>4 DEF Touch
<1>4. CASE See(c)
  <2> DEFINE r == [call[c] EXCEPT !.seen = TRUE]
  <2>1. r \in Record /\ r.at = call[c].at /\ r.seen
    BY <1>1 DEF Record
  <2>2. call' = [call EXCEPT ![c] = r] /\ balance' = balance - Price
        /\ UNCHANGED <<unseen, pulled>>
    BY <1>4 DEF See
  <2>3. call[c].at \in Signing /\ ~call[c].seen /\ call[c].at # "idle"
    BY <1>4 DEF See, Signing
  <2>4. Charges(c, r)
    BY <1>1, <2>1, <2>2, <2>3 DEF Charges, Charged
  <2>5. balance' \in Int /\ unseen' \in Int /\ pulled' \in Nat /\ r.at # "idle"
    BY <1>1, <2>1, <2>2, <2>3
  <2> HIDE DEF r
  <2> QED BY <2>1, <2>2, <2>4, <2>5 DEF Touch
<1> QED BY <1>2, <1>3, <1>4

\* What becomes of the account when an attempt ends.
LEMMA EndsQuits ==
    ASSUME CallInv, NEW c \in Caller, call[c].at \in Signing,
           \/ Booked(c) /\ UNCHANGED <<unseen, pulled>>
           \/ Forgotten(c)
    PROVE  /\ balance' \in Int /\ unseen' \in Int /\ pulled' \in Nat
           /\ \/ balance' + pulled' >= balance + pulled
              \/ /\ balance' + pulled' >= (balance + pulled) - Price
                 /\ call[c].at # "idle" /\ ~Charged(call[c])
<1>1. balance \in Int /\ unseen \in Int /\ pulled \in Nat /\ Price \in Nat
  BY CallAssumption DEF CallInv
<1>2. call[c].at # "idle"
  BY DEF Signing
<1> QED BY <1>1, <1>2 DEF Booked, Forgotten, Charged

\* Every step of a call is of one of the kinds Touch names.
LEMMA CallTouches ==
    ASSUME CallInv, NEW c \in Caller, Move(c) \/ Quiet(c) \/ Speak(c) \/ Cancel(c)
    PROVE  Touch(c)
<1>1. /\ balance \in Int /\ unseen \in Int /\ pulled \in Nat /\ Price \in Nat
      /\ call[c].left \in Int /\ MaxOffers \in Nat
  BY CallAssumption DEF CallInv, Record
<1>2. CASE Find(c)
  <2>1. PICK n \in 0..MaxOffers :
           Goes(c, IF call[c].how = "batch" THEN MaxAttempts * n ELSE n, balance)
    BY <1>2 DEF Find
  <2>2. (IF call[c].how = "batch" THEN MaxAttempts * n ELSE n) \in Int
    BY <1>1 DEF MaxAttempts
  <2> QED BY <1>1, <1>2, <2>1, <2>2, GoesTouches DEF Find, account
<1>3. CASE Choose(c)
  BY <1>1, <1>3, GoesTouches DEF Choose, account
<1>4. CASE Quiet(c) \/ Speak(c)
  BY <1>4, LearnsTouches DEF Quiet
<1>5. ASSUME NEW o \in {"choosing", "done", "raised", "crashed", "cancelled"}, NEW n \in Int
      PROVE  /\ On(c, o, n) \in Record
             /\ On(c, o, n).at \notin Signing /\ On(c, o, n).at # "idle"
  BY OnRecord DEF Places, Signing
<1> DEFINE Quit == /\ balance' \in Int /\ unseen' \in Int /\ pulled' \in Nat
                   /\ \/ balance' + pulled' >= balance + pulled
                      \/ /\ balance' + pulled' >= (balance + pulled) - Price
                         /\ call[c].at # "idle" /\ ~Charged(call[c])
<1> HIDE DEF Quit
<1>6. ASSUME Quit, NEW o \in {"choosing", "done", "raised", "crashed", "cancelled"}, NEW n \in Int,
             call' = [call EXCEPT ![c] = On(c, o, n)]
      PROVE  Touch(c)
  BY <1>5, <1>6, RestsTouches DEF Quit
<1>7. CASE Finish(c) \/ Crash(c) \/ Cancel(c)
  <2>1. PICK o \in {"choosing", "done", "raised", "crashed", "cancelled"} :
                  call' = [call EXCEPT ![c] = On(c, o, 0)]
    BY <1>7 DEF Finish, Crash, Cancel, Over
  <2>2. Quit
    <3>1. CASE call[c].at \in Signing
      BY <1>7, <3>1, EndsQuits DEF Finish, Crash, Cancel, Quit
    <3>2. CASE call[c].at \notin Signing
      <4>1. UNCHANGED <<balance, unseen, pulled>>
        BY <1>7, <3>2 DEF Finish, Crash, Cancel, account
      <4> QED BY <1>1, <4>1 DEF Quit
    <3> QED BY <3>1, <3>2
  <2>3. 0 \in Int
    OBVIOUS
  <2> QED BY <1>6, <2>1, <2>2, <2>3
<1>8. CASE Fail(c)
  <2>1. Quit
    BY <1>8, EndsQuits DEF Fail, Quit
  <2>2. \/ call' = [call EXCEPT ![c] = On(c, "choosing", call[c].left)]
        \/ call' = [call EXCEPT ![c] = On(c, "raised", 0)]
        \/ Goes(c, call[c].left, balance')
    BY <1>8 DEF Fail, Over
  <2>3. call[c].left \in Int /\ balance' \in Int
    BY <1>1, <2>1 DEF Quit
  <2>4. CASE Goes(c, call[c].left, balance')
    BY <2>1, <2>3, <2>4, GoesTouches DEF Quit
  <2> QED BY <1>6, <2>1, <2>2, <2>3, <2>4
<1> QED BY <1>2, <1>3, <1>4, <1>7, <1>8 DEF Move

----------------------------------------------------------------------------
\* Who calls.
LEMMA Callers ==
    /\ Chat \in Caller /\ Pipe \in Caller /\ Job \subseteq Caller /\ Request \subseteq Caller
    /\ Chat # Pipe /\ Chat \notin Job /\ Chat \notin Request
BY FrontEndAssumption

\* Every step but gossip is a step of one call, or leaves calls and account be.
LEMMA StepTouches ==
    ASSUME CallInv, Next
    PROVE  \/ \E c \in Caller : Touch(c)
           \/ UNCHANGED <<call, account>>
           \/ Pull
<1>1. ASSUME NEW j \in Job, Submit(j) \/ FallBack(j) \/ JobShows(j) \/ JobMoves(j)
      PROVE  \E c \in Caller : Touch(c)
  <2>1. j \in Caller
    BY Callers
  <2>2. CASE Submit(j)
    <3>1. PICK how \in {"stream", "batch"} : call' = [call EXCEPT ![j] = Begun(how)]
      BY <2>2 DEF Submit
    <3> QED BY <2>1, <2>2, <3>1, BeginTouches DEF Submit, Hows
  <2>3. CASE FallBack(j)
    BY <2>1, <2>3, BeginTouches DEF FallBack, Hows
  <2>4. CASE JobShows(j)
    BY <2>1, <2>4, CallTouches DEF JobShows
  <2>5. CASE JobMoves(j)
    BY <2>1, <2>5, CallTouches DEF JobMoves
  <2> QED BY <1>1, <2>2, <2>3, <2>4, <2>5
<1>2. ASSUME Ask \/ ChatShows \/ ChatMoves
      PROVE  \E c \in Caller : Touch(c)
  <2>1. CASE Ask
    BY <2>1, Callers, BeginTouches DEF Ask, Hows
  <2>2. CASE ChatShows
    BY <2>2, Callers, CallTouches DEF ChatShows
  <2>3. CASE ChatMoves
    BY <2>3, Callers, CallTouches DEF ChatMoves
  <2> QED BY <1>2, <2>1, <2>2, <2>3
<1>3. ASSUME NEW r \in Request,
             \/ Receive(r) \/ ListModels(r) \/ Relays(r) \/ RequestMoves(r)
             \/ Deadline(r) \/ Leave(r)
      PROVE  (\E c \in Caller : Touch(c)) \/ UNCHANGED <<call, account>>
  <2>1. r \in Caller
    BY Callers
  <2>2. CASE Receive(r)
    <3>1. CASE UNCHANGED call
      BY <2>2, <3>1 DEF Receive
    <3>2. CASE ~UNCHANGED call
      <4>1. PICK kind \in {"whole", "live", "embed", "models"} :
               call' = [call EXCEPT ![r] = Begun(IF kind = "embed" THEN "batch" ELSE "stream")]
        BY <2>2, <3>2 DEF Receive
      <4>2. (IF kind = "embed" THEN "batch" ELSE "stream") \in Hows
        BY DEF Hows
      <4> QED BY <2>1, <2>2, <4>1, <4>2, BeginTouches DEF Receive
    <3> QED BY <3>1, <3>2
  <2>3. CASE ListModels(r)
    <3>1. /\ call' = [call EXCEPT ![r] = On(r, "done", 0)]
          /\ UNCHANGED <<balance, unseen, pulled>>
      BY <2>3 DEF ListModels, Over, account
    <3>2. /\ On(r, "done", 0) \in Record
          /\ On(r, "done", 0).at \notin Signing /\ On(r, "done", 0).at # "idle"
      BY <2>1, OnRecord DEF Places, Signing
    <3>3. /\ balance' \in Int /\ unseen' \in Int /\ pulled' \in Nat
          /\ balance' + pulled' >= balance + pulled
      BY <3>1 DEF CallInv
    <3> QED BY <2>1, <3>1, <3>2, <3>3, RestsTouches
  <2>4. CASE Relays(r)
    BY <2>1, <2>4, CallTouches DEF Relays
  <2>5. CASE RequestMoves(r)
    BY <2>1, <2>5, CallTouches DEF RequestMoves
  <2>6. CASE Deadline(r)
    BY <2>1, <2>6, CallTouches DEF Deadline
  <2>7. CASE Leave(r)
    BY <2>1, <2>7, CallTouches DEF Leave
  <2> QED BY <1>3, <2>2, <2>3, <2>4, <2>5, <2>6, <2>7
<1>4. ASSUME StartPipe \/ PipeMoves \/ NextStage
      PROVE  \E c \in Caller : Touch(c)
  <2>1. CASE StartPipe
    BY <2>1, Callers, BeginTouches DEF StartPipe, Hows
  <2>2. CASE PipeMoves
    BY <2>2, Callers, CallTouches DEF PipeMoves
  <2>3. CASE NextStage
    BY <2>3, Callers, BeginTouches DEF NextStage, Hows
  <2> QED BY <1>4, <2>1, <2>2, <2>3
<1>5. ASSUME Behind
      PROVE  Pull \/ \E c \in Caller : Touch(c)
  BY <1>5, CallTouches DEF Behind
<1>6. CASE Clear
  BY <1>6 DEF Clear
<1> QED BY <1>1, <1>2, <1>3, <1>4, <1>5, <1>6 DEF Next

\* CallInv is an invariant.
LEMMA CallInvariance == Spec => []CallInv
<1>1. Init => CallInv
  <2> SUFFICES ASSUME Init PROVE CallInv
    OBVIOUS
  <2>1. call \in [Caller -> Record] /\ Unused
    BY DEF Init, CallsInit, Fresh, Record, Hows, Places, Unused
  <2> QED BY <2>1, CallAssumption DEF Init, CallsInit, CallInv
<1>2. CallInv /\ [Next]_vars => CallInv'
  <2> SUFFICES ASSUME CallInv, [Next]_vars PROVE CallInv'
    OBVIOUS
  <2>1. CASE \E c \in Caller : Touch(c)
    BY <2>1, TouchKeeps
  <2>2. CASE UNCHANGED <<call, account>>
    BY <2>2 DEF CallInv, account, Unused, Quits
  <2>3. CASE Pull
    <3>1. /\ call' = call /\ balance' + pulled' = balance + pulled
          /\ balance' \in Int /\ unseen' \in Int /\ pulled' \in Nat
      BY <2>3, CallAssumption DEF Pull, CallInv
    <3>2. Quits' = Quits /\ (Unused' <=> Unused)
      BY <3>1 DEF Quits, Unused
    <3> QED BY <3>1, <3>2 DEF CallInv
  <2> QED BY <2>1, <2>2, <2>3, StepTouches DEF vars
<1> QED BY <1>1, <1>2, PTL DEF Spec

\* The balance a caller looks at may be spent by the others at the same time,
\* and by no more than that (Consumer.run_job and stream_generate, each with a
\* check of its own, on one account).
THEOREM OverdraftIsBounded == Spec => []OverdrawnByRivals
<1>1. CallInv => OverdrawnByRivals
  <2> SUFFICES ASSUME CallInv, NEW callers, callers = {c \in Caller : call[c].at # "idle"},
                      callers # {}
               PROVE  balance + pulled >= -((Cardinality(callers) - 1) * Price)
    BY DEF OverdrawnByRivals
  <2>1. ~Unused
    BY DEF Unused
  <2>2. Price \in Nat /\ balance \in Int /\ pulled \in Nat
    BY CallAssumption DEF CallInv
  <2>3. IsFiniteSet(callers) /\ Quits \subseteq callers
    BY FrontEndAssumption, FS_Subset DEF Quits, Charged
  <2>4. /\ Cardinality(Quits) <= Cardinality(callers)
        /\ Cardinality(Quits) \in Nat /\ Cardinality(callers) \in Nat
    BY <2>3, FS_Subset, FS_CardinalityType
  <2>5. Price * Cardinality(Quits) <= Price * Cardinality(callers)
        /\ Price * Cardinality(Quits) \in Nat /\ Price * Cardinality(callers) \in Nat
    BY <2>2, <2>4, Products
  <2>6. balance + pulled + Price * Cardinality(Quits) >= Price
    BY <2>1 DEF CallInv
  <2>7. (Cardinality(callers) - 1) * Price = Price * Cardinality(callers) - Price
    BY <2>2, <2>4
  <2> QED BY <2>2, <2>5, <2>6, <2>7
<1> QED BY <1>1, CallInvariance, PTL

----------------------------------------------------------------------------
\* The chat.

Roles == {"you", "fleet", "error"}

\* Questions and answers take turns in s.
Alternates(s) ==
    \A i \in DOMAIN s : i < Len(s) => (s[i] = "you" <=> s[i + 1] # "you")

\* It ends with a question.
Asks(s) == s # <<>> /\ s[Len(s)] = "you"

\* One more turn.
LEMMA AppendAlternates ==
    ASSUME NEW s \in Seq(Roles), NEW x \in Roles, Alternates(s), Asks(s) <=> x # "you"
    PROVE  /\ Append(s, x) \in Seq(Roles)
           /\ Alternates(Append(s, x))
           /\ Asks(Append(s, x)) <=> x = "you"
<1>1. /\ Append(s, x) \in Seq(Roles) /\ Len(Append(s, x)) = Len(s) + 1 /\ Len(s) \in Nat
      /\ Append(s, x)[Len(s) + 1] = x
      /\ \A i \in 1..Len(s) : Append(s, x)[i] = s[i]
  OBVIOUS
<1>2. Append(s, x) # <<>>
  OBVIOUS
<1>3. ASSUME NEW i \in DOMAIN Append(s, x), i < Len(Append(s, x))
      PROVE  Append(s, x)[i] = "you" <=> Append(s, x)[i + 1] # "you"
  <2>1. i \in 1..Len(s) /\ i \in DOMAIN s
    BY <1>1, <1>3
  <2>2. CASE i < Len(s)
    <3>1. i + 1 \in 1..Len(s)
      BY <2>1, <2>2, <1>1
    <3> QED BY <1>1, <2>1, <2>2, <3>1 DEF Alternates
  <2>3. CASE i = Len(s)
    <3>1. s # <<>>
      BY <2>1, <2>3
    <3> QED BY <1>1, <2>1, <2>3, <3>1 DEF Asks
  <2> QED BY <2>1, <2>2, <2>3, <1>1
<1>4. Asks(Append(s, x)) <=> x = "you"
  BY <1>1, <1>2 DEF Asks
<1> QED BY <1>1, <1>3, <1>4 DEF Alternates

\* What is left of a log when its oldest lines go.
LEMMA NewestAlternates ==
    ASSUME NEW s \in Seq(Roles), NEW n \in Nat, Alternates(s), ~Asks(s)
    PROVE  /\ Newest(s, n) \in Seq(Roles)
           /\ Alternates(Newest(s, n))
           /\ ~Asks(Newest(s, n))
<1>1. CASE Len(s) <= n
  <2>1. Newest(s, n) = s
    BY <1>1 DEF Newest
  <2> QED BY <2>1
<1>2. CASE Len(s) > n
  <2> DEFINE m == Len(s) - n
             t == SubSeq(s, m + 1, Len(s))
  <2>1. m \in Nat /\ Newest(s, n) = t /\ m + n = Len(s)
    BY <1>2 DEF Newest
  <2>2. t \in Seq(Roles) /\ Len(t) = n /\ \A i \in 1..n : t[i] = s[m + i]
    <3>1. m + 1 \in 1..(Len(s) + 1) /\ Len(s) \in m..Len(s) /\ (m + 1) - 1 = m
      BY <2>1
    <3>2. Len(s) - (m + 1) + 1 = n
      BY <2>1
    <3>3. /\ t \in Seq(Roles) /\ Len(t) = n
          /\ \A i \in 1..n : t[i] = s[(m + 1) + i - 1]
      BY <3>1, <3>2, SubSeqProperties
    <3>4. \A i \in 1..n : (m + 1) + i - 1 = m + i
      BY <2>1
    <3> HIDE DEF t, m
    <3> QED BY <3>3, <3>4
  <2> HIDE DEF t, m
  <2>3. Alternates(t)
    <3> SUFFICES ASSUME NEW i \in DOMAIN t, i < Len(t)
                 PROVE  t[i] = "you" <=> t[i + 1] # "you"
      BY DEF Alternates
    <3>1. i \in 1..n /\ i + 1 \in 1..n
      BY <2>2
    <3>2. m + i \in DOMAIN s /\ m + i < Len(s) /\ m + (i + 1) = (m + i) + 1
      BY <2>1, <3>1
    <3>3. s[m + i] = "you" <=> s[(m + i) + 1] # "you"
      BY <3>2 DEF Alternates
    <3> QED BY <2>2, <3>1, <3>2, <3>3
  <2>4. ~Asks(t)
    <3> SUFFICES ASSUME t # <<>> PROVE t[Len(t)] # "you"
      BY DEF Asks
    <3>1. n \in 1..n
      BY <2>2
    <3>2. t[n] = s[Len(s)] /\ s # <<>>
      BY <2>1, <2>2, <3>1
    <3> QED BY <2>2, <3>2 DEF Asks
  <2> QED BY <2>1, <2>2, <2>3, <2>4
<1> QED BY <1>1, <1>2

ChatInv ==
    /\ log \in Seq(Roles) /\ busy \in BOOLEAN /\ live \in BOOLEAN
    /\ Alternates(log)
    /\ busy <=> Asks(log)
    /\ busy <=> Running(Chat)
    /\ live => busy

\* Nobody else's call touches the chat's.
LEMMA OthersKeepChat ==
    ASSUME CallInv, NEW c \in Caller, Touch(c), c # Chat
    PROVE  call'[Chat] = call[Chat]
<1>1. Chat \in DOMAIN call
  BY Callers DEF CallInv
<1> QED BY <1>1 DEF Touch

\* Steps that are none of the chat's.
LEMMA ElsewhereKeepsChat ==
    ASSUME CallInv, ChatInv, call'[Chat] = call[Chat], UNCHANGED chat
    PROVE  ChatInv'
<1>1. Running(Chat)' <=> Running(Chat)
  BY DEF Running
<1>2. log' = log /\ busy' = busy /\ live' = live
  BY DEF chat
<1> QED BY <1>1, <1>2 DEF ChatInv, Alternates, Asks

\* The chat's own steps.
LEMMA ChatKeeps ==
    ASSUME CallInv, ChatInv, Ask \/ ChatShows \/ ChatMoves \/ Clear
    PROVE  ChatInv'
<1>1. Chat \in DOMAIN call
  BY Callers DEF CallInv
<1>2. CASE Ask
  <2>1. log' = Append(log, "you") /\ busy' = TRUE /\ live' = FALSE /\ ~Asks(log)
    BY <1>2 DEF Ask, Idle, ChatInv
  <2>2. /\ log' \in Seq(Roles) /\ Alternates(log') /\ Asks(log')
    BY <2>1, AppendAlternates DEF ChatInv, Roles
  <2>3. Running(Chat)'
    BY <1>1, <1>2 DEF Ask, Begun, Fresh, Running, Live
  <2> QED BY <2>1, <2>2, <2>3 DEF ChatInv, Alternates, Asks
<1>3. CASE ChatShows
  <2>1. log' = log /\ busy' = busy /\ live' = TRUE
    BY <1>3 DEF ChatShows
  <2>2. Running(Chat) /\ Running(Chat)'
    <3>1. call[Chat] \in Record /\ call' = [call EXCEPT ![Chat].at = "talking", ![Chat].told = TRUE]
      BY <1>3, Callers DEF ChatShows, Speak, CallInv
    <3>2. call'[Chat].at = "talking"
      BY <1>1, <3>1 DEF Record
    <3> QED BY <1>3, <3>2 DEF ChatShows, Speak, Running, Live, Signing, CallInv
  <2> QED BY <2>1, <2>2 DEF ChatInv, Alternates, Asks
<1>4. CASE ChatMoves
  <2>1. Running(Chat) /\ busy = TRUE
    BY <1>4 DEF ChatMoves, Move, Find, Choose, Finish, Fail, Crash, Running, Live, Signing, ChatInv
  <2>2. CASE Running(Chat)'
    <3>1. log' = log /\ busy' = busy /\ live' = live
      BY <1>4, <2>2 DEF ChatMoves, chat
    <3> QED BY <2>1, <2>2, <3>1 DEF ChatInv, Alternates, Asks
  <2>3. CASE ~Running(Chat)'
    <3>1. Ends
      BY <1>4, <2>3 DEF ChatMoves
    <3>2. PICK x \in {"fleet", "error"} : log' = Newest(Append(log, x), MaxLog)
      BY <3>1 DEF Ends
    <3>3. busy' = FALSE /\ live' = FALSE
      BY <3>1 DEF Ends, Freed
    <3>4. x \in Roles /\ x # "you"
      BY <3>2 DEF Roles
    <3>5. Alternates(log) /\ log \in Seq(Roles) /\ Asks(log)
      BY <2>1 DEF ChatInv
    <3>6. /\ Append(log, x) \in Seq(Roles) /\ Alternates(Append(log, x))
          /\ ~Asks(Append(log, x))
      BY <3>4, <3>5, AppendAlternates
    <3>7. log' \in Seq(Roles) /\ Alternates(log') /\ ~Asks(log')
      BY <3>2, <3>6, NewestAlternates, FrontEndAssumption
    <3> QED BY <2>3, <3>3, <3>7 DEF ChatInv, Alternates, Asks
  <2> QED BY <2>2, <2>3
<1>5. CASE Clear
  BY <1>5 DEF Clear, ChatInv, Alternates, Asks, Running
<1> QED BY <1>2, <1>3, <1>4, <1>5

\* A step that is none of the chat's leaves its call and its state be.
LEMMA OtherSteps ==
    ASSUME CallInv, Next, ~(Ask \/ ChatShows \/ ChatMoves \/ Clear)
    PROVE  \/ call'[Chat] = call[Chat] /\ UNCHANGED chat
           \/ Behind
<1>1. ASSUME NEW j \in Job, Submit(j) \/ FallBack(j) \/ JobShows(j) \/ JobMoves(j)
      PROVE  call'[Chat] = call[Chat] /\ UNCHANGED chat
  <2>1. j # Chat /\ Chat \in DOMAIN call /\ j \in Caller
    BY Callers DEF CallInv
  <2>2. CASE Submit(j)
    BY <2>1, <2>2 DEF Submit
  <2>3. CASE FallBack(j)
    BY <2>1, <2>3 DEF FallBack
  <2>4. CASE JobShows(j)
    BY <2>1, <2>4, CallTouches, OthersKeepChat DEF JobShows
  <2>5. CASE JobMoves(j)
    BY <2>1, <2>5, CallTouches, OthersKeepChat DEF JobMoves
  <2> QED BY <1>1, <2>2, <2>3, <2>4, <2>5
<1>2. ASSUME NEW r \in Request,
             \/ Receive(r) \/ ListModels(r) \/ Relays(r) \/ RequestMoves(r)
             \/ Deadline(r) \/ Leave(r)
      PROVE  call'[Chat] = call[Chat] /\ UNCHANGED chat
  <2>1. r # Chat /\ Chat \in DOMAIN call /\ r \in Caller
    BY Callers DEF CallInv
  <2>2. CASE Receive(r)
    BY <2>1, <2>2 DEF Receive
  <2>3. CASE ListModels(r)
    BY <2>1, <2>3 DEF ListModels
  <2>4. CASE Relays(r)
    BY <2>1, <2>4, CallTouches, OthersKeepChat DEF Relays
  <2>5. CASE RequestMoves(r)
    BY <2>1, <2>5, CallTouches, OthersKeepChat DEF RequestMoves
  <2>6. CASE Deadline(r)
    BY <2>1, <2>6, CallTouches, OthersKeepChat DEF Deadline
  <2>7. CASE Leave(r)
    BY <2>1, <2>7, CallTouches, OthersKeepChat DEF Leave
  <2> QED BY <1>2, <2>2, <2>3, <2>4, <2>5, <2>6, <2>7
<1>3. ASSUME StartPipe \/ PipeMoves \/ NextStage
      PROVE  call'[Chat] = call[Chat] /\ UNCHANGED chat
  <2>1. Pipe # Chat /\ Chat \in DOMAIN call /\ Pipe \in Caller
    BY Callers DEF CallInv
  <2>2. CASE StartPipe
    BY <2>1, <2>2 DEF StartPipe
  <2>3. CASE PipeMoves
    BY <2>1, <2>3, CallTouches, OthersKeepChat DEF PipeMoves
  <2>4. CASE NextStage
    BY <2>1, <2>4 DEF NextStage
  <2> QED BY <1>3, <2>2, <2>3, <2>4
<1> QED BY <1>1, <1>2, <1>3 DEF Next

\* What goes on unseen: the chat waits on for what it waited for.
LEMMA BehindKeepsChat ==
    ASSUME CallInv, ChatInv, Behind
    PROVE  ChatInv'
<1>1. log' = log /\ busy' = busy /\ live' = live
  BY DEF Behind, chat
<1>2. Chat \in DOMAIN call /\ DOMAIN call = Caller
  BY Callers DEF CallInv
<1>4. \A c \in Caller : call[c] \in Record
  BY DEF CallInv
<1>3. Running(Chat)' <=> Running(Chat)
  <2>1. CASE Pull
    BY <2>1 DEF Pull, Running
  <2>2. ASSUME NEW c \in Caller, Quiet(c)
        PROVE  Running(Chat)' <=> Running(Chat)
    <3>1. CASE c = Chat
      <4>1. \/ call' = [call EXCEPT ![Chat].told = TRUE]
            \/ call' = [call EXCEPT ![Chat].seen = TRUE]
        BY <2>2, <3>1 DEF Quiet, Hear, See
      <4>2. call'[Chat].at = call[Chat].at
        BY <1>2, <1>4, <4>1, Callers DEF Record
      <4> QED BY <4>2 DEF Running
    <3>2. CASE c # Chat
      BY <1>2, <2>2, <3>2 DEF Quiet, Hear, See, Running
    <3> QED BY <3>1, <3>2
  <2> QED BY <2>1, <2>2 DEF Behind
<1> QED BY <1>1, <1>3 DEF ChatInv, Alternates, Asks

\* In the chat every question is followed by its one answer, however turns end
\* and however short the log is kept (WebUI._submit_chat, _run_chat_turn).
THEOREM ChatKeepsOrder == Spec => []ChatInOrder
<1>1. Init => ChatInv
  <2> SUFFICES ASSUME Init PROVE ChatInv
    OBVIOUS
  <2>1. log = <<>> /\ busy = FALSE /\ live = FALSE
    BY DEF Init
  <2>2. ~Running(Chat)
    BY Callers DEF Init, CallsInit, Fresh, Running, Live, Signing
  <2>3. log \in Seq(Roles) /\ DOMAIN log = {}
    BY <2>1
  <2>4. Alternates(log)
    BY <2>3 DEF Alternates
  <2>5. ~Asks(log)
    BY <2>1 DEF Asks
  <2>6. busy \in BOOLEAN /\ live \in BOOLEAN /\ ~busy /\ ~live
    BY <2>1
  <2> QED BY <2>2, <2>3, <2>4, <2>5, <2>6 DEF ChatInv
<1>2. CallInv /\ ChatInv /\ [Next]_vars => ChatInv'
  <2> SUFFICES ASSUME CallInv, ChatInv, [Next]_vars PROVE ChatInv'
    OBVIOUS
  <2>1. CASE Ask \/ ChatShows \/ ChatMoves \/ Clear
    BY <2>1, ChatKeeps
  <2>2. CASE Next /\ ~(Ask \/ ChatShows \/ ChatMoves \/ Clear)
    BY <2>2, OtherSteps, ElsewhereKeepsChat, BehindKeepsChat
  <2>3. CASE UNCHANGED vars
    BY <2>3, ElsewhereKeepsChat DEF vars
  <2> QED BY <2>1, <2>2, <2>3
<1>3. ChatInv => ChatInOrder
  BY DEF ChatInv, ChatInOrder, Alternates, Asks
<1> QED BY <1>1, <1>2, <1>3, CallInvariance, PTL DEF Spec
=============================================================================
