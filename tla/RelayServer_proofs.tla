-------------------------- MODULE RelayServer_proofs --------------------------
(***************************************************************************)
(* What holds of a relay for every number of connections, peers and        *)
(* sessions and every order in which they come, answer and go.             *)
(***************************************************************************)
EXTENDS RelayServer, FiniteSetTheorems, TLAPS

Phase == {"outside", "reading", "closing", "gone", "relaying", "sending", "draining", "waiting"}
Message == [of : Relayed \cup {NoConn}, end : BOOLEAN]
Frame   == [id : Nat, payload : [of : Relayed, end : BOOLEAN]]

Places ==
    /\ phase \in [Conn -> Phase]
    /\ table \in [Peer -> Registration \cup {NoConn}]
    /\ newest \in [Peer -> Registration \cup {NoConn}]

\* Who is in the table is there, under its own name, and it is the newest if
\* the newest is there.
Serving ==
    /\ \A p \in Peer : table[p] # NoConn => Of[table[p]] = p /\ phase[table[p]] = "relaying"
    /\ \A p \in Peer : newest[p] # NoConn => Of[newest[p]] = p
    /\ \A p \in Peer : newest[p] # NoConn /\ phase[newest[p]] = "relaying"
                          => table[p] = newest[p]

\* No two requests of a session have one id, and the next id is nobody's yet.
Numbered ==
    /\ counter \in [Registration -> Nat]
    /\ via \in [Relayed -> Registration \cup {NoConn}] /\ msgId \in [Relayed -> Nat]
    /\ \A c \in Relayed : via[c] # NoConn => msgId[c] <= counter[via[c]]
    /\ \A c, d \in Relayed : via[c] # NoConn /\ via[c] = via[d] /\ msgId[c] = msgId[d] => c = d

\* What is numbered id in session s is c's: the id was given out, and to
\* nobody else who still waits.
Belongs(s, id, c) ==
    /\ id <= counter[s]
    /\ \A d \in Relayed : via[d] = s /\ msgId[d] = id => d = c

\* What the peer works on and what it has sent bears an id of whose it is.
OnTheLine ==
    /\ asked \in [Registration -> SUBSET (Nat \X Relayed \X Nat)]
    /\ up \in [Registration -> Seq(Frame)]
    /\ \A s \in Registration : \A t \in asked[s] : Belongs(s, t[1], t[2])
    /\ \A s \in Registration : \A i \in DOMAIN up[s] :
          Belongs(s, up[s][i].id, up[s][i].payload.of)

\* Something of c's own, or the news that the session is over.
OwnTo(c, x) == x \in Message /\ (x = Closed \/ x.of = c)
OwnAll(c, r) == r \in Seq(Message) /\ \A i \in DOMAIN r : OwnTo(c, r[i])

\* What was delivered and what was passed on is its receiver's.
Delivered ==
    /\ \A c \in Relayed : OwnAll(c, result[c])
    /\ got \in [Relayed -> SUBSET Relayed]
    /\ \A c \in Relayed : got[c] \subseteq {c}
    /\ result \in [Relayed -> Seq(Message)]

RelayInv == Places /\ Serving /\ Numbered /\ OnTheLine /\ Delivered

----------------------------------------------------------------------------
\* Parts of a step.

\* A connection registers or has something forwarded, not both.
LEMMA KindsDiffer ==
    /\ Registration \cap Relayed = {} /\ NoConn \notin Conn
    /\ Registration \subseteq Conn /\ Relayed \subseteq Conn
BY RelayAssumption DEF Registration, Relayed, Forward, Stream

\* Who neither was relaying nor is now makes no difference to those who serve.
LEMMA ServingKept ==
    ASSUME Places, Serving, UNCHANGED <<table, newest>>, NEW c \in Conn, NEW w \in Phase,
           w # "relaying", phase[c] # "relaying", GoTo(c, w)
    PROVE  Places' /\ Serving'
BY KindsDiffer DEF Places, Serving, GoTo

\* What is on the line stays right while requests neither come nor go.
LEMMA LineKept ==
    ASSUME Numbered, OnTheLine, UNCHANGED <<counter, via, msgId, asked, up>>
    PROVE  Numbered' /\ OnTheLine'
BY DEF Numbered, OnTheLine, Belongs

\* One more for its receiver.
LEMMA DeliverKeeps ==
    ASSUME NEW c \in Relayed, OwnAll(c, result[c]), NEW x, OwnTo(c, x)
    PROVE  OwnAll(c, Deliver(result, c, x))
<1>1. CASE Deliver(result, c, x) = result[c]
  BY <1>1
<1>2. CASE Deliver(result, c, x) = Append(result[c], x)
  <2> DEFINE r == result[c]
  <2>1. r \in Seq(Message) /\ x \in Message /\ \A i \in DOMAIN r : OwnTo(c, r[i])
    BY DEF OwnAll, OwnTo
  <2>2. Append(r, x) \in Seq(Message) /\ DOMAIN Append(r, x) = 1..(Len(r) + 1)
        /\ DOMAIN r = 1..Len(r) /\ Len(r) \in Nat /\ Append(r, x)[Len(r) + 1] = x
        /\ \A i \in 1..Len(r) : Append(r, x)[i] = r[i]
    BY <2>1
  <2>3. \A i \in DOMAIN Append(r, x) : OwnTo(c, Append(r, x)[i])
    BY <2>1, <2>2
  <2> QED BY <1>2, <2>2, <2>3 DEF OwnAll
<1> QED BY <1>1, <1>2 DEF Deliver

\* The end of a session is news to whoever waits for it.
LEMMA ClosedIsOwn ==
    ASSUME NEW c \in Relayed
    PROVE  OwnTo(c, Closed)
BY DEF OwnTo, Closed, Message

----------------------------------------------------------------------------
\* Steps.

\* Nobody is connected at the start.
LEMMA InitHolds == Init => RelayInv
<1> SUFFICES ASSUME Init PROVE RelayInv
  OBVIOUS
<1>1. Places /\ Serving
  BY DEF Init, Places, Serving, Phase
<1>2. Numbered
  BY DEF Init, Numbered
<1>3. OnTheLine
  BY DEF Init, OnTheLine
<1>4. Delivered
  <2>1. \A c \in Relayed : result[c] = <<>> /\ got[c] = {}
    BY DEF Init
  <2> QED BY <2>1 DEF Init, Delivered, OwnAll
<1> QED BY <1>1, <1>2, <1>3, <1>4 DEF RelayInv

\* Coming, being turned away and being answered by another service.
LEMMA DoorStep ==
    ASSUME RelayInv, NEW c \in Conn, TurnAway(c) \/ LetIn(c) \/ Answer(c)
    PROVE  RelayInv'
<1>1. PICK w \in {"reading", "closing", "gone"} : GoTo(c, w)
  BY DEF TurnAway, LetIn, Answer
<1>2. phase[c] # "relaying" /\ UNCHANGED <<session, request, line>>
  BY DEF TurnAway, LetIn, Answer
<1>3. Places' /\ Serving'
  BY <1>1, <1>2, ServingKept DEF RelayInv, Phase, session
<1>4. Numbered' /\ OnTheLine'
  BY <1>2, LineKept DEF RelayInv, session, request, line
<1>5. Delivered'
  BY <1>2 DEF RelayInv, Delivered, request
<1> QED BY <1>3, <1>4, <1>5 DEF RelayInv

\* Whoever leaves no longer waits for anything.
LEMMA LeaveStep ==
    ASSUME RelayInv, NEW c \in Conn, Leave(c)
    PROVE  RelayInv'
<1>1. phase[c] = "closing" /\ GoTo(c, "gone") /\ UNCHANGED <<session, line>>
  BY DEF Leave
<1>2. Places' /\ Serving'
  BY <1>1, ServingKept DEF RelayInv, Phase, session
<1>3. CASE c \in Relayed
  <2>1. /\ via' = [via EXCEPT ![c] = NoConn] /\ msgId' = [msgId EXCEPT ![c] = 0]
        /\ result' = [result EXCEPT ![c] = <<>>] /\ got' = got
    BY <1>3 DEF Leave
  <2>2. Numbered'
    BY <1>1, <1>3, <2>1, KindsDiffer DEF RelayInv, Numbered, session
  <2>3. \A s \in Registration : \A id, d : Belongs(s, id, d) => Belongs(s, id, d)'
    BY <1>1, <1>3, <2>1, KindsDiffer DEF RelayInv, Numbered, Belongs, session
  <2>4. OnTheLine'
    BY <1>1, <2>3 DEF RelayInv, OnTheLine, line
  <2>5. Delivered'
    BY <1>3, <2>1 DEF RelayInv, Delivered, OwnAll
  <2> QED BY <1>2, <2>2, <2>4, <2>5 DEF RelayInv
<1>4. CASE c \notin Relayed
  <2>1. UNCHANGED request
    BY <1>4 DEF Leave
  <2> QED BY <1>1, <1>2, <2>1, LineKept DEF RelayInv, Delivered, session, request, line
<1> QED BY <1>3, <1>4

\* A registration takes the place of the one before it.
LEMMA RegisterStep ==
    ASSUME RelayInv, NEW s \in Registration, Register(s)
    PROVE  RelayInv'
<1>1. /\ phase[s] = "reading" /\ phase' = [phase EXCEPT ![s] = "relaying"]
      /\ table' = [table EXCEPT ![Of[s]] = s] /\ newest' = [newest EXCEPT ![Of[s]] = s]
      /\ UNCHANGED <<counter, request, line>>
  BY DEF Register, GoTo
<1>2. Of[s] \in Peer /\ s \in Conn /\ s # NoConn
  BY RelayAssumption, KindsDiffer
<1>3. Places'
  BY <1>1, <1>2 DEF RelayInv, Places, Phase
<1>4. Serving'
  BY <1>1, <1>2, KindsDiffer DEF RelayInv, Places, Serving
<1>5. Numbered' /\ OnTheLine' /\ Delivered'
  BY <1>1, LineKept DEF RelayInv, Delivered, request, line
<1> QED BY <1>3, <1>4, <1>5 DEF RelayInv

\* A session that ends takes itself out of the table, not another.
LEMMA EndSessionStep ==
    ASSUME RelayInv, NEW s \in Registration, EndSession(s)
    PROVE  RelayInv'
<1>1. /\ phase[s] = "relaying" /\ phase' = [phase EXCEPT ![s] = "closing"]
      /\ table' = IF table[Of[s]] = s THEN [table EXCEPT ![Of[s]] = NoConn] ELSE table
      /\ FailAll(Waiting(s))
      /\ up' = [up EXCEPT ![s] = <<>>] /\ asked' = [asked EXCEPT ![s] = {}]
      /\ UNCHANGED <<newest, counter, via, msgId, got>>
  BY DEF EndSession, GoTo
<1>2. Of[s] \in Peer /\ s \in Conn /\ s # NoConn
  BY RelayAssumption, KindsDiffer
<1>3. Places'
  BY <1>1, <1>2 DEF RelayInv, Places, Phase
<1>4. Serving'
  BY <1>1, <1>2, KindsDiffer DEF RelayInv, Places, Serving
<1>5. Numbered'
  BY <1>1 DEF RelayInv, Numbered
<1>6. OnTheLine'
  BY <1>1 DEF RelayInv, OnTheLine, Belongs
<1>7. Delivered'
  <2>1. \A c \in Relayed : OwnAll(c, Deliver(result, c, Closed))
    BY ClosedIsOwn, DeliverKeeps DEF RelayInv, Delivered
  <2>2. \A c \in Relayed : result'[c] = result[c] \/ result'[c] = Deliver(result, c, Closed)
    BY <1>1 DEF FailAll
  <2>3. \A c \in Relayed : OwnAll(c, result'[c])
    BY <2>1, <2>2 DEF RelayInv, Delivered
  <2> QED BY <1>1, <2>3 DEF RelayInv, Delivered, FailAll, OwnAll
<1> QED BY <1>3, <1>4, <1>5, <1>6, <1>7 DEF RelayInv

\* A reply goes to the request whose id it bears, which is the one it is for.
LEMMA RouteStep ==
    ASSUME RelayInv, NEW s \in Registration, Route(s)
    PROVE  RelayInv'
<1> DEFINE f == Head(up[s])
<1>1. /\ up[s] # <<>> /\ up' = [up EXCEPT ![s] = Tail(@)]
      /\ result' = [c \in Relayed |-> IF c \in Waiting(s) /\ msgId[c] = f.id
                                     THEN Deliver(result, c, f.payload) ELSE result[c]]
      /\ UNCHANGED <<phase, session, via, msgId, got, asked>>
  BY DEF Route
<1>2. /\ up[s] \in Seq(Frame) /\ DOMAIN up[s] = 1..Len(up[s]) /\ Len(up[s]) \in Nat
      /\ Len(up[s]) > 0 /\ f = up[s][1] /\ f \in Frame /\ Belongs(s, f.id, f.payload.of)
  BY <1>1 DEF RelayInv, OnTheLine
<1>3. Places' /\ Serving' /\ Numbered'
  BY <1>1 DEF RelayInv, Places, Serving, Numbered, session
<1>4. OnTheLine'
  <2>1. /\ Tail(up[s]) \in Seq(Frame) /\ DOMAIN Tail(up[s]) = 1..(Len(up[s]) - 1)
        /\ \A i \in DOMAIN Tail(up[s]) : Tail(up[s])[i] = up[s][i + 1] /\ i + 1 \in DOMAIN up[s]
    BY <1>1, <1>2
  <2>2. up' \in [Registration -> Seq(Frame)]
    BY <1>1, <2>1 DEF RelayInv, OnTheLine
  <2>3. \A q \in Registration : \A id, d : Belongs(q, id, d)' <=> Belongs(q, id, d)
    BY <1>1 DEF Belongs, session
  <2>4. ASSUME NEW q \in Registration, NEW i \in DOMAIN up'[q]
        PROVE  Belongs(q, up'[q][i].id, up'[q][i].payload.of)
    <3>1. CASE q = s
      <4>1. up'[s] = Tail(up[s])
        BY <1>1 DEF RelayInv, OnTheLine
      <4>2. up'[s][i] = up[s][i + 1] /\ i + 1 \in DOMAIN up[s]
        BY <2>1, <2>4, <3>1, <4>1
      <4> QED BY <3>1, <4>2 DEF RelayInv, OnTheLine
    <3>2. CASE q # s
      <4>1. up'[q] = up[q]
        BY <1>1, <3>2 DEF RelayInv, OnTheLine
      <4> QED BY <2>4, <4>1 DEF RelayInv, OnTheLine
    <3> QED BY <3>1, <3>2
  <2> QED BY <1>1, <2>2, <2>3, <2>4 DEF RelayInv, OnTheLine
<1>5. Delivered'
  <2>1. ASSUME NEW c \in Relayed, c \in Waiting(s), msgId[c] = f.id
        PROVE  OwnAll(c, Deliver(result, c, f.payload))
    <3>1. via[c] = s
      BY <2>1 DEF Waiting
    <3>2. f.payload.of = c
      BY <1>2, <2>1, <3>1 DEF Belongs
    <3>3. f.payload \in Message
      BY <1>2 DEF Frame, Message
    <3>4. OwnTo(c, f.payload)
      BY <3>2, <3>3 DEF OwnTo
    <3> QED BY <3>4, DeliverKeeps DEF RelayInv, Delivered
  <2>2. \A c \in Relayed : OwnAll(c, result'[c])
    BY <1>1, <2>1 DEF RelayInv, Delivered
  <2> QED BY <1>1, <2>2 DEF RelayInv, Delivered, OwnAll
<1> QED BY <1>3, <1>4, <1>5 DEF RelayInv

\* A request gets an id that the session never gave out.
LEMMA AskStep ==
    ASSUME RelayInv, NEW c \in Relayed, Ask(c)
    PROVE  RelayInv'
<1> DEFINE s == table[Of[c]]
<1>1. /\ phase[c] = "reading" /\ s # NoConn /\ GoTo(c, "sending")
      /\ via' = [via EXCEPT ![c] = s] /\ counter' = [counter EXCEPT ![s] = @ + 1]
      /\ msgId' = [msgId EXCEPT ![c] = counter'[s]]
      /\ UNCHANGED <<table, newest, result, got, line>>
  BY DEF Ask
<1>2. s \in Registration /\ c \in Conn
  BY <1>1, RelayAssumption, KindsDiffer DEF RelayInv, Places
<1>3. Places' /\ Serving'
  BY <1>1, <1>2, ServingKept DEF RelayInv, Phase
<1>4. /\ counter[s] \in Nat /\ counter'[s] = counter[s] + 1 /\ msgId'[c] = counter[s] + 1
      /\ via'[c] = s /\ \A d \in Relayed \ {c} : via'[d] = via[d] /\ msgId'[d] = msgId[d]
      /\ \A q \in Registration : counter[q] \in Nat /\ counter[q] <= counter'[q]
      /\ counter' \in [Registration -> Nat]
      /\ via' \in [Relayed -> Registration \cup {NoConn}] /\ msgId' \in [Relayed -> Nat]
  BY <1>1, <1>2 DEF RelayInv, Numbered
<1>5. Numbered'
  <2>1. \A d \in Relayed \ {c} : via[d] = s => msgId[d] <= counter[s]
    BY <1>1, <1>2 DEF RelayInv, Numbered
  <2>2. \A d \in Relayed : via'[d] # NoConn => msgId'[d] <= counter'[via'[d]]
    BY <1>2, <1>4 DEF RelayInv, Numbered
  <2>3. \A d, e \in Relayed : via'[d] # NoConn /\ via'[d] = via'[e] /\ msgId'[d] = msgId'[e] => d = e
    BY <1>2, <1>4, <2>1 DEF RelayInv, Numbered
  <2> QED BY <1>4, <2>2, <2>3 DEF Numbered
<1>6. OnTheLine'
  <2>1. \A q \in Registration : \A id \in Nat : \A d : Belongs(q, id, d) => Belongs(q, id, d)'
    BY <1>2, <1>4 DEF Belongs
  <2>2. \A q \in Registration : \A t \in asked[q] : t[1] \in Nat
    BY DEF RelayInv, OnTheLine
  <2>3. \A q \in Registration : \A i \in DOMAIN up[q] : up[q][i].id \in Nat
    <3>1. \A f \in Frame : f.id \in Nat
      BY DEF Frame
    <3>2. \A q \in Registration : up[q] \in Seq(Frame)
      BY DEF RelayInv, OnTheLine
    <3>3. \A q \in Registration : \A i \in DOMAIN up[q] : up[q][i] \in Frame
      BY <3>2
    <3> QED BY <3>1, <3>3
  <2> QED BY <1>1, <2>1, <2>2, <2>3 DEF RelayInv, OnTheLine, line
<1>7. Delivered'
  BY <1>1 DEF RelayInv, Delivered
<1> QED BY <1>3, <1>5, <1>6, <1>7 DEF RelayInv

\* What is written bears the id of whoever writes it.
LEMMA SendStep ==
    ASSUME RelayInv, NEW c \in Relayed, Send(c)
    PROVE  RelayInv'
<1>1. /\ phase[c] = "sending" /\ GoTo(c, "draining")
      /\ asked' = IF phase[via[c]] = "relaying"
                  THEN [asked EXCEPT ![via[c]] = @ \cup {<<msgId[c], c, 0>>}] ELSE asked
      /\ UNCHANGED <<session, request, up>>
  BY DEF Send
<1>2. Places' /\ Serving'
  BY <1>1, KindsDiffer, ServingKept DEF RelayInv, Phase, session
<1>3. Numbered' /\ Delivered'
  BY <1>1 DEF RelayInv, Numbered, Delivered, session, request
<1>4. \A q \in Registration : \A id, d : Belongs(q, id, d)' <=> Belongs(q, id, d)
  BY <1>1 DEF Belongs, session, request
<1>5. ASSUME NEW q \in Registration, NEW t \in asked'[q]
      PROVE  t \in Nat \X Relayed \X Nat /\ Belongs(q, t[1], t[2])
  <2>1. CASE t \in asked[q]
    BY <2>1 DEF RelayInv, OnTheLine
  <2>2. CASE q = via[c] /\ t = <<msgId[c], c, 0>>
    <3>1. via[c] # NoConn /\ msgId[c] \in Nat
      BY <2>2, KindsDiffer DEF RelayInv, Numbered
    <3>2. Belongs(q, msgId[c], c)
      BY <2>2, <3>1 DEF RelayInv, Numbered, Belongs
    <3> QED BY <2>2, <3>1, <3>2
  <2> QED BY <1>1, <1>5, <2>1, <2>2 DEF RelayInv, OnTheLine
<1>6. asked' \in [Registration -> SUBSET (Nat \X Relayed \X Nat)]
  <2>1. DOMAIN asked' = Registration /\ asked' = [q \in Registration |-> asked'[q]]
    BY <1>1 DEF RelayInv, OnTheLine
  <2>2. \A q \in Registration : asked'[q] \subseteq Nat \X Relayed \X Nat
    BY <1>5
  <2> QED BY <2>1, <2>2
<1>7. OnTheLine'
  BY <1>1, <1>4, <1>5, <1>6 DEF RelayInv, OnTheLine
<1> QED BY <1>2, <1>3, <1>7 DEF RelayInv

\* Waiting for the peer to read, and giving up.
LEMMA WaitStep ==
    ASSUME RelayInv, NEW c \in Relayed, Drained(c) \/ Expire(c)
    PROVE  RelayInv'
<1>1. PICK w \in {"waiting", "closing"} : GoTo(c, w)
  BY DEF Drained, Expire
<1>2. phase[c] # "relaying" /\ UNCHANGED <<session, request, line>>
  BY DEF Drained, Expire
<1>3. Places' /\ Serving'
  BY <1>1, <1>2, KindsDiffer, ServingKept DEF RelayInv, Phase, session
<1>4. Numbered' /\ OnTheLine'
  BY <1>2, LineKept DEF RelayInv, session, request, line
<1>5. Delivered'
  BY <1>2 DEF RelayInv, Delivered, request
<1> QED BY <1>3, <1>4, <1>5 DEF RelayInv

\* What a consumer is given was delivered to its request.
LEMMA PassStep ==
    ASSUME RelayInv, NEW c \in Relayed, Pass(c)
    PROVE  RelayInv'
<1> DEFINE x == Head(result[c])
<1>1. /\ phase[c] = "waiting" /\ result[c] # <<>>
      /\ got' = IF x = Closed THEN got ELSE [got EXCEPT ![c] = @ \cup {x.of}]
      /\ result' = [result EXCEPT ![c] = Tail(@)]
      /\ UNCHANGED <<session, via, msgId, line>>
      /\ GoTo(c, "closing") \/ UNCHANGED phase
  BY DEF Pass
<1>2. Places' /\ Serving'
  <2>1. CASE UNCHANGED phase
    BY <1>1, <2>1 DEF RelayInv, Places, Serving, session
  <2>2. CASE GoTo(c, "closing")
    BY <1>1, <2>2, KindsDiffer, ServingKept DEF RelayInv, Phase, session
  <2> QED BY <1>1, <2>1, <2>2
<1>3. Numbered' /\ OnTheLine'
  BY <1>1, LineKept DEF RelayInv, session, line
<1>4. Delivered'
  <2> DEFINE r == result[c]
  <2>1. r \in Seq(Message) /\ r # <<>> /\ \A i \in DOMAIN r : OwnTo(c, r[i])
    BY <1>1 DEF RelayInv, Delivered, OwnAll
  <2>2. /\ Tail(r) \in Seq(Message) /\ x = r[1] /\ 1 \in DOMAIN r
        /\ \A i \in DOMAIN Tail(r) : Tail(r)[i] = r[i + 1] /\ i + 1 \in DOMAIN r
    BY <2>1
  <2>3. OwnTo(c, x) /\ OwnAll(c, Tail(r))
    BY <2>1, <2>2 DEF OwnAll
  <2>4. \A d \in Relayed : OwnAll(d, result'[d])
    BY <1>1, <2>3 DEF RelayInv, Delivered
  <2>5. x # Closed => x.of = c
    BY <2>3 DEF OwnTo
  <2>6. got' \in [Relayed -> SUBSET Relayed] /\ \A d \in Relayed : got'[d] \subseteq {d}
    BY <1>1, <2>5 DEF RelayInv, Delivered
  <2> QED BY <1>1, <2>4, <2>6 DEF RelayInv, Delivered, OwnAll
<1> QED BY <1>2, <1>3, <1>4 DEF RelayInv

\* The peer answers with the id it was asked with.
LEMMA ReplyStep ==
    ASSUME RelayInv, NEW s \in Registration, NEW t \in asked[s], Reply(s, t)
    PROVE  RelayInv'
<1>1. t \in Nat \X Relayed \X Nat /\ Belongs(s, t[1], t[2])
  BY DEF RelayInv, OnTheLine
<1>2. t[1] \in Nat /\ t[2] \in Relayed /\ t[3] \in Nat
  BY <1>1
<1>3. UNCHANGED <<phase, session, request>>
  BY DEF Reply
<1>4. PICK e \in BOOLEAN, A \in SUBSET {<<t[1], t[2], t[3] + 1>>} :
        /\ asked' = [asked EXCEPT ![s] = (@ \ {t}) \cup A]
        /\ up' = [up EXCEPT ![s] = Append(@, [id |-> t[1], payload |-> Payload(t[2], e)])]
  <2>1. CASE /\ asked' = [asked EXCEPT ![s] = @ \ {t}]
             /\ up' = [up EXCEPT ![s] = Append(@, [id |-> t[1], payload |-> Payload(t[2], TRUE)])]
    <3>1. asked' = [asked EXCEPT ![s] = (@ \ {t}) \cup {}]
      BY <2>1
    <3> QED BY <2>1, <3>1
  <2>2. CASE /\ asked' = [asked EXCEPT ![s] = (@ \ {t}) \cup {<<t[1], t[2], t[3] + 1>>}]
             /\ up' = [up EXCEPT ![s] = Append(@, [id |-> t[1], payload |-> Payload(t[2], FALSE)])]
    BY <2>2
  <2> QED BY <2>1, <2>2 DEF Reply
<1> DEFINE f == [id |-> t[1], payload |-> Payload(t[2], e)]
<1>5. f \in Frame /\ f.id = t[1] /\ f.payload.of = t[2]
  BY <1>2, <1>4 DEF Frame, Payload
<1>6. Places' /\ Serving' /\ Numbered' /\ Delivered'
  BY <1>3 DEF RelayInv, Places, Serving, Numbered, Delivered, session, request
<1>7. \A q \in Registration : \A id, d : Belongs(q, id, d)' <=> Belongs(q, id, d)
  BY <1>3 DEF Belongs, session, request
<1>8. ASSUME NEW q \in Registration
      PROVE  /\ asked'[q] \subseteq Nat \X Relayed \X Nat
             /\ \A u \in asked'[q] : Belongs(q, u[1], u[2])
  <2>1. \/ asked'[q] \subseteq asked[q]
        \/ q = s /\ asked'[q] \subseteq asked[q] \cup A
    BY <1>4 DEF RelayInv, OnTheLine
  <2>2. \A u \in A : u \in Nat \X Relayed \X Nat /\ Belongs(s, u[1], u[2])
    <3>1. <<t[1], t[2], t[3] + 1>> \in Nat \X Relayed \X Nat
      BY <1>2
    <3> QED BY <1>1, <1>4, <3>1
  <2> QED BY <2>1, <2>2 DEF RelayInv, OnTheLine
<1>9. ASSUME NEW q \in Registration
      PROVE  /\ up'[q] \in Seq(Frame)
             /\ \A i \in DOMAIN up'[q] : Belongs(q, up'[q][i].id, up'[q][i].payload.of)
  <2>1. CASE q # s
    <3>1. up'[q] = up[q]
      BY <1>4, <2>1 DEF RelayInv, OnTheLine
    <3> QED BY <3>1 DEF RelayInv, OnTheLine
  <2>2. CASE q = s
    <3>1. up'[s] = Append(up[s], f) /\ up[s] \in Seq(Frame)
      BY <1>4 DEF RelayInv, OnTheLine
    <3>2. /\ up'[s] \in Seq(Frame) /\ DOMAIN up'[s] = 1..(Len(up[s]) + 1)
          /\ DOMAIN up[s] = 1..Len(up[s]) /\ Len(up[s]) \in Nat
          /\ up'[s][Len(up[s]) + 1] = f /\ \A i \in DOMAIN up[s] : up'[s][i] = up[s][i]
      BY <1>5, <3>1
    <3>3. \A i \in DOMAIN up'[s] : Belongs(s, up'[s][i].id, up'[s][i].payload.of)
      <4>1. SUFFICES ASSUME NEW i \in DOMAIN up'[s]
                     PROVE  Belongs(s, up'[s][i].id, up'[s][i].payload.of)
        OBVIOUS
      <4>2. CASE i \in DOMAIN up[s]
        BY <3>2, <4>2 DEF RelayInv, OnTheLine
      <4>3. CASE i = Len(up[s]) + 1
        BY <1>1, <1>5, <3>2, <4>3
      <4> QED BY <3>2, <4>2, <4>3
    <3> QED BY <2>2, <3>2, <3>3
  <2> QED BY <2>1, <2>2
<1>10. OnTheLine'
  <2>1. asked' \in [Registration -> SUBSET (Nat \X Relayed \X Nat)]
    <3>1. asked' = [q \in Registration |-> asked'[q]]
      BY <1>4 DEF RelayInv, OnTheLine
    <3> QED BY <1>8, <3>1
  <2>2. up' \in [Registration -> Seq(Frame)]
    <3>1. up' = [q \in Registration |-> up'[q]]
      BY <1>4 DEF RelayInv, OnTheLine
    <3> QED BY <1>9, <3>1
  <2> QED BY <1>7, <1>8, <1>9, <2>1, <2>2 DEF OnTheLine
<1> QED BY <1>6, <1>10 DEF RelayInv

----------------------------------------------------------------------------
\* Admission: what the counters count.

InsideOf(a) == {c \in Inside : From[c] = a}
SessionsOf(a) == {p \in Sessions : From[table[p]] = a}

GateShape == open \in Nat /\ tracked \subseteq Address /\ held \in [Address -> Nat]

GateLimits ==
    /\ open <= MaxConnections
    /\ \A a \in Address : held[a] <= PerAddress
    /\ Cardinality(tracked) <= Max({MaxTracked, MaxConnections})

SessionLimits ==
    /\ Cardinality(Sessions) <= MaxRelaySessions
    /\ \A a \in Address : Cardinality(SessionsOf(a)) <= PerAddressSessions

GateInv == GateShape /\ PlacesCounted /\ GateLimits

\* Of two numbers the larger and the smaller.
LEMMA LargerOfTwo ==
    ASSUME NEW x \in Int, NEW y \in Int
    PROVE  Max({x, y}) \in {x, y} /\ Max({x, y}) >= x /\ Max({x, y}) >= y
<1>1. \E m \in {x, y} : \A z \in {x, y} : m >= z
  OBVIOUS
<1>2. Max({x, y}) \in {x, y} /\ \A z \in {x, y} : Max({x, y}) >= z
  BY <1>1 DEF Max
<1> QED BY <1>2

LEMMA SmallerOfTwo ==
    ASSUME NEW x \in Int, NEW y \in Int
    PROVE  Min({x, y}) \in {x, y} /\ Min({x, y}) <= x /\ Min({x, y}) <= y
<1>1. \E m \in {x, y} : \A z \in {x, y} : m <= z
  OBVIOUS
<1>2. Min({x, y}) \in {x, y} /\ \A z \in {x, y} : Min({x, y}) <= z
  BY <1>1 DEF Min
<1> QED BY <1>2

\* What is counted can be counted.
LEMMA Finite ==
    /\ IsFiniteSet(Conn) /\ IsFiniteSet(Inside) /\ IsFiniteSet(Address)
    /\ \A a : IsFiniteSet(InsideOf(a))
<1>1. IsFiniteSet(Conn) /\ IsFiniteSet(Address)
  BY RelayAssumption, AdmissionAssumption
<1>2. Inside \in SUBSET Conn /\ \A a : InsideOf(a) \in SUBSET Conn
  BY DEF Inside, InsideOf
<1> QED BY <1>1, <1>2, FS_Subset

\* Sessions are connections, so there are finitely many.
LEMMA SessionsFinite ==
    ASSUME RelayInv
    PROVE  IsFiniteSet(Sessions) /\ \A a : IsFiniteSet(SessionsOf(a))
<1> DEFINE f == [p \in Sessions |-> table[p]]
<1>1. f \in [Sessions -> Conn]
  BY KindsDiffer DEF RelayInv, Places, Sessions
<1>2. \A p, q \in Sessions : f[p] = f[q] => p = q
  BY DEF RelayInv, Serving, Sessions
<1>3. f \in Injection(Sessions, Conn)
  BY <1>1, <1>2 DEF Injection, IsInjective
<1>4. IsFiniteSet(Sessions)
  BY <1>3, Finite, FS_Injection
<1>5. \A a : SessionsOf(a) \in SUBSET Sessions
  BY DEF SessionsOf
<1> QED BY <1>4, <1>5, FS_Subset

\* Addresses that have connections are no more than those.
LEMMA BusyAddresses ==
    ASSUME NEW S, \A a \in S : InsideOf(a) # {}
    PROVE  Cardinality(S) <= Cardinality(Inside)
<1> DEFINE f == [a \in S |-> CHOOSE c \in Inside : From[c] = a]
<1>1. \A a \in S : f[a] \in Inside /\ From[f[a]] = a
  BY DEF InsideOf
<1>2. f \in [S -> Inside]
  BY <1>1
<1> HIDE DEF f
<1>3. \A a, b \in S : f[a] = f[b] => a = b
  BY <1>1
<1>4. f \in Injection(S, Inside)
  BY <1>2, <1>3 DEF Injection, IsInjective
<1> QED BY <1>4, Finite, FS_Injection

\* Only addresses without connections are forgotten.
LEMMA IdleForgotten ==
    ASSUME NEW a, NEW E \in Evictions(a)
    PROVE  E \subseteq Idle
BY DEF Evictions

\* A full table forgets somebody if there is anybody it may forget.
LEMMA SomebodyForgotten ==
    ASSUME NEW a \in Address, NEW E \in Evictions(a), tracked \subseteq Address,
           a \notin tracked, Cardinality(tracked) >= MaxTracked, Idle # {}
    PROVE  E # {}
<1> DEFINE n == Cardinality(Idle)
<1>1. IsFiniteSet(tracked) /\ IsFiniteSet(Idle)
  <2>1. tracked \in SUBSET Address /\ Idle \in SUBSET Address
    BY DEF Idle
  <2> QED BY <2>1, Finite, FS_Subset
<1>2. n \in Nat /\ n # 0 /\ Cardinality(tracked) \in Nat
  BY <1>1, FS_CardinalityType, FS_EmptySet
<1>3. MaxTracked \in Nat
  BY AdmissionAssumption
<1>4. Cardinality(E) = Min({n, Max({1, n \div 4})})
  BY <1>2, <1>3 DEF Evictions
<1> HIDE DEF n
<1>5. PICK q \in Int : q = n \div 4
  BY <1>2
<1>6. PICK m \in Int : m = Max({1, q}) /\ m >= 1
  <2>1. PICK one \in Int : one = 1
    OBVIOUS
  <2>2. Max({one, q}) \in {one, q} /\ Max({one, q}) >= one
    BY LargerOfTwo
  <2> QED BY <2>1, <2>2
<1>7. Min({n, m}) >= 1
  <2>1. Min({n, m}) \in {n, m}
    BY <1>2, SmallerOfTwo
  <2> QED BY <1>2, <1>6, <2>1
<1>8. Cardinality(E) >= 1
  BY <1>4, <1>5, <1>6, <1>7
<1> SUFFICES ASSUME E = {} PROVE FALSE
  OBVIOUS
<1>9. Cardinality(E) = 0
  BY FS_EmptySet
<1> QED BY <1>8, <1>9

\* The table has room for whoever comes, and keeps those who are connected.
LEMMA TrackFits ==
    ASSUME GateInv, NEW a \in Address, NEW E \in Evictions(a), Track(a, E),
           open < MaxConnections
    PROVE  /\ tracked' \subseteq Address
           /\ Cardinality(tracked') <= Max({MaxTracked, MaxConnections})
           /\ a \in tracked'
           /\ \A b \in Address : held[b] > 0 => b \in tracked'
<1> DEFINE M == Max({MaxTracked, MaxConnections})
<1>1. tracked \subseteq Address /\ Cardinality(tracked) <= M
  BY DEF GateInv, GateShape, GateLimits
<1>2. IsFiniteSet(tracked)
  <2>1. tracked \in SUBSET Address
    BY <1>1
  <2> QED BY <2>1, Finite, FS_Subset
<1>3. M \in Int /\ M >= MaxTracked /\ M >= MaxConnections /\ MaxTracked \in Int
      /\ MaxConnections \in Int
  <2>1. MaxTracked \in Int /\ MaxConnections \in Int
    BY AdmissionAssumption
  <2> QED BY <2>1, LargerOfTwo
<1> HIDE DEF M
<1>4. tracked' = (tracked \ E) \cup {a} /\ E \subseteq Idle
  BY IdleForgotten DEF Track
<1>5. \A b \in Address : held[b] > 0 => b \in tracked /\ b \notin Idle
  <2>1. \A b \in Idle : held[b] = 0
    BY DEF Idle
  <2>2. \A b \in Address : held[b] > 0 => b \in tracked
    BY DEF GateInv, PlacesCounted
  <2>3. \A b \in Address : held[b] > 0 => held[b] # 0
    OBVIOUS
  <2> QED BY <2>1, <2>2, <2>3
<1>6. Cardinality(tracked') <= M
  <2> DEFINE rest == tracked \ E
  <2>1. rest \in SUBSET tracked
    OBVIOUS
  <2>2. IsFiniteSet(rest) /\ Cardinality(rest) <= Cardinality(tracked)
        /\ (Cardinality(rest) = Cardinality(tracked) => rest = tracked)
    BY <1>2, <2>1, FS_Subset
  <2>3. Cardinality(rest) \in Nat /\ Cardinality(tracked) \in Nat
        /\ Cardinality(tracked') = IF a \in rest THEN Cardinality(rest) ELSE Cardinality(rest) + 1
    BY <1>2, <1>4, <2>2, FS_CardinalityType, FS_AddElement
  <2>4. CASE a \in rest
    BY <1>1, <1>3, <2>2, <2>3, <2>4
  <2>5. CASE a \notin rest /\ Cardinality(tracked) < MaxTracked
    BY <1>3, <2>2, <2>3, <2>5
  <2>6. CASE a \notin rest /\ Cardinality(tracked) >= MaxTracked
    <3>1. CASE a \in tracked
      <4>1. E = {}
        BY <3>1 DEF Evictions
      <4> QED BY <2>6, <3>1, <4>1
    <3>2. CASE a \notin tracked /\ Idle # {}
      <4>1. E # {} /\ E \subseteq tracked
        BY <1>1, <1>4, <2>6, <3>2, SomebodyForgotten DEF Idle
      <4>2. rest # tracked
        BY <4>1
      <4> QED BY <1>1, <1>3, <2>2, <2>3, <4>2
    <3>3. CASE Idle = {}
      <4>1. \A b \in tracked : held[b] # 0
        BY <3>3 DEF Idle
      <4>2. \A b \in tracked : InsideOf(b) # {}
        BY <1>1, <4>1, FS_EmptySet DEF GateInv, PlacesCounted, InsideOf
      <4>3. Cardinality(tracked) <= open
        BY <4>2, BusyAddresses DEF GateInv, PlacesCounted
      <4> QED BY <1>3, <2>2, <2>3, <4>3 DEF GateInv, GateShape
    <3> QED BY <3>1, <3>2, <3>3
  <2> QED BY <1>3, <2>3, <2>4, <2>5, <2>6
<1> QED BY <1>1, <1>4, <1>5, <1>6 DEF M

\* Who comes in takes a place of the process and one of its address.
LEMMA LetInPlaces ==
    ASSUME GateInv, phase \in [Conn -> Phase], NEW c \in Conn, LetIn(c)
    PROVE  GateInv'
<1>1. PICK E \in Evictions(From[c]) :
        /\ held[From[c]] < PerAddress /\ Track(From[c], E)
        /\ open' = open + 1 /\ held' = [held EXCEPT ![From[c]] = @ + 1]
  BY DEF LetIn, Admit
<1>2. open < MaxConnections /\ phase[c] = "outside" /\ From[c] \in Address
      /\ MaxConnections \in Nat /\ PerAddress \in Nat
  BY RelayAssumption, AdmissionAssumption DEF LetIn
<1>3. phase' = [phase EXCEPT ![c] = "reading"] \/ phase' = [phase EXCEPT ![c] = "closing"]
  BY DEF LetIn, GoTo
<1>4. Inside' = Inside \cup {c} /\ c \notin Inside
  BY <1>2, <1>3 DEF Inside
<1>5. /\ InsideOf(From[c])' = InsideOf(From[c]) \cup {c} /\ c \notin InsideOf(From[c])
      /\ \A a : a # From[c] => InsideOf(a)' = InsideOf(a)
  BY <1>4 DEF InsideOf
<1>6. /\ Cardinality(Inside') = Cardinality(Inside) + 1
      /\ Cardinality(InsideOf(From[c])') = Cardinality(InsideOf(From[c])) + 1
  BY <1>4, <1>5, Finite, FS_AddElement
<1>7. /\ tracked' \subseteq Address
      /\ Cardinality(tracked') <= Max({MaxTracked, MaxConnections})
      /\ From[c] \in tracked' /\ \A b \in Address : held[b] > 0 => b \in tracked'
  BY <1>1, <1>2, TrackFits
<1>8. GateShape'
  BY <1>1, <1>2, <1>7 DEF GateInv, GateShape
<1>9. PlacesCounted'
  <2>1. open' = Cardinality(Inside')
    BY <1>1, <1>6 DEF GateInv, PlacesCounted
  <2>2. \A a \in Address : held'[a] = Cardinality(InsideOf(a)')
    BY <1>1, <1>2, <1>5, <1>6 DEF GateInv, GateShape, PlacesCounted, InsideOf
  <2>3. \A a \in Address : held'[a] > 0 => a \in tracked'
    BY <1>1, <1>2, <1>7 DEF GateInv, GateShape
  <2> QED BY <2>1, <2>2, <2>3 DEF PlacesCounted, InsideOf
<1>10. GateLimits'
  BY <1>1, <1>2, <1>7 DEF GateInv, GateShape, GateLimits
<1> QED BY <1>8, <1>9, <1>10 DEF GateInv

\* Who leaves gives back both.
LEMMA LeavePlaces ==
    ASSUME GateInv, phase \in [Conn -> Phase], NEW c \in Conn, Leave(c)
    PROVE  GateInv'
<1>1. /\ phase[c] = "closing" /\ phase' = [phase EXCEPT ![c] = "gone"]
      /\ open' = open - 1 /\ tracked' = tracked
      /\ held' = IF From[c] \in tracked /\ held[From[c]] > 0
                 THEN [held EXCEPT ![From[c]] = @ - 1] ELSE held
  BY DEF Leave, Depart, GoTo
<1>2. From[c] \in Address
  BY RelayAssumption
<1>3. Inside' = Inside \ {c} /\ c \in Inside
  BY <1>1 DEF Inside
<1>4. /\ InsideOf(From[c])' = InsideOf(From[c]) \ {c} /\ c \in InsideOf(From[c])
      /\ \A a : a # From[c] => InsideOf(a)' = InsideOf(a)
  BY <1>3 DEF InsideOf
<1>5. /\ Cardinality(Inside') = Cardinality(Inside) - 1
      /\ Cardinality(InsideOf(From[c])') = Cardinality(InsideOf(From[c])) - 1
      /\ Cardinality(Inside') \in Nat /\ Cardinality(InsideOf(From[c])') \in Nat
  <2>1. IsFiniteSet(Inside') /\ IsFiniteSet(InsideOf(From[c])')
    BY <1>3, <1>4, Finite, FS_RemoveElement
  <2> QED BY <1>3, <1>4, <2>1, Finite, FS_RemoveElement, FS_CardinalityType
<1>6. held[From[c]] = Cardinality(InsideOf(From[c])) /\ held[From[c]] \in Nat
  BY <1>2 DEF GateInv, GateShape, PlacesCounted, InsideOf
<1>7. held[From[c]] > 0 /\ From[c] \in tracked
  <2>1. held[From[c]] > 0
    BY <1>5, <1>6
  <2> QED BY <1>2, <2>1 DEF GateInv, PlacesCounted
<1>8. held' = [held EXCEPT ![From[c]] = @ - 1]
  BY <1>1, <1>7
<1>9. open' \in Nat /\ open' = Cardinality(Inside')
  BY <1>1, <1>5 DEF GateInv, PlacesCounted
<1>10. GateShape'
  BY <1>1, <1>2, <1>6, <1>7, <1>8, <1>9 DEF GateInv, GateShape
<1>11. PlacesCounted'
  <2>1. \A a \in Address : held'[a] = Cardinality(InsideOf(a)')
    BY <1>2, <1>4, <1>5, <1>6, <1>8 DEF GateInv, GateShape, PlacesCounted, InsideOf
  <2>2. \A a \in Address : held'[a] > 0 => a \in tracked'
    BY <1>1, <1>2, <1>7, <1>8 DEF GateInv, GateShape, PlacesCounted
  <2> QED BY <1>9, <2>1, <2>2 DEF PlacesCounted, InsideOf
<1>12. GateLimits'
  <2>1. \A a \in Address : held'[a] <= held[a]
    BY <1>2, <1>6, <1>8 DEF GateInv, GateShape
  <2> QED BY <1>1, <1>10, <2>1, AdmissionAssumption DEF GateInv, GateShape, GateLimits
<1> QED BY <1>10, <1>11, <1>12 DEF GateInv

\* Who is turned away has taken no place, though its address may be tracked.
LEMMA TurnAwayPlaces ==
    ASSUME GateInv, phase \in [Conn -> Phase], NEW c \in Conn, TurnAway(c)
    PROVE  GateInv'
<1>1. phase[c] = "outside" /\ phase' = [phase EXCEPT ![c] = "gone"]
  BY DEF TurnAway, GoTo
<1>2. Inside' = Inside
  BY <1>1 DEF Inside
<1>3. CASE UNCHANGED gate
  BY <1>2, <1>3 DEF GateInv, GateShape, PlacesCounted, GateLimits, gate, guard
<1>4. CASE open < MaxConnections /\ Shed(From[c])
  <2>1. PICK E \in Evictions(From[c]) : Track(From[c], E) /\ open' = open /\ held' = held
    BY <1>4 DEF Shed
  <2>2. From[c] \in Address
    BY RelayAssumption
  <2>3. /\ tracked' \subseteq Address
        /\ Cardinality(tracked') <= Max({MaxTracked, MaxConnections})
        /\ \A b \in Address : held[b] > 0 => b \in tracked'
    BY <1>4, <2>1, <2>2, TrackFits
  <2> QED BY <1>2, <2>1, <2>3 DEF GateInv, GateShape, PlacesCounted, GateLimits
<1> QED BY <1>3, <1>4, AdmissionAssumption DEF TurnAway, GateInv, GateShape

\* Nobody else comes or goes.
LEMMA PlacesKept ==
    ASSUME GateInv, UNCHANGED <<open, tracked, held>>, Inside' = Inside
    PROVE  GateInv'
BY DEF GateInv, GateShape, PlacesCounted, GateLimits

\* Handlers that go on stay inside.
LEMMA StaysInside ==
    ASSUME phase \in [Conn -> Phase], NEW c \in Conn, NEW w \in Phase, GoTo(c, w),
           phase[c] \notin {"outside", "gone"}, w \notin {"outside", "gone"}
    PROVE  Inside' = Inside
BY DEF Inside, GoTo

\* A registration finds room in the table and for its address.
LEMMA RegisterFits ==
    ASSUME RelayInv, SessionLimits, NEW s \in Registration, Register(s)
    PROVE  SessionLimits'
<1>1. RoomFor(From[s]) /\ table' = [table EXCEPT ![Of[s]] = s]
  BY DEF Register
<1>2. Of[s] \in Peer /\ s # NoConn
  BY RelayAssumption, KindsDiffer
<1>3. \A p \in Peer : table'[p] = IF p = Of[s] THEN s ELSE table[p]
  BY <1>1, <1>2 DEF RelayInv, Places
<1>4. IsFiniteSet(Sessions) /\ \A a : IsFiniteSet(SessionsOf(a))
  BY SessionsFinite
<1>5. /\ Cardinality(Sessions) \in Nat /\ Cardinality(Sessions) < MaxRelaySessions
      /\ Cardinality(SessionsOf(From[s])) \in Nat
      /\ Cardinality(SessionsOf(From[s])) < PerAddressSessions
  BY <1>1, <1>4, FS_CardinalityType DEF RoomFor, SessionsOf
<1>6. MaxRelaySessions \in Nat /\ PerAddressSessions \in Nat
  BY RelayAssumption
<1>7. Cardinality(Sessions') <= MaxRelaySessions
  <2>1. Sessions' = Sessions \cup {Of[s]}
    BY <1>2, <1>3 DEF Sessions
  <2>2. Cardinality(Sessions \cup {Of[s]}) \in {Cardinality(Sessions), Cardinality(Sessions) + 1}
    BY <1>4, FS_AddElement
  <2> QED BY <1>5, <1>6, <2>1, <2>2
<1>8. ASSUME NEW a \in Address
      PROVE  Cardinality(SessionsOf(a)') <= PerAddressSessions
  <2>1. CASE a = From[s]
    <3>1. SessionsOf(a)' = SessionsOf(a) \cup {Of[s]}
      BY <1>2, <1>3, <2>1 DEF Sessions, SessionsOf
    <3>2. Cardinality(SessionsOf(a) \cup {Of[s]})
            \in {Cardinality(SessionsOf(a)), Cardinality(SessionsOf(a)) + 1}
      BY <1>4, FS_AddElement
    <3> QED BY <1>5, <1>6, <2>1, <3>1, <3>2
  <2>2. CASE a # From[s]
    <3>1. SessionsOf(a)' \in SUBSET SessionsOf(a)
      BY <1>2, <1>3, <2>2 DEF Sessions, SessionsOf
    <3>2. IsFiniteSet(SessionsOf(a)') /\ Cardinality(SessionsOf(a)') <= Cardinality(SessionsOf(a))
      BY <1>4, <3>1, FS_Subset
    <3>3. Cardinality(SessionsOf(a)') \in Nat /\ Cardinality(SessionsOf(a)) \in Nat
      BY <1>4, <3>2, FS_CardinalityType
    <3> QED BY <1>6, <3>2, <3>3 DEF SessionLimits
  <2> QED BY <2>1, <2>2
<1> QED BY <1>7, <1>8 DEF SessionLimits

\* The table only gets smaller when a session ends.
LEMMA EndSessionFits ==
    ASSUME RelayInv, SessionLimits, NEW s \in Registration, EndSession(s)
    PROVE  SessionLimits'
<1>1. \A p \in Peer : table'[p] = table[p] \/ table'[p] = NoConn
  BY DEF EndSession, RelayInv, Places
<1>2. Sessions' \in SUBSET Sessions /\ \A a : SessionsOf(a)' \in SUBSET SessionsOf(a)
  BY <1>1 DEF Sessions, SessionsOf
<1>3. IsFiniteSet(Sessions) /\ \A a : IsFiniteSet(SessionsOf(a))
  BY SessionsFinite
<1>4. /\ IsFiniteSet(Sessions') /\ Cardinality(Sessions') <= Cardinality(Sessions)
      /\ \A a : IsFiniteSet(SessionsOf(a)')
               /\ Cardinality(SessionsOf(a)') <= Cardinality(SessionsOf(a))
  BY <1>2, <1>3, FS_Subset
<1>5. /\ Cardinality(Sessions') \in Nat /\ Cardinality(Sessions) \in Nat
      /\ \A a : Cardinality(SessionsOf(a)') \in Nat /\ Cardinality(SessionsOf(a)) \in Nat
  BY <1>3, <1>4, FS_CardinalityType
<1> QED BY <1>4, <1>5, RelayAssumption DEF SessionLimits

\* Every step keeps the places.
LEMMA PlacesStep ==
    ASSUME RelayInv, GateInv, [Next]_vars
    PROVE  GateInv'
<1>1. phase \in [Conn -> Phase]
  BY DEF RelayInv, Places
<1>2. CASE \E a \in Address : Refill(a) /\ UNCHANGED <<phase, session, lock, request, line>>
  <2>1. UNCHANGED <<open, tracked, held, phase>>
    BY <1>2 DEF Refill
  <2> QED BY <2>1, PlacesKept DEF Inside
<1>3. ASSUME NEW c \in Conn, TurnAway(c) \/ LetIn(c) \/ Proceed(c)
      PROVE  GateInv'
  <2>1. CASE TurnAway(c) \/ LetIn(c) \/ Leave(c)
    BY <1>1, <2>1, TurnAwayPlaces, LetInPlaces, LeavePlaces
  <2>2. ASSUME Answer(c) \/ Ask(c) \/ Send(c) \/ Drained(c) \/ Pass(c) \/ Expire(c)
        PROVE  GateInv'
    <3>1. UNCHANGED <<open, tracked, held>>
      BY <2>2 DEF Answer, Ask, Send, Drained, Pass, Expire, gate, guard
    <3>2. phase[c] \in {"reading", "sending", "draining", "waiting"}
      BY <2>2 DEF Answer, Ask, Send, Drained, Pass, Expire
    <3>3. \/ UNCHANGED phase
          \/ \E w \in {"closing", "sending", "draining", "waiting"} : GoTo(c, w)
      BY <2>2 DEF Answer, Ask, Send, Drained, Pass, Expire
    <3>4. Inside' = Inside
      <4>1. CASE UNCHANGED phase
        BY <4>1 DEF Inside
      <4>2. CASE \E w \in {"closing", "sending", "draining", "waiting"} : GoTo(c, w)
        BY <1>1, <3>2, <4>2, StaysInside DEF Phase
      <4> QED BY <3>3, <4>1, <4>2
    <3> QED BY <3>1, <3>4, PlacesKept
  <2> QED BY <1>3, <2>1, <2>2 DEF Proceed
<1>4. ASSUME NEW s \in Registration,
             Register(s) \/ EndSession(s) \/ Route(s) \/ \E t \in asked[s] : Reply(s, t)
      PROVE  GateInv'
  <2>1. UNCHANGED <<open, tracked, held>>
    BY <1>4 DEF Register, EndSession, Route, Reply, gate, guard
  <2>2. Inside' = Inside
    <3>1. CASE Register(s) \/ EndSession(s)
      <4>1. s \in Conn /\ phase[s] \in {"reading", "relaying"}
            /\ \E w \in {"relaying", "closing"} : GoTo(s, w)
        BY <3>1, KindsDiffer DEF Register, EndSession
      <4> QED BY <1>1, <4>1, StaysInside DEF Phase
    <3>2. CASE Route(s) \/ \E t \in asked[s] : Reply(s, t)
      <4>1. UNCHANGED phase
        BY <3>2 DEF Route, Reply
      <4> QED BY <4>1 DEF Inside
    <3> QED BY <1>4, <3>1, <3>2
  <2> QED BY <2>1, <2>2, PlacesKept
<1>5. CASE UNCHANGED vars
  BY <1>5, PlacesKept DEF vars, gate, guard, Inside
<1> QED BY <1>2, <1>3, <1>4, <1>5 DEF Next

\* And the limits of sessions.
LEMMA SessionsStep ==
    ASSUME RelayInv, SessionLimits, [Next]_vars
    PROVE  SessionLimits'
<1>1. CASE UNCHANGED table
  BY <1>1 DEF SessionLimits, SessionsOf, Sessions
<1>2. CASE \E s \in Registration : Register(s) \/ EndSession(s)
  BY <1>2, RegisterFits, EndSessionFits
<1>3. CASE \E c \in Conn : TurnAway(c) \/ LetIn(c) \/ Proceed(c)
  BY <1>1, <1>3 DEF TurnAway, LetIn, Proceed, Answer, Leave, Ask, Send, Drained, Pass, Expire, session
<1>4. CASE \E s \in Registration : Route(s) \/ \E t \in asked[s] : Reply(s, t)
  BY <1>1, <1>4 DEF Route, Reply, session
<1> QED BY <1>1, <1>2, <1>3, <1>4 DEF Next, vars, session

----------------------------------------------------------------------------
\* Results.

\* Sessions, ids and what is under way on a line belong together, whoever
\* comes and goes (_RelaySession, _relay_register, _relay_forward,
\* _relay_stream).
THEOREM RelayInvariance == Spec => []RelayInv
<1>1. Init => RelayInv
  BY InitHolds
<1>2. RelayInv /\ [Next]_vars => RelayInv'
  <2> SUFFICES ASSUME RelayInv, [Next]_vars PROVE RelayInv'
    OBVIOUS
  <2>1. CASE UNCHANGED <<phase, session, lock, request, line>>
    BY <2>1 DEF RelayInv, Places, Serving, Numbered, OnTheLine, Belongs, Delivered,
                session, request, line
  <2>2. CASE \E c \in Conn : TurnAway(c) \/ LetIn(c) \/ Proceed(c)
    BY <2>2, DoorStep, LeaveStep, AskStep, SendStep, WaitStep, PassStep DEF Proceed
  <2>3. CASE \E s \in Registration : Register(s) \/ EndSession(s) \/ Route(s)
                                     \/ \E t \in asked[s] : Reply(s, t)
    BY <2>3, RegisterStep, EndSessionStep, RouteStep, ReplyStep
  <2>4. CASE UNCHANGED vars
    BY <2>1, <2>4 DEF vars
  <2> QED BY <2>1, <2>2, <2>3, <2>4 DEF Next
<1> QED BY <1>1, <1>2, PTL DEF Spec

\* Whichever of a peer's connections ends first, the one it made last serves
\* it as long as it lives (the finally of _relay_register).
THEOREM NewestConnectionServes == Spec => []NewestServes
<1>1. RelayInv => NewestServes
  BY DEF RelayInv, Serving, NewestServes
<1> QED BY <1>1, RelayInvariance, PTL

\* Nobody is given the answer to somebody else's request, however late an
\* answer comes and whatever was given up meanwhile (route_reply).
THEOREM AnswersFindTheirRequests == Spec => []AnswersMatch
<1>1. RelayInv => AnswersMatch
  BY DEF RelayInv, Delivered, AnswersMatch
<1> QED BY <1>1, RelayInvariance, PTL

\* No place is lost and none is given twice, whoever comes, is turned away,
\* breaks off or is forgotten, and the table of addresses never outgrows the
\* larger of its size and the connections there may be (_handle_client,
\* IPGuard, _serve_relay_session).
THEOREM AdmissionIsKept == Spec => []AdmissionHolds
<1>1. Init => GateInv /\ SessionLimits
  <2> SUFFICES ASSUME Init PROVE GateInv /\ SessionLimits
    OBVIOUS
  <2>1. Inside = {} /\ Sessions = {} /\ tracked = {} /\ open = 0
        /\ held = [a \in Address |-> 0]
    BY DEF Init, GateInit, Inside, Sessions
  <2>2. \A a : InsideOf(a) = {} /\ SessionsOf(a) = {}
    BY <2>1 DEF InsideOf, SessionsOf
  <2>3. Cardinality({}) = 0
    BY FS_EmptySet
  <2>4. Max({MaxTracked, MaxConnections}) >= 0
    <3>1. MaxTracked \in Int /\ MaxConnections \in Int /\ MaxConnections >= 0
      BY AdmissionAssumption
    <3>2. Max({MaxTracked, MaxConnections}) \in {MaxTracked, MaxConnections}
          /\ Max({MaxTracked, MaxConnections}) >= MaxConnections
      BY <3>1, LargerOfTwo
    <3> QED BY <3>1, <3>2
  <2>5. GateInv
    BY <2>1, <2>2, <2>3, <2>4, AdmissionAssumption
       DEF GateInv, GateShape, PlacesCounted, GateLimits, InsideOf
  <2>6. SessionLimits
    BY <2>1, <2>2, <2>3, RelayAssumption DEF SessionLimits
  <2> QED BY <2>5, <2>6
<1>2. RelayInv /\ GateInv /\ SessionLimits /\ [Next]_vars => GateInv' /\ SessionLimits'
  BY PlacesStep, SessionsStep
<1>3. GateInv /\ SessionLimits => AdmissionHolds
  BY DEF GateInv, GateLimits, SessionLimits, SessionsOf, AdmissionHolds, WithinLimits
<1> QED BY <1>1, <1>2, <1>3, RelayInvariance, PTL DEF Spec
=============================================================================
