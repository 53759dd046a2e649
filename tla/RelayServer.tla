----------------------------- MODULE RelayServer -----------------------------
(***************************************************************************)
(* The connections of a public peer that relays for peers behind a NAT     *)
(* (src/kemi/node.py).  Every connection has a handler, let in by          *)
(* Admission.  A peer behind a NAT registers and leaves its connection     *)
(* open (_RelaySession); consumers have requests and streams forwarded     *)
(* over it, many at a time, told apart by ids of the session.  A peer      *)
(* that lost its connection registers again, also while the relay still    *)
(* believes in the old connection.                                         *)
(***************************************************************************)
EXTENDS Admission

CONSTANTS
    Conn,            \* the connections made to the relay
    From,            \* From[c]: the address c comes from
    Asks,            \* Asks[c]: the type of its message
    Peer,            \* peers behind a NAT
    Of,              \* Of[c]: the peer that registers, or that is wanted
    NoConn,
    MaxRelaySessions, PerAddressSessions,
    MaxEvents        \* bound: events of one stream

Registration == {c \in Conn : Asks[c] = "relay.register"}
Forward == {c \in Conn : Asks[c] = "relay.forward"}
Stream  == {c \in Conn : Asks[c] = "relay.stream"}
Relayed == Forward \cup Stream

ASSUME RelayAssumption ==
    /\ IsFiniteSet(Conn) /\ NoConn \notin Conn
    /\ From \in [Conn -> Address] /\ Of \in [Conn -> Peer]
    /\ Asks \in [Conn -> {"relay.register", "relay.forward", "relay.stream", "other"}]
    /\ MaxRelaySessions \in Nat /\ PerAddressSessions \in Nat /\ MaxEvents \in Nat

VARIABLES
    phase,    \* phase[c]: where c's handler is
    table,    \* table[p]: p's session in _relay_sessions
    newest,   \* history, newest[p]: the registration of p accepted last
    counter,  \* counter[s]: the last id session s gave out
    lock,     \* lock[s]: who holds its write_lock
    via,      \* via[c]: the session c's request goes over
    msgId,    \* msgId[c]: its id in that session
    result,   \* result[c]: what its future or queue holds
    asked,    \* asked[s]: <<id, request, events sent>> the peer works on
    up,       \* up[s]: what the peer has sent on s, not read yet
    got       \* history, got[c]: the requests whose answers c was given

request == <<via, msgId, result, got>>
session == <<table, newest, counter>>
line    == <<asked, up>>
vars    == <<gate, phase, session, lock, request, line>>

\* Handlers that are in _handle_client.
Inside == Conn \ {c \in Conn : phase[c] \in {"outside", "gone"}}

\* A reply or an event: whose it is, and whether it is the last.
Payload(c, end) == [of |-> c, end |-> end]

\* The exception of fail_all in a future, its None in a queue.
Closed == [of |-> NoConn, end |-> TRUE]

Init ==
    /\ GateInit
    /\ phase = [c \in Conn |-> "outside"]
    /\ table = [p \in Peer |-> NoConn] /\ newest = [p \in Peer |-> NoConn]
    /\ counter = [s \in Registration |-> 0]
    /\ lock = [s \in Registration |-> NoConn]
    /\ via = [c \in Relayed |-> NoConn] /\ msgId = [c \in Relayed |-> 0]
    /\ result = [c \in Relayed |-> <<>>] /\ got = [c \in Relayed |-> {}]
    /\ asked = [s \in Registration |-> {}] /\ up = [s \in Registration |-> <<>>]

GoTo(c, where) == phase' = [phase EXCEPT ![c] = where]

----------------------------------------------------------------------------
\* Any connection.

\* No room: closed without a word.
TurnAway(c) ==
    /\ phase[c] = "outside" /\ GoTo(c, "gone")
    /\ IF open >= MaxConnections THEN UNCHANGED gate ELSE Shed(From[c])
    /\ UNCHANGED <<session, lock, request, line>>

LetIn(c) ==
    /\ phase[c] = "outside" /\ open < MaxConnections
    /\ \/ Admit(From[c], TRUE) /\ GoTo(c, "reading")
       \/ Admit(From[c], FALSE) /\ GoTo(c, "closing")
    /\ UNCHANGED <<session, lock, request, line>>

\* The message does not come within its deadline, is no message, or is
\* answered by another service of the peer.
Answer(c) ==
    /\ phase[c] = "reading" /\ GoTo(c, "closing")
    /\ UNCHANGED <<gate, session, lock, request, line>>

\* The handler returns, and forgets what its request waited for.
Leave(c) ==
    /\ phase[c] = "closing" /\ GoTo(c, "gone")
    /\ Depart(From[c])
    /\ IF c \in Relayed
       THEN /\ via' = [via EXCEPT ![c] = NoConn] /\ msgId' = [msgId EXCEPT ![c] = 0]
            /\ result' = [result EXCEPT ![c] = <<>>] /\ UNCHANGED got
       ELSE UNCHANGED request
    /\ UNCHANGED <<session, lock, line>>

----------------------------------------------------------------------------
\* Registrations.

Sessions == {p \in Peer : table[p] # NoConn}

RoomFor(a) ==
    /\ Cardinality(Sessions) < MaxRelaySessions
    /\ Cardinality({p \in Sessions : From[table[p]] = a}) < PerAddressSessions

\* There is room and the envelope is in order.  Refusals are Answer.
Register(s) ==
    /\ phase[s] = "reading" /\ s \in Registration
    /\ RoomFor(From[s])
    /\ GoTo(s, "relaying")
    /\ table' = [table EXCEPT ![Of[s]] = s]
    /\ newest' = [newest EXCEPT ![Of[s]] = s]
    /\ UNCHANGED <<gate, counter, lock, request, line>>

\* Requests that stand in pending or streams of session s.
Waiting(s) == {c \in Relayed : via[c] = s /\ phase[c] \in {"sending", "draining", "waiting"}}

\* A future takes the first value it is given, a queue takes all.
Deliver(r, c, x) == IF c \in Forward /\ r[c] # <<>> THEN r[c] ELSE Append(r[c], x)

\* fail_all.
FailAll(S) == result' = [c \in Relayed |-> IF c \in S THEN Deliver(result, c, Closed)
                                                      ELSE result[c]]

\* Mutant: the clean-up does not look whose session is in the table.
EndSession_Careless(s) ==
    /\ phase[s] = "relaying" /\ GoTo(s, "closing")
    /\ table' = [table EXCEPT ![Of[s]] = NoConn]
    /\ FailAll(Waiting(s))
    /\ up' = [up EXCEPT ![s] = <<>>] /\ asked' = [asked EXCEPT ![s] = {}]
    /\ UNCHANGED <<gate, newest, counter, lock, via, msgId, got>>

\* The connection of s has ended, or what came over it was no message.
EndSession(s) ==
    /\ phase[s] = "relaying" /\ GoTo(s, "closing")
    /\ table' = IF table[Of[s]] = s THEN [table EXCEPT ![Of[s]] = NoConn] ELSE table
    /\ FailAll(Waiting(s))
    /\ up' = [up EXCEPT ![s] = <<>>] /\ asked' = [asked EXCEPT ![s] = {}]
    /\ UNCHANGED <<gate, newest, counter, lock, via, msgId, got>>

\* Mutant: a reply goes to the request that waits for longest, whatever its id.
Route_First(s) ==
    /\ phase[s] = "relaying" /\ up[s] # <<>>
    /\ result' = IF Waiting(s) = {} THEN result
                 ELSE LET c == CHOOSE c \in Waiting(s) :
                                  \A d \in Waiting(s) : msgId[c] <= msgId[d]
                      IN [result EXCEPT ![c] = Deliver(result, c, Head(up[s]).payload)]
    /\ up' = [up EXCEPT ![s] = Tail(@)]
    /\ UNCHANGED <<gate, phase, session, lock, via, msgId, got, asked>>

\* route_reply: to the queue or the future with that id, if there still is one.
Route(s) ==
    /\ phase[s] = "relaying" /\ up[s] # <<>>
    /\ result' = [c \in Relayed |->
                    IF c \in Waiting(s) /\ msgId[c] = Head(up[s]).id
                    THEN Deliver(result, c, Head(up[s]).payload) ELSE result[c]]
    /\ up' = [up EXCEPT ![s] = Tail(@)]
    /\ UNCHANGED <<gate, phase, session, lock, via, msgId, got, asked>>

----------------------------------------------------------------------------
\* Requests for a peer behind a NAT.

\* _next_id, and the future or queue that waits.  No session: Answer.
Ask(c) ==
    /\ phase[c] = "reading" /\ c \in Relayed /\ table[Of[c]] # NoConn
    /\ GoTo(c, "sending")
    /\ via' = [via EXCEPT ![c] = table[Of[c]]]
    /\ counter' = [counter EXCEPT ![table[Of[c]]] = @ + 1]
    /\ msgId' = [msgId EXCEPT ![c] = counter'[table[Of[c]]]]
    /\ UNCHANGED <<gate, table, newest, lock, result, got, line>>

\* The write lock is free: the request is written, if anybody is there.
Send(c) ==
    /\ phase[c] = "sending" /\ lock[via[c]] = NoConn
    /\ lock' = [lock EXCEPT ![via[c]] = c]
    /\ GoTo(c, "draining")
    /\ asked' = IF phase[via[c]] = "relaying"
                THEN [asked EXCEPT ![via[c]] = @ \cup {<<msgId[c], c, 0>>}] ELSE asked
    /\ UNCHANGED <<gate, session, request, up>>

\* drain returns: the peer reads, or the connection has ended.
Drained(c) ==
    /\ phase[c] = "draining"
    /\ lock' = [lock EXCEPT ![via[c]] = NoConn]
    /\ GoTo(c, "waiting")
    /\ UNCHANGED <<gate, session, request, line>>

\* Mutant: only streams have a deadline.
Expire_Never(c) ==
    /\ phase[c] = "waiting" /\ c \in Stream
    /\ GoTo(c, "closing")
    /\ UNCHANGED <<gate, session, lock, request, line>>

\* RELAY_FORWARD_TIMEOUT, or the consumer of a stream is gone.
Expire(c) ==
    /\ phase[c] = "waiting"
    /\ GoTo(c, "closing")
    /\ UNCHANGED <<gate, session, lock, request, line>>

\* The answer, or the next event, goes to the consumer.
Pass(c) ==
    /\ phase[c] = "waiting" /\ result[c] # <<>>
    /\ LET x == Head(result[c])
       IN /\ got' = IF x = Closed THEN got ELSE [got EXCEPT ![c] = @ \cup {x.of}]
          /\ IF x.end THEN GoTo(c, "closing") ELSE UNCHANGED phase
    /\ result' = [result EXCEPT ![c] = Tail(@)]
    /\ UNCHANGED <<gate, session, lock, via, msgId, line>>

----------------------------------------------------------------------------
\* The peer at the other end (_answer_relayed): every request is a task of its
\* own, which answers on the connection the request came from.

Reply(s, t) ==
    /\ t \in asked[s]
    /\ LET c == t[2]
       IN \/ /\ asked' = [asked EXCEPT ![s] = @ \ {t}]
             /\ up' = [up EXCEPT ![s] = Append(@, [id |-> t[1], payload |-> Payload(c, TRUE)])]
          \/ /\ c \in Stream /\ t[3] < MaxEvents
             /\ asked' = [asked EXCEPT ![s] = (@ \ {t}) \cup {<<t[1], c, t[3] + 1>>}]
             /\ up' = [up EXCEPT ![s] = Append(@, [id |-> t[1], payload |-> Payload(c, FALSE)])]
    /\ UNCHANGED <<gate, phase, session, lock, request>>

----------------------------------------------------------------------------
Proceed(c) ==
    Answer(c) \/ Leave(c) \/ (c \in Relayed /\ (Ask(c) \/ Send(c) \/ Drained(c)
                                                  \/ Pass(c) \/ Expire(c)))

Next ==
    \/ \E a \in Address : Refill(a) /\ UNCHANGED <<phase, session, lock, request, line>>
    \/ \E c \in Conn : TurnAway(c) \/ LetIn(c) \/ Proceed(c)
    \/ \E s \in Registration :
          Register(s) \/ EndSession(s) \/ Route(s) \/ \E t \in asked[s] : Reply(s, t)

Spec == Init /\ [][Next]_vars

\* A handler that can go on does.  Drained: peers read, or their connection
\* breaks.  Nothing makes a peer register, answer or go away.
Fairness == \A c \in Conn : WF_vars(Proceed(c))

FairSpec == Spec /\ Fairness

----------------------------------------------------------------------------
\* What the counters say is so: open counts the handlers, held those of an
\* address, and no address is forgotten while it has a connection.
PlacesCounted ==
    /\ open = Cardinality(Inside)
    /\ \A a \in Address :
          /\ held[a] = Cardinality({c \in Inside : From[c] = a})
          /\ held[a] > 0 => a \in tracked

\* No limit is exceeded.  The table of addresses outgrows its size only while
\* every address in it has a connection, so connections bound it as well.
WithinLimits ==
    /\ open <= MaxConnections
    /\ \A a \in Address : held[a] <= PerAddress
    /\ Cardinality(tracked) <= Max({MaxTracked, MaxConnections})
    /\ Cardinality(Sessions) <= MaxRelaySessions
    /\ \A a \in Address :
          Cardinality({p \in Sessions : From[table[p]] = a}) <= PerAddressSessions

\* Whoever comes, is turned away, breaks off or is forgotten in whatever order:
\* no place is lost to the node or to an address, and none is given twice
\* (ratelimit.py:70-99, node.py:361-374, 1015-1026).
AdmissionHolds == PlacesCounted /\ WithinLimits

\* Whatever the order in which a peer's old and new connections come and go:
\* its newest connection is in the table as long as it is there, and what is
\* in the table is there.
NewestServes ==
    \A p \in Peer :
        /\ newest[p] # NoConn /\ phase[newest[p]] = "relaying" => table[p] = newest[p]
        /\ table[p] # NoConn => phase[table[p]] = "relaying"

\* A consumer is only ever given answers to its own request, also when those
\* to requests that were given up come late.
AnswersMatch == \A c \in Relayed : got[c] \subseteq {c}

\* The handler of a request ends, whatever becomes of peers and sessions.
RequestsEnd ==
    \A c \in Relayed : phase[c] = "reading" ~> phase[c] = "gone"
=============================================================================
