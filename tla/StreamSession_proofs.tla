------------------------ MODULE StreamSession_proofs ------------------------
(***************************************************************************)
(* The consumer charges itself only for payments that are in force, for    *)
(* every set of streams, ranking of providers, price and bound.            *)
(*                                                                         *)
(* The argument follows a payment from the provider to the consumer's      *)
(* books: a provider that works has applied it (Applied), so a frame that  *)
(* is a receipt tells the truth while it is under way (Receipted), also    *)
(* when the consumer has gone on to another attempt, for then the pipe was *)
(* emptied (Emptied); what the consumer has noted was in such a frame      *)
(* (Noted), and only what it has noted is mirrored.                        *)
(***************************************************************************)
EXTENDS StreamSession, SequenceTheorems, FiniteSetTheorems, TLAPS

Steps == {"none", "asked", "queued", "working", "talking", "ending", "over"}

\* What the steps below need of the types.
Shape ==
    /\ stage \in [Session -> {"idle", "reading", "closing"} \cup Over]
    /\ at \in [Session -> Nat]
    /\ committed \in [Session -> BOOLEAN]
    /\ pipe \in [Session -> Seq(Frame)]
    /\ work = [s \in Session |-> work[s]]
    /\ \A s \in Session : work[s] \in [DOMAIN Ranking[s] -> Steps]

\* Only a stream that is read has frames in its pipe.
Emptied == \A s \in Session : stage[s] # "reading" => pipe[s] = <<>>

\* Who works, or waits to, has applied the payment.
Applied ==
    \A s \in Session : \A k \in DOMAIN Ranking[s] :
        work[s][k] \in {"queued", "working", "talking", "ending"} => <<s, k>> \in inForce

\* A receipt on its way tells the truth.
Receipted ==
    \A s \in Session : \A i \in 1..Len(pipe[s]) :
        pipe[s][i] \in Receipts => <<s, at[s]>> \in inForce

\* So does what the consumer has noted.
Noted == \A s \in Session : committed[s] => <<s, at[s]>> \in inForce

\* The inductive invariant.
IInv == Shape /\ Emptied /\ Applied /\ Receipted /\ Noted /\ MirroredIsInForce

-----------------------------------------------------------------------------
\* Before the first stream there is nothing to hold.
LEMMA InitIInv == Init => IInv
BY StreamAssumption
   DEF Init, IInv, Shape, Emptied, Applied, Receipted, Noted, MirroredIsInForce, Steps, Frame

\* A provider moves one attempt on and leaves the others alone.
LEMMA ReachTyped ==
    ASSUME Shape, NEW s \in Session, NEW k \in DOMAIN Ranking[s], NEW w \in Steps,
           work' = [work EXCEPT ![s][k] = w]
    PROVE  /\ work' = [u \in Session |-> work'[u]]
           /\ \A u \in Session : work'[u] \in [DOMAIN Ranking[u] -> Steps]
           /\ \A u \in Session : \A j \in DOMAIN Ranking[u] :
                 work'[u][j] = IF u = s /\ j = k THEN w ELSE work[u][j]
<1>1. work' = [work EXCEPT ![s] = [work[s] EXCEPT ![k] = w]]
  BY DEF Shape
<1>2. [work[s] EXCEPT ![k] = w] \in [DOMAIN Ranking[s] -> Steps]
  BY DEF Shape
<1>3. work' = [u \in Session |-> work'[u]] BY <1>1 DEF Shape
<1>4. \A u \in Session : work'[u] = IF u = s THEN [work[s] EXCEPT ![k] = w] ELSE work[u]
  BY <1>1 DEF Shape
<1>5. \A u \in Session : work'[u] \in [DOMAIN Ranking[u] -> Steps]
  BY <1>2, <1>4 DEF Shape
<1>6. \A u \in Session : \A j \in DOMAIN Ranking[u] :
         work'[u][j] = IF u = s /\ j = k THEN w ELSE work[u][j]
  BY <1>4 DEF Shape
<1> QED BY <1>3, <1>5, <1>6

\* What there is to read.
LEMMA FirstFrame ==
    ASSUME NEW q \in Seq(Frame), q # <<>>
    PROVE  /\ 1 \in 1..Len(q) /\ Head(q) = q[1] /\ Head(q) \in Frame
           /\ Tail(q) \in Seq(Frame) /\ Len(Tail(q)) = Len(q) - 1
           /\ \A i \in 1..Len(Tail(q)) : Tail(q)[i] = q[i + 1]
OBVIOUS

\* What is left of a pipe when the connection breaks.
LEMMA Prefix ==
    ASSUME NEW q \in Seq(Frame), NEW n \in 0..Len(q)
    PROVE  /\ SubSeq(q, 1, n) \in Seq(Frame) /\ Len(SubSeq(q, 1, n)) = n
           /\ \A i \in 1..n : i \in 1..Len(q) /\ SubSeq(q, 1, n)[i] = q[i]
<1>1. n \in Int /\ 1 \in Int /\ n <= Len(q) /\ 0 <= n /\ Len(q) \in Nat OBVIOUS
<1>2. \A i \in 1..n : q[i] \in Frame BY <1>1
<1>3. /\ SubSeq(q, 1, n) \in Seq(Frame)
      /\ Len(SubSeq(q, 1, n)) = IF 1 <= n THEN n - 1 + 1 ELSE 0
      /\ \A i \in 1..n - 1 + 1 : SubSeq(q, 1, n)[i] = q[1 + i - 1]
  BY <1>1, <1>2, SubSeqProperties
<1> QED BY <1>1, <1>3

\* A position that is not the new one is one of the old ones.
LEMMA NotTheLast ==
    ASSUME NEW n \in Nat, NEW i \in 1..n + 1, i # n + 1
    PROVE  i \in 1..n
OBVIOUS

\* A pipe with one frame more.
LEMMA OneMore ==
    ASSUME NEW q \in Seq(Frame), NEW f \in Frame
    PROVE  /\ Len(q) \in Nat
           /\ Append(q, f) \in Seq(Frame) /\ Len(Append(q, f)) = Len(q) + 1
           /\ \A i \in 1..Len(q) + 1 :
                 Append(q, f)[i] = IF i = Len(q) + 1 THEN f ELSE q[i]
OBVIOUS

\* The consumer's next attempt starts with nothing noted.
LEMMA TryKeeps ==
    ASSUME IInv, NEW s \in Session, NEW k \in Nat, NEW held,
           stage[s] # "reading", Try(s, k, held),
           mirrored' \subseteq inForce, UNCHANGED <<pipe, inForce>>
    PROVE  IInv'
<1> USE StreamAssumption DEF IInv, Shape
<1>0. /\ committed' = [committed EXCEPT ![s] = FALSE]
      /\ \/ /\ k \in DOMAIN Ranking[s] /\ stage' = [stage EXCEPT ![s] = "reading"]
            /\ at' = [at EXCEPT ![s] = k] /\ work' = [work EXCEPT ![s][k] = "asked"]
         \/ /\ stage' = [stage EXCEPT ![s] = "failed"] /\ at' = at /\ work' = work
  BY DEF Try, Leave, MayHire
<1>1. Shape'
  <2>1. stage' \in [Session -> {"idle", "reading", "closing"} \cup Over] BY <1>0 DEF Over
  <2>2. at' \in [Session -> Nat] /\ committed' \in [Session -> BOOLEAN] BY <1>0
  <2>3. work' = [u \in Session |-> work'[u]] BY <1>0
  <2>4. \A u \in Session : work'[u] \in [DOMAIN Ranking[u] -> Steps]
    BY <1>0, ReachTyped DEF Steps
  <2> QED BY <2>1, <2>2, <2>3, <2>4
<1>2. Emptied' BY <1>0 DEF Emptied
<1>3. Applied'
  <2>1. CASE work' = work BY <2>1 DEF Applied
  <2>2. CASE k \in DOMAIN Ranking[s] /\ work' = [work EXCEPT ![s][k] = "asked"]
    <3>1. "asked" \in Steps BY DEF Steps
    <3>2. \A u \in Session : \A j \in DOMAIN Ranking[u] :
             work'[u][j] = IF u = s /\ j = k THEN "asked" ELSE work[u][j]
      BY <2>2, <3>1, ReachTyped
    <3> QED BY <3>2 DEF Applied
  <2> QED BY <1>0, <2>1, <2>2
<1>4. Receipted'
  <2> SUFFICES ASSUME NEW u \in Session, NEW i \in 1..Len(pipe[u]), pipe[u][i] \in Receipts
               PROVE  <<u, at'[u]>> \in inForce
    BY DEF Receipted
  <2>1. u # s BY DEF Emptied
  <2> QED BY <1>0, <2>1 DEF Receipted
<1>5. Noted' BY <1>0 DEF Noted
<1> QED BY <1>1, <1>2, <1>3, <1>4, <1>5 DEF MirroredIsInForce

\* A provider moves on, and may send a frame: it has applied the payment
\* before it sends a receipt or goes to work.
LEMMA ServeKeeps ==
    ASSUME IInv, NEW s \in Session, NEW k \in DOMAIN Ranking[s], NEW w \in Steps,
           Reach(s, k, w), inForce \subseteq inForce',
           w \in {"queued", "working", "talking", "ending"} => <<s, k>> \in inForce',
           \/ UNCHANGED pipe
           \/ \E f \in Frame : Emit(s, k, f) /\ (f \in Receipts => <<s, k>> \in inForce'),
           UNCHANGED <<stage, at, committed, mirrored>>
    PROVE  IInv'
<1> USE DEF IInv
<1>1. CASE UNCHANGED pipe
  <2>1. Shape' BY <1>1, ReachTyped DEF Shape, Reach
  <2>2. Applied' BY ReachTyped DEF Applied, Reach
  <2>3. Emptied' /\ Receipted' /\ Noted' BY <1>1 DEF Emptied, Receipted, Noted
  <2> QED BY <2>1, <2>2, <2>3 DEF MirroredIsInForce
<1>2. ASSUME NEW f \in Frame, Heard(s, k), f \in Receipts => <<s, k>> \in inForce',
             pipe' = [pipe EXCEPT ![s] = Append(@, f)]
      PROVE  IInv'
  <2>0. Append(pipe[s], f) \in Seq(Frame) BY DEF Shape
  <2>1. Shape'
    <3>1. pipe' \in [Session -> Seq(Frame)] BY <1>2, <2>0 DEF Shape
    <3> QED BY <3>1, ReachTyped DEF Shape, Reach
  <2>2. Applied' BY ReachTyped DEF Applied, Reach
  <2>3. Emptied' BY <1>2 DEF Emptied, Heard, Shape
  <2>4. Receipted'
    <3> SUFFICES ASSUME NEW u \in Session, NEW i \in 1..Len(pipe'[u]), pipe'[u][i] \in Receipts
                 PROVE  <<u, at[u]>> \in inForce'
      BY DEF Receipted
    <3>1. CASE u # s BY <1>2, <3>1 DEF Receipted, Shape
    <3>2. CASE u = s
      <4>1. pipe[s] \in Seq(Frame) /\ pipe'[s] = Append(pipe[s], f) /\ at[s] = k
        BY <1>2 DEF Shape, Heard
      <4>2. CASE i = Len(pipe[s]) + 1 BY <1>2, <3>2, <4>1, <4>2
      <4>3. CASE i \in 1..Len(pipe[s]) BY <3>2, <4>1, <4>3 DEF Receipted
      <4> QED BY <3>2, <4>1, <4>2, <4>3
    <3> QED BY <3>1, <3>2
  <2>5. Noted' BY DEF Noted
  <2> QED BY <2>1, <2>2, <2>3, <2>4, <2>5 DEF MirroredIsInForce
<1> QED BY <1>1, <1>2 DEF Emit

\* Frames are taken out of a pipe, or the relay puts one in that is no receipt.
LEMMA WireKeeps ==
    ASSUME IInv, NEW s \in Session, stage[s] = "reading",
           \/ \E n \in 0..Len(pipe[s]) : pipe' = [pipe EXCEPT ![s] = SubSeq(@, 1, n)]
           \/ pipe' = [pipe EXCEPT ![s] = Append(@, "relay failed")],
           UNCHANGED <<stage, at, committed, work, inForce, mirrored>>
    PROVE  IInv'
<1> USE DEF IInv
<1>1. PICK q \in Seq(Frame) :
        /\ pipe' = [pipe EXCEPT ![s] = q]
        /\ \A i \in 1..Len(q) : q[i] \in Receipts => i \in 1..Len(pipe[s]) /\ q[i] = pipe[s][i]
  <2>1. pipe[s] \in Seq(Frame) BY DEF Shape
  <2>2. CASE \E n \in 0..Len(pipe[s]) : pipe' = [pipe EXCEPT ![s] = SubSeq(@, 1, n)]
    <3>1. PICK n \in 0..Len(pipe[s]) : pipe' = [pipe EXCEPT ![s] = SubSeq(@, 1, n)] BY <2>2
    <3> DEFINE q == SubSeq(pipe[s], 1, n)
    <3>2. /\ q \in Seq(Frame) /\ Len(q) = n
          /\ \A i \in 1..n : i \in 1..Len(pipe[s]) /\ q[i] = pipe[s][i]
      BY <2>1, <3>1, Prefix
    <3>3. pipe' = [pipe EXCEPT ![s] = q] BY <3>1
    <3> HIDE DEF q
    <3> QED BY <3>2, <3>3
  <2>3. CASE pipe' = [pipe EXCEPT ![s] = Append(@, "relay failed")]
    <3>1. "relay failed" \in Frame /\ "relay failed" \notin Receipts BY DEF Frame, Receipts
    <3> DEFINE q == Append(pipe[s], "relay failed")
    <3>2. /\ q \in Seq(Frame) /\ Len(q) = Len(pipe[s]) + 1
          /\ \A i \in 1..Len(pipe[s]) + 1 :
                q[i] = IF i = Len(pipe[s]) + 1 THEN "relay failed" ELSE pipe[s][i]
      BY <2>1, <3>1, OneMore
    <3>3. Len(pipe[s]) \in Nat BY <2>1, <3>1, OneMore
    <3>4. \A i \in 1..Len(q) : q[i] \in Receipts => i \in 1..Len(pipe[s]) /\ q[i] = pipe[s][i]
      <4> SUFFICES ASSUME NEW i \in 1..Len(q), q[i] \in Receipts
                   PROVE  i \in 1..Len(pipe[s]) /\ q[i] = pipe[s][i]
        OBVIOUS
      <4> HIDE DEF q
      <4>1. i # Len(pipe[s]) + 1 BY <3>1, <3>2
      <4>2. i \in 1..Len(pipe[s]) + 1 BY <3>2
      <4>3. q[i] = pipe[s][i] BY <3>2, <4>1, <4>2
      <4>4. i \in 1..Len(pipe[s]) BY <3>3, <4>1, <4>2, NotTheLast
      <4> QED BY <4>3, <4>4
    <3>5. pipe' = [pipe EXCEPT ![s] = q] BY <2>3
    <3> HIDE DEF q
    <3> QED BY <3>2, <3>4, <3>5
  <2> QED BY <2>2, <2>3
<1>2. Shape' BY <1>1 DEF Shape
<1>3. Emptied' BY <1>1 DEF Emptied, Shape
<1>4. Receipted' BY <1>1 DEF Receipted, Shape
<1>5. Applied' /\ Noted' /\ MirroredIsInForce' BY DEF Applied, Noted, MirroredIsInForce
<1> QED BY <1>2, <1>3, <1>4, <1>5

\* The consumer reads, and notes or mirrors what it has read.
LEMMA ReadKeeps == ASSUME IInv, NEW s \in Session, Read(s) PROVE IInv'
<1> USE DEF IInv
<1>0. pipe[s] \in Seq(Frame) /\ pipe[s] # <<>> BY DEF Read, Shape
<1>1. /\ 1 \in 1..Len(pipe[s]) /\ Head(pipe[s]) = pipe[s][1]
      /\ Tail(pipe[s]) \in Seq(Frame) /\ Len(Tail(pipe[s])) = Len(pipe[s]) - 1
      /\ \A i \in 1..Len(Tail(pipe[s])) : Tail(pipe[s])[i] = pipe[s][i + 1]
  BY <1>0, FirstFrame
<1>2. Head(pipe[s]) \in Receipts BY DEF Read, Receipts
<1>3. <<s, at[s]>> \in inForce BY <1>1, <1>2 DEF Receipted
<1>4. Shape'
  <2>1. pipe' \in [Session -> Seq(Frame)] BY <1>1 DEF Shape, Read
  <2>2. committed' \in [Session -> BOOLEAN] BY DEF Shape, Read
  <2> QED BY <2>1, <2>2 DEF Shape, Read, seller
<1>5. Emptied' BY DEF Emptied, Read, Shape
<1>6. Receipted'
  <2> SUFFICES ASSUME NEW u \in Session, NEW i \in 1..Len(pipe'[u]), pipe'[u][i] \in Receipts
               PROVE  <<u, at[u]>> \in inForce
    BY DEF Receipted, Read
  <2>1. CASE u # s BY <2>1 DEF Receipted, Read, Shape
  <2>2. CASE u = s BY <1>3, <2>2
  <2> QED BY <2>1, <2>2
<1>7. Noted' BY <1>3 DEF Noted, Read, Shape
<1>8. Applied' /\ MirroredIsInForce' BY DEF Applied, MirroredIsInForce, Read, seller
<1> QED BY <1>4, <1>5, <1>6, <1>7, <1>8

\* The consumer hangs up: nothing it reads later is of this attempt.
LEMMA HangUpKeeps ==
    ASSUME IInv, NEW s \in Session, NEW w \in {"closing"} \cup Over,
           HangsUp(s), stage' = [stage EXCEPT ![s] = w],
           committed' \in [Session -> BOOLEAN],
           \A u \in Session : committed'[u] => <<u, at[u]>> \in inForce,
           mirrored' \subseteq inForce, UNCHANGED <<at, work, inForce>>
    PROVE  IInv'
<1> USE DEF IInv
<1>1. Shape'
  <2>1. <<>> \in Seq(Frame) OBVIOUS
  <2>2. pipe' \in [Session -> Seq(Frame)] BY <2>1 DEF Shape, HangsUp
  <2>3. stage' \in [Session -> {"idle", "reading", "closing"} \cup Over] BY DEF Shape, Over
  <2> QED BY <2>2, <2>3 DEF Shape
<1>2. Emptied' BY DEF Emptied, HangsUp, Shape, Over, Left
<1>3. Receipted'
  <2> SUFFICES ASSUME NEW u \in Session, NEW i \in 1..Len(pipe'[u]), pipe'[u][i] \in Receipts
               PROVE  <<u, at[u]>> \in inForce
    BY DEF Receipted
  <2>1. u # s BY DEF HangsUp, Shape
  <2> QED BY <2>1 DEF Receipted, HangsUp, Shape
<1>4. Noted' BY DEF Noted
<1>5. Applied' /\ MirroredIsInForce' BY DEF Applied, MirroredIsInForce
<1> QED BY <1>1, <1>2, <1>3, <1>4, <1>5

-----------------------------------------------------------------------------
\* Every step of the consumer, the connection and the providers keeps it.
LEMMA NextKeeps == ASSUME IInv, Next PROVE IInv'
<1> USE DEF IInv
<1>1. ASSUME NEW s \in Session, Open(s) PROVE IInv'
  <2>1. mirrored' \subseteq inForce BY <1>1 DEF Open, books, MirroredIsInForce
  <2> QED BY <1>1, <2>1, TryKeeps DEF Open, books
<1>2. ASSUME NEW s \in Session, Read(s) PROVE IInv' BY <1>2, ReadKeeps
<1>3. ASSUME NEW s \in Session, Complete(s) PROVE IInv'
  <2>1. pipe[s] \in Seq(Frame) /\ pipe[s] # <<>> /\ Head(pipe[s]) = pipe[s][1] /\ 1 \in 1..Len(pipe[s])
    <3>1. pipe[s] \in Seq(Frame) /\ pipe[s] # <<>> BY <1>3 DEF Complete, Shape
    <3> QED BY <3>1, FirstFrame
  <2>2. <<s, at[s]>> \in inForce BY <1>3, <2>1 DEF Complete, Receipted, Receipts
  <2>3. mirrored' \subseteq inForce BY <1>3, <2>2 DEF Complete, Current, MirroredIsInForce
  <2>4. /\ committed' \in [Session -> BOOLEAN]
        /\ \A u \in Session : committed'[u] => <<u, at[u]>> \in inForce
    BY <1>3 DEF Complete, Leave, Shape, Noted
  <2> QED BY <1>3, <2>3, <2>4, HangUpKeeps DEF Complete, Leave, seller, Over
<1>4. ASSUME NEW s \in Session, GiveUp(s) PROVE IInv'
  <2>1. pipe[s] \in Seq(Frame) /\ pipe[s] # <<>> /\ Head(pipe[s]) = pipe[s][1] /\ 1 \in 1..Len(pipe[s])
    <3>1. pipe[s] \in Seq(Frame) /\ pipe[s] # <<>> BY <1>4 DEF GiveUp, Shape
    <3> QED BY <3>1, FirstFrame
  <2>2. Tells(Head(pipe[s])) => <<s, at[s]>> \in inForce BY <2>1 DEF Receipted, Tells
  <2>3. committed' = [committed EXCEPT ![s] = @ \/ Tells(Head(pipe[s]))] BY <1>4 DEF GiveUp
  <2>4. committed' \in [Session -> BOOLEAN] BY <2>3 DEF Shape, Tells
  <2>5. \A u \in Session : committed'[u] => <<u, at[u]>> \in inForce
    <3> SUFFICES ASSUME NEW u \in Session, committed'[u] PROVE <<u, at[u]>> \in inForce
      OBVIOUS
    <3>1. CASE u # s BY <2>3, <3>1 DEF Noted, Shape
    <3>2. CASE u = s BY <2>2, <2>3, <3>2 DEF Noted, Shape
    <3> QED BY <3>1, <3>2
  <2>6. mirrored' \subseteq inForce BY <1>4 DEF GiveUp, MirroredIsInForce
  <2> QED BY <1>4, <2>4, <2>5, <2>6, HangUpKeeps DEF GiveUp, seller
<1>5. ASSUME NEW s \in Session, Stall(s) PROVE IInv'
  <2>1. committed' \in [Session -> BOOLEAN] BY <1>5 DEF Stall, Shape
  <2>2. \A u \in Session : committed'[u] => <<u, at[u]>> \in inForce BY <1>5 DEF Stall, Noted
  <2>3. mirrored' \subseteq inForce BY <1>5 DEF Stall, books, MirroredIsInForce
  <2> QED BY <1>5, <2>1, <2>2, <2>3, HangUpKeeps DEF Stall, seller, books
<1>6. ASSUME NEW s \in Session, Settle(s) PROVE IInv'
  <2>1. mirrored' \subseteq inForce
    BY <1>6 DEF Settle, Mirrored, Current, Noted, MirroredIsInForce
  <2>2. CASE streamed[s]
    <3>1. HangsUp(s) \/ pipe[s] = <<>> BY <1>6 DEF Settle, Emptied
    <3>2. stage' = [stage EXCEPT ![s] = "failed"] /\ committed' = [committed EXCEPT ![s] = FALSE]
          /\ UNCHANGED <<at, work, pipe, inForce>>
      BY <1>6, <2>2 DEF Settle, Leave
    <3>3. Shape' BY <3>2 DEF Shape, Over
    <3>4. Emptied' BY <1>6, <3>2 DEF Emptied, Settle, Shape
    <3>5. Receipted' /\ Applied' BY <3>2 DEF Receipted, Applied
    <3>6. Noted' BY <3>2 DEF Noted, Shape
    <3> QED BY <2>1, <3>2, <3>3, <3>4, <3>5, <3>6 DEF MirroredIsInForce
  <2>3. CASE ~streamed[s]
    <3>1. Try(s, at[s] + 1, mirrored') BY <1>6, <2>3 DEF Settle
    <3>2. at[s] + 1 \in Nat BY DEF Shape
    <3> QED BY <1>6, <2>1, <3>1, <3>2, TryKeeps DEF Settle
  <2> QED BY <2>2, <2>3
<1>7. ASSUME NEW s \in Session, Cancel(s) \/ Crash(s) PROVE IInv'
  <2>0. PICK w \in Left : Abandon(s, w) BY <1>7 DEF Cancel, Crash, Left
  <2>1. mirrored' \subseteq inForce BY <2>0 DEF Abandon, books, MirroredIsInForce
  <2>2. /\ committed' \in [Session -> BOOLEAN]
        /\ \A u \in Session : committed'[u] => <<u, at[u]>> \in inForce
    BY <2>0 DEF Abandon, Leave, Shape, Noted
  <2>3. w \in {"closing"} \cup Over BY DEF Over
  <2> QED BY <2>0, <2>1, <2>2, <2>3, HangUpKeeps DEF Abandon, Leave, seller, books
<1>8. ASSUME NEW s \in Session, Cut(s) PROVE IInv'
  BY <1>8, WireKeeps DEF Cut, caller, seller, books
<1>9. ASSUME NEW s \in Session, RelayFails(s) PROVE IInv'
  BY <1>9, WireKeeps DEF RelayFails, caller, seller, books
<1>10. ASSUME NEW a \in Attempt, Gossip(a) PROVE IInv'
  BY <1>10 DEF Gossip, caller, wire, seller, Shape, Emptied, Applied, Receipted, Noted,
     MirroredIsInForce
<1>11. ASSUME NEW s \in Session, NEW k \in DOMAIN Ranking[s], Witness(s, k) PROVE IInv'
  BY <1>11 DEF Witness, caller, wire, seller, Shape, Emptied, Applied, Receipted, Noted,
     MirroredIsInForce
<1>12. ASSUME NEW s \in Session, NEW k \in DOMAIN Ranking[s],
              Serve(s, k) \/ Warm(s, k) \/ Talk(s, k)
       PROVE  IInv'
  <2> USE DEF caller, books, wire, Steps, Frame, Receipts
  <2>1. CASE Refuse(s, k)
    <3>1. Emit(s, k, "refused") /\ "refused" \in Frame \ Receipts BY <2>1 DEF Refuse
    <3>2. Reach(s, k, "over") /\ "over" \in Steps BY <2>1 DEF Refuse
    <3>3. UNCHANGED <<stage, at, committed, mirrored, inForce>> BY <2>1 DEF Refuse
    <3> QED BY <3>1, <3>2, <3>3, ServeKeeps
  <2>2. CASE Commit(s, k) BY <2>2, ServeKeeps DEF Commit
  <2>3. CASE Begin(s, k) BY <2>3, ServeKeeps DEF Begin, Applied
  <2>4. CASE Finish(s, k) BY <2>4, ServeKeeps DEF Finish, Applied
  <2>5. CASE HangUp(s, k) BY <2>5, ServeKeeps DEF HangUp
  <2>8. CASE Block(s, k) BY <2>8, ServeKeeps DEF Block, Applied
  <2>6. CASE Warm(s, k)
    <3>1. Reach(s, k, work[s][k]) /\ work[s][k] \in Steps
      BY <2>6 DEF Warm, Reach, seller, Shape
    <3> QED BY <2>6, <3>1, ServeKeeps DEF Warm, seller, Applied
  <2>7. CASE Talk(s, k) BY <2>7, ServeKeeps DEF Talk, Applied
  <2> QED BY <1>12, <2>1, <2>2, <2>3, <2>4, <2>5, <2>6, <2>7, <2>8 DEF Serve
<1>13. \A a \in Attempt : a[1] \in Session /\ a[2] \in DOMAIN Ranking[a[1]] BY DEF Attempt
<1> QED BY <1>1, <1>2, <1>3, <1>4, <1>5, <1>6, <1>7, <1>8, <1>9, <1>10, <1>11, <1>12, <1>13
        DEF Next, Consume

-----------------------------------------------------------------------------
\* The path of a payment from the provider to the consumer's books holds
\* together in every reachable state.
THEOREM StreamInvariance == Spec => []IInv
<1>1. IInv /\ UNCHANGED vars => IInv'
  BY DEF vars, caller, wire, seller, books, IInv, Shape, Emptied, Applied, Receipted, Noted,
     MirroredIsInForce
<1> QED BY <1>1, InitIInv, NextKeeps, PTL DEF Spec

\* The consumer never charges itself for a payment that nobody applied,
\* whatever is lost, late, refused or cancelled and however often it fails over.
THEOREM OnlyPaymentsInForceAreMirrored == Spec => []MirroredIsInForce
BY StreamInvariance, PTL DEF IInv

-----------------------------------------------------------------------------
\* Sums of payments.

LEMMA AttemptsFinite == IsFiniteSet(Attempt)
<1> DEFINE D(s) == {<<s, k>> : k \in DOMAIN Ranking[s]}
           All == {D(s) : s \in Session}
           f == [s \in Session |-> D(s)]
<1>1. ASSUME NEW s \in Session PROVE IsFiniteSet(D(s))
  <2>1. Ranking[s] \in Seq(Provider) BY StreamAssumption
  <2>2. PICK n \in Nat : n = Len(Ranking[s]) BY <2>1
  <2>3. PICK one \in Int : one = 1 OBVIOUS
  <2>4. IsFiniteSet(one..n) BY <2>2, FS_Interval
  <2>5. DOMAIN Ranking[s] = 1..n BY <2>1, <2>2
  <2>6. IsFiniteSet(DOMAIN Ranking[s]) BY <2>3, <2>4, <2>5
  <2> DEFINE g == [k \in DOMAIN Ranking[s] |-> <<s, k>>]
  <2>7. g \in Surjection(DOMAIN Ranking[s], D(s)) BY DEF Surjection
  <2> HIDE DEF g, D
  <2> QED BY <2>6, <2>7, FS_Surjection
<1>2. f \in Surjection(Session, All) BY DEF Surjection
<1>3. IsFiniteSet(All)
  <2> HIDE DEF f, All
  <2> QED BY <1>2, StreamAssumption, FS_Surjection
<1>4. \A T \in All : IsFiniteSet(T) BY <1>1
<1>5. IsFiniteSet(UNION All)
  <2> HIDE DEF All
  <2> QED BY <1>3, <1>4, FS_UNION
<1> QED BY <1>5 DEF Attempt

LEMMA PricesTyped ==
    \A a \in Attempt : Price[Seller(a)] \in Nat
BY StreamAssumption DEF Provider

LEMMA OneWorth ==
    ASSUME NEW a \in Attempt
    PROVE  /\ IsFiniteSet({a} \X (1..Price[Seller(a)]))
           /\ Cardinality({a} \X (1..Price[Seller(a)])) = Price[Seller(a)]
<1>1. PICK n \in Nat : n = Price[Seller(a)] BY PricesTyped
<1>2. PICK one \in Int : one = 1 OBVIOUS
<1>3. IsFiniteSet(one..n) /\ Cardinality(one..n) = IF one > n THEN 0 ELSE n - one + 1
  BY FS_Interval
<1>4. IsFiniteSet(1..n) /\ Cardinality(1..n) = n BY <1>2, <1>3
<1>5. IsFiniteSet({a}) /\ Cardinality({a}) = 1 BY FS_Singleton
<1>6. /\ IsFiniteSet({a} \X (1..n))
      /\ Cardinality({a} \X (1..n)) = Cardinality({a}) * Cardinality(1..n)
  BY <1>4, <1>5, FS_Product
<1> QED BY <1>1, <1>4, <1>5, <1>6

LEMMA TotalOf ==
    ASSUME NEW A \in SUBSET Attempt
    PROVE  IsFiniteSet(Credits(A)) /\ Total(A) \in Nat
<1> DEFINE D(a) == {a} \X (1..Price[Seller(a)])
           All == {D(a) : a \in A}
           f == [a \in A |-> D(a)]
<1>1. IsFiniteSet(A) BY AttemptsFinite, FS_Subset
<1>2. f \in Surjection(A, All) BY DEF Surjection
<1>3. IsFiniteSet(All)
  <2> HIDE DEF f, All
  <2> QED BY <1>1, <1>2, FS_Surjection
<1>4. \A T \in All : IsFiniteSet(T) BY OneWorth
<1>5. IsFiniteSet(UNION All)
  <2> HIDE DEF All
  <2> QED BY <1>3, <1>4, FS_UNION
<1>6. IsFiniteSet(Credits(A)) BY <1>5 DEF Credits
<1> QED BY <1>6, FS_CardinalityType DEF Total

LEMMA TotalMonotone ==
    ASSUME NEW A \in SUBSET Attempt, NEW B \in SUBSET A
    PROVE  Total(B) <= Total(A) /\ Total(B) \in Nat /\ Total(A) \in Nat
<1>1. Credits(B) \in SUBSET Credits(A) BY DEF Credits
<1>2. IsFiniteSet(Credits(A)) /\ Total(A) \in Nat BY TotalOf
<1>3. Total(B) \in Nat
  <2>1. B \in SUBSET Attempt OBVIOUS
  <2> QED BY <2>1, TotalOf
<1> QED BY <1>1, <1>2, <1>3, FS_Subset DEF Total

\* One payment more adds its price at most.
LEMMA TotalAdd ==
    ASSUME NEW A \in SUBSET Attempt, NEW a \in Attempt
    PROVE  Total(A \cup {a}) <= Total(A) + Price[Seller(a)]
<1> DEFINE new == {a} \X (1..Price[Seller(a)])
<1>1. IsFiniteSet(new) /\ Cardinality(new) = Price[Seller(a)] BY OneWorth
<1>2. Credits(A \cup {a}) = Credits(A) \cup new BY DEF Credits
<1> HIDE DEF new
<1>3. IsFiniteSet(Credits(A)) /\ Total(A) \in Nat BY TotalOf
<1>4. Cardinality(Credits(A) \cup new)
        = Cardinality(Credits(A)) + Cardinality(new) - Cardinality(Credits(A) \cap new)
  BY <1>1, <1>3, FS_Union
<1>5. Cardinality(Credits(A) \cap new) \in Nat
  BY <1>3, FS_Intersection, FS_CardinalityType
<1>6. Price[Seller(a)] \in Nat BY PricesTyped
<1>7. Cardinality(Credits(A) \cup new) <= Total(A) + Price[Seller(a)]
  BY <1>1, <1>3, <1>4, <1>5, <1>6 DEF Total
<1>8. Total(A \cup {a}) = Cardinality(Credits(A) \cup new) BY <1>2 DEF Total
<1> QED BY <1>7, <1>8

-----------------------------------------------------------------------------
\* What an owner was told it has paid.

\* What it did not walk away from.
Standing == reported \ Abandoned

\* Who does not run several streams at a time runs one.
Alone ==
    \A s, t \in Session :
        Active(s) /\ Active(t) /\ Owner[s] = Owner[t] /\ Owner[s] \notin Parallel => s = t

\* A stream goes through the ranking from its head.
InTurn ==
    \A s \in Session : /\ stage[s] = "idle" => at[s] = 0
                       /\ Active(s) => at[s] \in DOMAIN Ranking[s]

\* Nothing was reported of an attempt before it was made, and what is reported
\* of the one that runs has been noted.
Heeded ==
    /\ \A a \in reported : a[2] <= at[a[1]]
    /\ \A s \in Session : Active(s) /\ Current(s) \in reported => committed[s]

\* What was reported is mirrored, or is about to be, or was cancelled as it ran.
Booked ==
    \A a \in reported :
        a \in mirrored \/ (a = Current(a[1]) /\ (Active(a[1]) \/ stage[a[1]] \in Left))

\* The attempt that runs can be paid on top of everything that was reported.
Funded ==
    \A s \in Session : Active(s) /\ Owner[s] \notin Parallel =>
        Total(Of(Owner[s], Standing \cup {Current(s)})) <= StartBalance

Known == reported \subseteq Attempt /\ mirrored \subseteq Attempt

\* The inductive invariant of the balance; it stands beside IInv.
Paid == Known /\ Alone /\ InTurn /\ Heeded /\ Booked /\ Funded /\ WithinBalance

LEMMA InitPaid == Init => Paid
<1> SUFFICES ASSUME Init PROVE Paid OBVIOUS
<1>1. Known /\ Alone /\ InTurn /\ Heeded /\ Booked /\ Funded
  BY DEF Init, Known, Alone, InTurn, Heeded, Booked, Funded, Active
<1>2. WithinBalance
  <2>1. reported = {} BY DEF Init
  <2>2. \A o : Of(o, reported \ Abandoned) = {} BY <2>1 DEF Of
  <2>3. Total({}) = 0
    <3>1. Credits({}) = {} BY DEF Credits
    <3> QED BY <3>1, FS_EmptySet DEF Total
  <2>4. StartBalance \in Nat BY StreamAssumption
  <2> QED BY <2>2, <2>3, <2>4 DEF WithinBalance
<1> QED BY <1>1, <1>2 DEF Paid

LEMMA CurrentTyped ==
    ASSUME InTurn, NEW s \in Session, Active(s)
    PROVE  Current(s) \in Attempt
BY DEF InTurn, Attempt, Current

\* What was walked away from stays so.
LEMMA AbandonedGrows ==
    ASSUME \A u \in Session :
              stage[u] \in Left => stage'[u] \in Left /\ at'[u] = at[u]
    PROVE  Abandoned \subseteq Abandoned'
BY DEF Abandoned, Current

\* A report adds the attempt that runs, which was funded before.
LEMMA ReportCovered ==
    ASSUME Paid, NEW s \in Session,
           reported' = reported \/ (Active(s) /\ reported' = reported \cup {Current(s)}),
           Abandoned \subseteq Abandoned'
    PROVE  /\ WithinBalance' /\ reported' \subseteq Attempt
           /\ \A u \in Session : Active(u) /\ Owner[u] \notin Parallel =>
                Total(Of(Owner[u], Standing' \cup {Current(u)})) <= StartBalance
<1> USE DEF Paid
<1>0. Standing \subseteq Attempt BY DEF Known, Standing
<1>1. ASSUME NEW A \in SUBSET Attempt, NEW B \in SUBSET A, NEW o
      PROVE  /\ Total(Of(o, B)) <= Total(Of(o, A))
             /\ Total(Of(o, B)) \in Nat /\ Total(Of(o, A)) \in Nat
  <2>1. Of(o, A) \in SUBSET Attempt /\ Of(o, B) \in SUBSET Of(o, A) BY DEF Of
  <2> QED BY <2>1, TotalMonotone
<1>2. StartBalance \in Nat BY StreamAssumption
<1>3. CASE reported' = reported
  <2>1. Standing' \in SUBSET Standing BY <1>3 DEF Standing
  <2>2. WithinBalance'
    <3> SUFFICES ASSUME NEW o \in Asker \ Parallel PROVE Total(Of(o, Standing')) <= StartBalance
      BY DEF WithinBalance, Standing
    <3>1. Total(Of(o, Standing)) <= StartBalance BY DEF WithinBalance, Standing
    <3>2. /\ Total(Of(o, Standing')) <= Total(Of(o, Standing))
          /\ Total(Of(o, Standing')) \in Nat /\ Total(Of(o, Standing)) \in Nat
      BY <1>0, <1>1, <2>1
    <3> QED BY <1>2, <3>1, <3>2
  <2>3. ASSUME NEW u \in Session, Active(u), Owner[u] \notin Parallel
        PROVE  Total(Of(Owner[u], Standing' \cup {Current(u)})) <= StartBalance
    <3> DEFINE A == Standing \cup {Current(u)}
               B == Standing' \cup {Current(u)}
    <3>1. A \in SUBSET Attempt /\ B \in SUBSET A BY <1>0, <2>1, <2>3, CurrentTyped
    <3>2. Total(Of(Owner[u], A)) <= StartBalance BY <2>3 DEF Funded
    <3> HIDE DEF A, B
    <3>3. /\ Total(Of(Owner[u], B)) <= Total(Of(Owner[u], A))
          /\ Total(Of(Owner[u], B)) \in Nat /\ Total(Of(Owner[u], A)) \in Nat
      BY <1>1, <3>1
    <3>4. Total(Of(Owner[u], B)) <= StartBalance BY <1>2, <3>2, <3>3
    <3> QED BY <3>4 DEF B
  <2> QED BY <1>3, <2>2, <2>3 DEF Known
<1>4. CASE Active(s) /\ reported' = reported \cup {Current(s)}
  <2>1. Current(s) \in Attempt BY <1>4, CurrentTyped
  <2>2. reported' \in SUBSET Attempt BY <1>4, <2>1 DEF Known
  <2>3. Standing' \in SUBSET (Standing \cup {Current(s)}) BY <1>4 DEF Standing
  <2>4. WithinBalance'
    <3> SUFFICES ASSUME NEW o \in Asker \ Parallel PROVE Total(Of(o, Standing')) <= StartBalance
      BY DEF WithinBalance, Standing
    <3>1. Of(o, Standing') \in SUBSET Attempt BY <2>1, <1>0, <2>3 DEF Of
    <3>2. CASE o # Owner[s]
      <4>1. Of(o, Standing') \in SUBSET Of(o, Standing)
        BY <2>3, <3>2 DEF Of, Current
      <4>2. Of(o, Standing) \in SUBSET Attempt BY <1>0 DEF Of
      <4>3. /\ Total(Of(o, Standing')) <= Total(Of(o, Standing))
            /\ Total(Of(o, Standing')) \in Nat /\ Total(Of(o, Standing)) \in Nat
        BY <4>1, <4>2, TotalMonotone
      <4>4. Total(Of(o, Standing)) <= StartBalance BY DEF WithinBalance, Standing
      <4> QED BY <1>2, <4>3, <4>4
    <3>3. CASE o = Owner[s]
      <4> DEFINE A == Standing \cup {Current(s)}
      <4>1. A \in SUBSET Attempt /\ Standing' \in SUBSET A BY <1>0, <2>1, <2>3
      <4>2. Total(Of(o, A)) <= StartBalance BY <1>4, <3>3 DEF Funded
      <4> HIDE DEF A
      <4>3. /\ Total(Of(o, Standing')) <= Total(Of(o, A))
            /\ Total(Of(o, Standing')) \in Nat /\ Total(Of(o, A)) \in Nat
        BY <1>1, <4>1
      <4> QED BY <1>2, <4>2, <4>3
    <3> QED BY <3>2, <3>3
  <2>5. ASSUME NEW u \in Session, Active(u), Owner[u] \notin Parallel
        PROVE  Total(Of(Owner[u], Standing' \cup {Current(u)})) <= StartBalance
    <3> DEFINE A == Of(Owner[u], Standing \cup {Current(u)})
               B == Of(Owner[u], Standing' \cup {Current(u)})
    <3>1. A \in SUBSET Attempt BY <1>0, <2>5, CurrentTyped DEF Of
    <3>2. B \in SUBSET A
      <4>1. CASE Owner[u] = Owner[s]
        <5>1. u = s BY <1>4, <2>5, <4>1 DEF Alone
        <5> QED BY <2>3, <5>1 DEF Of
      <4>2. CASE Owner[u] # Owner[s] BY <2>3, <4>2 DEF Of, Current
      <4> QED BY <4>1, <4>2
    <3>3. Total(A) <= StartBalance BY <2>5 DEF Funded
    <3> HIDE DEF A, B
    <3>4. Total(B) <= Total(A) /\ Total(B) \in Nat /\ Total(A) \in Nat
      BY <3>1, <3>2, TotalMonotone
    <3>5. Total(B) <= StartBalance BY <1>2, <3>3, <3>4
    <3> QED BY <3>5 DEF B
  <2> QED BY <2>2, <2>4, <2>5
<1> QED BY <1>3, <1>4

\* The stream goes on with its attempt; what is reported of it is noted.
LEMMA GoesOn ==
    ASSUME Paid, Shape, NEW s \in Session, Active(s), NEW w \in {"reading", "closing"},
           NEW noted \in BOOLEAN, committed[s] => noted,
           stage' = [stage EXCEPT ![s] = w], committed' = [committed EXCEPT ![s] = noted],
           reported' = reported \/ (noted /\ reported' = reported \cup {Current(s)}),
           UNCHANGED <<at, mirrored>>
    PROVE  Paid'
<1> USE DEF Paid
<1>1. \A u \in Session : /\ Active(u)' = Active(u)
                         /\ stage'[u] = "idle" => stage[u] = "idle"
                         /\ stage[u] \in Left => stage'[u] \in Left
                         /\ Current(u)' = Current(u)
                         /\ committed[u] => committed'[u]
  BY DEF Shape, Active, Current, Left
<1>2. Abandoned \subseteq Abandoned' BY <1>1, AbandonedGrows
<1>3. /\ WithinBalance' /\ reported' \subseteq Attempt
      /\ \A u \in Session : Active(u) /\ Owner[u] \notin Parallel =>
           Total(Of(Owner[u], Standing' \cup {Current(u)})) <= StartBalance
  BY <1>2, ReportCovered
<1>4. Known' BY <1>3 DEF Known
<1>5. Alone' /\ InTurn' BY <1>1 DEF Alone, InTurn
<1>6. Current(s) \in Attempt /\ Current(s)[1] = s /\ Current(s)[2] = at[s] /\ at[s] \in Nat
  BY CurrentTyped DEF Current, Shape
<1>7. Heeded'
  <2>1. \A a \in reported' : a[2] <= at[a[1]] BY <1>6 DEF Heeded
  <2>2. ASSUME NEW u \in Session, Active(u), Current(u) \in reported' PROVE committed'[u]
    <3>1. CASE Current(u) \in reported BY <1>1, <2>2, <3>1 DEF Heeded
    <3>2. CASE Current(u) = Current(s) /\ noted BY <3>2 DEF Current, Shape
    <3> QED BY <2>2, <3>1, <3>2
  <2> QED BY <1>1, <2>1, <2>2 DEF Heeded
<1>8. Booked'
  <2> SUFFICES ASSUME NEW a \in reported'
               PROVE  \/ a \in mirrored
                      \/ /\ a = Current(a[1])'
                         /\ Active(a[1])' \/ stage'[a[1]] \in Left
    BY DEF Booked
  <2>1. a[1] \in Session BY <1>3 DEF Attempt
  <2>2. CASE a \in reported BY <1>1, <2>1, <2>2 DEF Booked
  <2>3. CASE a = Current(s) BY <1>1, <1>6, <2>3
  <2> QED BY <2>2, <2>3
<1>9. Funded' BY <1>1, <1>3 DEF Funded
<1> QED BY <1>3, <1>4, <1>5, <1>7, <1>8, <1>9

\* The stream is over, and what was reported of it is mirrored unless it was
\* cancelled.
LEMMA Ends ==
    ASSUME Paid, Shape, NEW s \in Session, stage[s] \in {"idle", "reading", "closing"},
           NEW w \in Over,
           stage' = [stage EXCEPT ![s] = w], committed' = [committed EXCEPT ![s] = FALSE],
           reported' = reported \/ (Active(s) /\ reported' = reported \cup {Current(s)}),
           mirrored \subseteq mirrored', mirrored' \subseteq Attempt,
           w \in Left \/ \A a \in reported' : a[1] = s => a \in mirrored',
           UNCHANGED at
    PROVE  Paid'
<1> USE DEF Paid
<1>1. /\ ~Active(s)' /\ stage'[s] = w /\ w # "idle" /\ stage[s] \notin Left
      /\ \A u \in Session : u # s => /\ stage'[u] = stage[u] /\ Active(u)' = Active(u)
                                     /\ committed'[u] = committed[u]
      /\ \A u \in Session : Current(u)' = Current(u)
  <2>1. w \notin {"idle", "reading", "closing"} /\ stage[s] \notin Left BY DEF Over, Left
  <2> QED BY <2>1 DEF Shape, Active, Current
<1>2. Abandoned \subseteq Abandoned' BY <1>1, AbandonedGrows
<1>3. /\ WithinBalance' /\ reported' \subseteq Attempt
      /\ \A u \in Session : Active(u) /\ Owner[u] \notin Parallel =>
           Total(Of(Owner[u], Standing' \cup {Current(u)})) <= StartBalance
  BY <1>2, ReportCovered
<1>4. Known' BY <1>3 DEF Known
<1>5. Alone' /\ InTurn' BY <1>1 DEF Alone, InTurn
<1>6. Heeded'
  <2>1. \A a \in reported' : a[2] <= at[a[1]]
    <3> SUFFICES ASSUME NEW a \in reported', a = Current(s) PROVE a[2] <= at[a[1]]
      BY DEF Heeded
    <3> QED BY DEF Current, Shape
  <2>2. ASSUME NEW u \in Session, Active(u)', Current(u) \in reported' PROVE committed'[u]
    <3>1. u # s BY <1>1, <2>2
    <3>2. Current(u) \in reported BY <2>2, <3>1 DEF Current
    <3> QED BY <1>1, <2>2, <3>1, <3>2 DEF Heeded
  <2> QED BY <1>1, <2>1, <2>2 DEF Heeded
<1>7. Booked'
  <2> SUFFICES ASSUME NEW a \in reported'
               PROVE  \/ a \in mirrored'
                      \/ /\ a = Current(a[1])'
                         /\ Active(a[1])' \/ stage'[a[1]] \in Left
    BY DEF Booked
  <2>1. a[1] \in Session BY <1>3 DEF Attempt
  <2>2. CASE a[1] = s
    <3>1. CASE w \in Left
      <4>1. a = Current(s) \/ a \in mirrored BY <2>2 DEF Booked
      <4> QED BY <1>1, <2>2, <3>1, <4>1
    <3>2. CASE w \notin Left BY <2>2, <3>2
    <3> QED BY <3>1, <3>2
  <2>3. CASE a[1] # s
    <3>1. a \in reported BY <2>3 DEF Current
    <3> QED BY <1>1, <2>1, <2>3, <3>1 DEF Booked
  <2> QED BY <2>2, <2>3
<1>8. Funded' BY <1>1, <1>3 DEF Funded
<1> QED BY <1>3, <1>4, <1>5, <1>6, <1>7, <1>8

\* The next provider is hired: what the owner has mirrored by now holds
\* everything that was reported to it.
LEMMA Hires ==
    ASSUME Paid, Shape, NEW s \in Session, stage[s] \in {"idle", "closing"},
           NEW k \in DOMAIN Ranking[s], k = at[s] + 1,
           stage' = [stage EXCEPT ![s] = "reading"], at' = [at EXCEPT ![s] = k],
           committed' = [committed EXCEPT ![s] = FALSE], UNCHANGED reported,
           mirrored \subseteq mirrored', mirrored' \subseteq Attempt,
           \A a \in reported : a[1] = s => a \in mirrored',
           \A t \in Session : Active(t) /\ t # s /\ Owner[t] = Owner[s] => Owner[s] \in Parallel,
           Balance(Owner[s], mirrored') >= Price[Seller(<<s, k>>)]
    PROVE  Paid'
<1> USE DEF Paid
<1>1. /\ Active(s)' /\ stage'[s] = "reading" /\ at'[s] = k /\ Current(s)' = <<s, k>>
      /\ \A u \in Session : u # s => /\ stage'[u] = stage[u] /\ Active(u)' = Active(u)
                                     /\ committed'[u] = committed[u]
                                     /\ at'[u] = at[u] /\ Current(u)' = Current(u)
      /\ stage[s] \notin Left
  BY DEF Shape, Active, Current, Left
<1>2. Abandoned \subseteq Abandoned' BY <1>1, AbandonedGrows
<1>3. at[s] \in Nat /\ k \in Nat BY DEF Shape
<1>4. /\ WithinBalance' /\ reported' \subseteq Attempt
      /\ \A u \in Session : Active(u) /\ Owner[u] \notin Parallel =>
           Total(Of(Owner[u], Standing' \cup {Current(u)})) <= StartBalance
  BY <1>2, ReportCovered
<1>5. Known' BY <1>4 DEF Known
<1>6. Alone'
  <2> SUFFICES ASSUME NEW u \in Session, NEW t \in Session, Active(u)', Active(t)',
                      Owner[u] = Owner[t], Owner[u] \notin Parallel
               PROVE  u = t
    BY DEF Alone
  <2>1. CASE u # s /\ t # s BY <1>1, <2>1 DEF Alone
  <2>2. CASE u = s BY <1>1, <2>2
  <2>3. CASE t = s BY <1>1, <2>3
  <2> QED BY <2>1, <2>2, <2>3
<1>7. InTurn' BY <1>1 DEF InTurn
<1>8. <<s, k>> \notin reported
  <2> SUFFICES ASSUME <<s, k>> \in reported PROVE FALSE OBVIOUS
  <2>1. k <= at[s] BY DEF Heeded
  <2> QED BY <1>3, <2>1
<1>9. Heeded'
  <2>1. ASSUME NEW a \in reported PROVE a[2] <= at'[a[1]]
    <3>1. a[1] \in Session /\ a[2] \in Nat /\ a[2] <= at[a[1]]
      <4>0. PICK u \in Session : \E j \in DOMAIN Ranking[u] : a = <<u, j>>
        BY DEF Known, Attempt
      <4>1. PICK j \in DOMAIN Ranking[u] : a = <<u, j>> BY <4>0
      <4>2. Ranking[u] \in Seq(Provider) BY StreamAssumption
      <4>3. j \in Nat BY <4>2
      <4> QED BY <4>1, <4>3 DEF Heeded
    <3>2. CASE a[1] = s BY <1>1, <1>3, <3>1, <3>2
    <3>3. CASE a[1] # s BY <1>1, <3>1, <3>3
    <3> QED BY <3>2, <3>3
  <2>2. ASSUME NEW u \in Session, Active(u)', Current(u)' \in reported PROVE committed'[u]
    <3>1. u # s BY <1>1, <1>8, <2>2
    <3> QED BY <1>1, <2>2, <3>1 DEF Heeded
  <2> QED BY <2>1, <2>2 DEF Heeded
<1>10. Booked'
  <2> SUFFICES ASSUME NEW a \in reported
               PROVE  \/ a \in mirrored'
                      \/ /\ a = Current(a[1])'
                         /\ Active(a[1])' \/ stage'[a[1]] \in Left
    BY DEF Booked
  <2>1. a[1] \in Session BY DEF Known, Attempt
  <2>2. CASE a[1] = s BY <2>2
  <2>3. CASE a[1] # s BY <1>1, <2>1, <2>3 DEF Booked
  <2> QED BY <2>2, <2>3
<1>11. ASSUME Owner[s] \notin Parallel
       PROVE  Total(Of(Owner[s], Standing' \cup {<<s, k>>})) <= StartBalance
  <2> DEFINE o == Owner[s]
             M == Of(o, mirrored')
             new == <<s, k>>
  <2>1. new \in Attempt BY DEF Attempt
  <2>2. M \in SUBSET Attempt BY DEF Of
  <2>3. Of(o, Standing' \cup {new}) \in SUBSET (M \cup {new})
    <3> SUFFICES ASSUME NEW a \in Standing', Owner[a[1]] = o PROVE a \in mirrored'
      BY DEF Of
    <3>1. a \in reported /\ a \notin Abandoned BY <1>2 DEF Standing
    <3>2. a[1] \in Session BY <3>1 DEF Known, Attempt
    <3>3. CASE a \in mirrored BY <3>3
    <3>4. CASE Active(a[1]) /\ a = Current(a[1])
      <4>1. a[1] = s BY <1>11, <3>2, <3>4
      <4> QED BY <3>1, <4>1
    <3>5. ~(a = Current(a[1]) /\ stage[a[1]] \in Left)
      BY <3>1, <3>2 DEF Abandoned
    <3> QED BY <3>1, <3>3, <3>4, <3>5 DEF Booked
  <2>4. StartBalance - Total(M) >= Price[Seller(new)] BY DEF Balance
  <2> HIDE DEF M, new
  <2>5. M \cup {new} \in SUBSET Attempt BY <2>1, <2>2
  <2>6. Total(M \cup {new}) <= Total(M) + Price[Seller(new)] BY <2>1, <2>2, TotalAdd
  <2>7. /\ Total(Of(o, Standing' \cup {new})) <= Total(M \cup {new})
        /\ Total(Of(o, Standing' \cup {new})) \in Nat /\ Total(M \cup {new}) \in Nat
    <3> HIDE DEF o
    <3> QED BY <2>3, <2>5, TotalMonotone
  <2>8. Total(M) \in Nat /\ Price[Seller(new)] \in Nat /\ StartBalance \in Nat
    BY <2>1, <2>2, TotalOf, PricesTyped, StreamAssumption
  <2>9. Total(Of(o, Standing' \cup {new})) <= StartBalance BY <2>4, <2>6, <2>7, <2>8
  <2> QED BY <2>9 DEF new
<1>12. Funded'
  <2> SUFFICES ASSUME NEW u \in Session, Active(u)', Owner[u] \notin Parallel
               PROVE  Total(Of(Owner[u], Standing' \cup {Current(u)'})) <= StartBalance
    BY DEF Funded
  <2>1. CASE u = s BY <1>1, <1>11, <2>1
  <2>2. CASE u # s BY <1>1, <1>4, <2>2
  <2> QED BY <2>1, <2>2
<1> QED BY <1>4, <1>5, <1>6, <1>7, <1>9, <1>10, <1>12

\* The steps of the wire and of the providers, and gossip, leave this alone.
LEMMA NothingReported ==
    ASSUME Paid, UNCHANGED <<stage, at, committed, reported>>,
           mirrored \subseteq mirrored', mirrored' \subseteq Attempt
    PROVE  Paid'
<1> USE DEF Paid
<1>1. /\ \A u \in Session : Active(u)' = Active(u) /\ Current(u)' = Current(u)
      /\ Abandoned' = Abandoned /\ Standing' = Standing
  BY DEF Active, Current, Abandoned, Standing
<1>2. Known' /\ Alone' /\ InTurn' /\ Heeded' BY <1>1 DEF Known, Alone, InTurn, Heeded
<1>3. Booked'
  <2>1. \A a \in reported : a[1] \in Session BY DEF Known, Attempt
  <2> QED BY <1>1, <2>1 DEF Booked
<1>4. Funded' /\ WithinBalance' BY <1>1 DEF Funded, WithinBalance
<1> QED BY <1>2, <1>3, <1>4

LEMMA TryPays ==
    ASSUME Paid, Shape, NEW s \in Session, stage[s] \in {"idle", "closing"},
           Try(s, at[s] + 1, mirrored'), UNCHANGED reported,
           mirrored \subseteq mirrored', mirrored' \subseteq Attempt,
           \A a \in reported : a[1] = s => a \in mirrored',
           \A t \in Session : Active(t) /\ t # s /\ Owner[t] = Owner[s] => Owner[s] \in Parallel
    PROVE  Paid'
<1> DEFINE k == at[s] + 1
<1>1. CASE MayHire(s, k, mirrored')
  <2>1. /\ stage' = [stage EXCEPT ![s] = "reading"] /\ at' = [at EXCEPT ![s] = k]
        /\ committed' = [committed EXCEPT ![s] = FALSE]
    BY <1>1 DEF Try
  <2> HIDE DEF k
  <2>2. k = at[s] + 1 BY DEF k
  <2> QED BY <1>1, <2>1, <2>2, Hires DEF MayHire
<1>2. CASE ~MayHire(s, k, mirrored')
  <2>1. Leave(s, "failed") BY <1>2 DEF Try
  <2>2. /\ stage' = [stage EXCEPT ![s] = "failed"] /\ committed' = [committed EXCEPT ![s] = FALSE]
        /\ UNCHANGED at
    BY <2>1 DEF Leave
  <2>3. "failed" \in Over BY DEF Over
  <2> QED BY <2>2, <2>3, Ends
<1> QED BY <1>1, <1>2

LEMMA ConsumerPays ==
    ASSUME IInv, Paid, NEW s \in Session, Open(s) \/ Consume(s) \/ Cancel(s) \/ Crash(s)
    PROVE  Paid'
<1>1. Shape BY DEF IInv
<1>2. Active(s) => Current(s) \in Attempt BY CurrentTyped DEF Paid
<1>3. mirrored \subseteq Attempt /\ reported \subseteq Attempt BY DEF Paid, Known
<1>4. at[s] \in Nat BY <1>1 DEF Shape
<1>5. CASE Open(s)
  <2>1. stage[s] = "idle" /\ at[s] = 0 /\ UNCHANGED <<mirrored, reported>>
    BY <1>5 DEF Open, books, Paid, InTurn
  <2>2. Try(s, at[s] + 1, mirrored')
    <3>1. Try(s, 1, mirrored) BY <1>5 DEF Open
    <3>2. at[s] + 1 = 1 BY <2>1
    <3> QED BY <2>1, <3>1, <3>2
  <2>3. \A a \in reported : a[1] # s
    <3> SUFFICES ASSUME NEW a \in reported, a[1] = s PROVE FALSE OBVIOUS
    <3>1. PICK u \in Session : \E j \in DOMAIN Ranking[u] : a = <<u, j>> BY <1>3 DEF Attempt
    <3>2. PICK j \in DOMAIN Ranking[u] : a = <<u, j>> BY <3>1
    <3>3. Ranking[u] \in Seq(Provider) BY StreamAssumption
    <3>4. j \in Nat /\ j >= 1 BY <3>3
    <3>5. j <= at[s] BY <3>2 DEF Paid, Heeded
    <3> QED BY <2>1, <3>4, <3>5
  <2>4. \A t \in Session : Active(t) /\ t # s /\ Owner[t] = Owner[s] => Owner[s] \in Parallel
    BY <1>5 DEF Open, Active, Over, Left
  <2> QED BY <1>1, <1>3, <2>1, <2>2, <2>3, <2>4, TryPays
<1>6. CASE Read(s)
  <2>1. /\ stage[s] = "reading" /\ committed' = [committed EXCEPT ![s] = TRUE]
        /\ reported' = reported \cup {Current(s)}
        /\ UNCHANGED <<stage, at, mirrored>>
    BY <1>6 DEF Read
  <2>2. stage' = [stage EXCEPT ![s] = "reading"] BY <1>1, <2>1 DEF Shape
  <2> QED BY <1>1, <2>1, <2>2, GoesOn DEF Active
<1>7. CASE Complete(s)
  <2>1. /\ stage[s] = "reading" /\ stage' = [stage EXCEPT ![s] = "done"]
        /\ committed' = [committed EXCEPT ![s] = FALSE] /\ UNCHANGED at
        /\ mirrored' = mirrored \cup {Current(s)} /\ reported' = reported \cup {Current(s)}
    BY <1>7 DEF Complete, Leave
  <2>2. Active(s) BY <2>1 DEF Active
  <2>3. ASSUME NEW a \in reported', a[1] = s PROVE a \in mirrored'
    <3>1. CASE a = Current(s) BY <2>1, <3>1
    <3>2. CASE a \in reported BY <2>1, <2>3, <3>2 DEF Paid, Booked
    <3> QED BY <2>1, <3>1, <3>2
  <2>4. "done" \in Over BY DEF Over
  <2>5. mirrored \subseteq mirrored' /\ mirrored' \subseteq Attempt BY <1>2, <1>3, <2>1, <2>2
  <2> QED BY <1>1, <2>1, <2>2, <2>3, <2>4, <2>5, Ends
<1>8. CASE GiveUp(s)
  <2> DEFINE told == committed[s] \/ Tells(Head(pipe[s]))
  <2>1. /\ stage[s] = "reading" /\ stage' = [stage EXCEPT ![s] = "closing"]
        /\ committed' = [committed EXCEPT ![s] = told]
        /\ reported' = IF Head(pipe[s]) \in Receipts THEN reported \cup {Current(s)} ELSE reported
        /\ UNCHANGED <<at, mirrored>>
    BY <1>8 DEF GiveUp
  <2>2. told \in BOOLEAN /\ (committed[s] => told) BY <1>1 DEF Shape, Tells
  <2>3. reported' = reported \/ (told /\ reported' = reported \cup {Current(s)})
    BY <2>1 DEF Tells
  <2> HIDE DEF told
  <2> QED BY <1>1, <2>1, <2>2, <2>3, GoesOn DEF Active
<1>9. CASE Stall(s)
  <2>1. /\ stage[s] = "reading" /\ stage' = [stage EXCEPT ![s] = "closing"]
        /\ UNCHANGED <<at, committed, mirrored, reported>>
    BY <1>9 DEF Stall, books
  <2>2. committed' = [committed EXCEPT ![s] = committed[s]] /\ committed[s] \in BOOLEAN
    BY <1>1, <2>1 DEF Shape
  <2> QED BY <1>1, <2>1, <2>2, GoesOn DEF Active
<1>10. CASE Settle(s)
  <2>1. stage[s] = "closing" /\ UNCHANGED reported /\ mirrored' = Mirrored(s)
    BY <1>10 DEF Settle
  <2>2. Active(s) BY <2>1 DEF Active
  <2>3. mirrored \subseteq mirrored' /\ mirrored' \subseteq Attempt
    BY <1>2, <1>3, <2>1, <2>2 DEF Mirrored
  <2>4. ASSUME NEW a \in reported, a[1] = s PROVE a \in mirrored'
    <3>1. CASE a \in mirrored BY <2>3, <3>1
    <3>2. CASE a = Current(s)
      <4>1. committed[s] BY <2>2, <3>2 DEF Paid, Heeded
      <4> QED BY <2>1, <3>2, <4>1 DEF Mirrored
    <3> QED BY <2>1, <2>4, <3>1, <3>2 DEF Paid, Booked
  <2>5. CASE streamed[s]
    <3>1. /\ stage' = [stage EXCEPT ![s] = "failed"] /\ committed' = [committed EXCEPT ![s] = FALSE]
          /\ UNCHANGED at
      BY <1>10, <2>5 DEF Settle, Leave
    <3>2. "failed" \in Over BY DEF Over
    <3> QED BY <1>1, <2>1, <2>3, <2>4, <3>1, <3>2, Ends
  <2>6. CASE ~streamed[s]
    <3>1. Try(s, at[s] + 1, mirrored') BY <1>10, <2>6 DEF Settle
    <3>2. \A t \in Session : Active(t) /\ t # s /\ Owner[t] = Owner[s] => Owner[s] \in Parallel
      BY <2>2 DEF Paid, Alone
    <3> QED BY <1>1, <2>1, <2>3, <2>4, <3>1, <3>2, TryPays
  <2> QED BY <2>5, <2>6
<1>11. CASE Cancel(s) \/ Crash(s)
  <2>0. PICK w \in Left : Abandon(s, w) BY <1>11 DEF Cancel, Crash, Left
  <2>1. /\ stage[s] \in {"reading", "closing"} /\ stage' = [stage EXCEPT ![s] = w]
        /\ committed' = [committed EXCEPT ![s] = FALSE]
        /\ UNCHANGED <<at, mirrored, reported>>
    BY <1>11, <2>0 DEF Cancel, Crash, Abandon, Leave, books
  <2>2. w \in Over BY DEF Over
  <2> QED BY <1>1, <1>3, <2>1, <2>2, Ends
<1> QED BY <1>5, <1>6, <1>7, <1>8, <1>9, <1>10, <1>11 DEF Consume

LEMMA NextPaid == ASSUME IInv, Paid, [Next]_vars PROVE Paid'
<1>1. mirrored \subseteq Attempt BY DEF Paid, Known
<1>2. ASSUME NEW s \in Session, Open(s) \/ Consume(s) \/ Cancel(s) \/ Crash(s) PROVE Paid'
  BY <1>2, ConsumerPays
<1>3. ASSUME NEW s \in Session, Cut(s) \/ RelayFails(s) PROVE Paid'
  BY <1>1, <1>3, NothingReported DEF Cut, RelayFails, caller, books
<1>4. ASSUME NEW a \in Attempt, Gossip(a) PROVE Paid'
  BY <1>1, <1>4, NothingReported DEF Gossip, caller
<1>5. ASSUME NEW s, NEW k, \/ Witness(s, k) \/ Serve(s, k) \/ Warm(s, k) \/ Talk(s, k)
      PROVE  Paid'
  <2>1. UNCHANGED <<stage, at, committed, reported, mirrored>>
    BY <1>5 DEF Witness, Serve, Warm, Talk, Refuse, Commit, Begin, Finish, Block, HangUp, caller, books
  <2> QED BY <1>1, <2>1, NothingReported
<1>6. CASE UNCHANGED vars BY <1>1, <1>6, NothingReported DEF vars, caller, books
<1> QED BY <1>2, <1>3, <1>4, <1>5, <1>6 DEF Next

\* Whatever is lost, refused or late, and however often an owner fails over, a
\* provider is hired only with credits that remain after everything the owner
\* was told it has paid.
THEOREM ReportedPaymentsAreCovered == Spec => []WithinBalance
<1>1. IInv /\ Paid /\ [Next]_vars => Paid' BY NextPaid
<1>2. Spec => []Paid BY StreamInvariance, InitPaid, <1>1, PTL DEF Spec
<1>3. Paid => WithinBalance BY DEF Paid
<1> QED BY <1>2, <1>3, PTL

-----------------------------------------------------------------------------
\* The streams as calls.

\* Nothing came of an attempt before it was made.
Untried ==
    \A s \in Session : \A k \in DOMAIN Ranking[s] :
        k > at[s] => work[s][k] = "none" /\ <<s, k>> \notin inForce

\* What a consumer has noted of the attempt that runs was reported to it.
Told ==
    /\ streamed \in [Session -> BOOLEAN]
    /\ \A s \in Session : /\ streamed[s] => committed[s]
                          /\ committed[s] => Active(s) /\ Current(s) \in reported

\* What the mapping to calls rests on; it stands beside IInv and Paid.
CInv == Untried /\ Told

LEMMA InitCInv == Init => CInv
<1> SUFFICES ASSUME Init PROVE CInv OBVIOUS
<1>1. Untried BY DEF Init, Untried
<1>2. Told BY DEF Init, Told
<1> QED BY <1>1, <1>2 DEF CInv

\* A provider works only on what it was asked for.
LEMMA UntriedKept ==
    ASSUME IInv, Paid, CInv, [Next]_vars
    PROVE  Untried'
<1> USE DEF IInv, CInv
<1>0. \A s \in Session : DOMAIN Ranking[s] \subseteq Nat
  <2>1. ASSUME NEW s \in Session PROVE DOMAIN Ranking[s] \subseteq Nat
    <3>1. Ranking[s] \in Seq(Provider) BY StreamAssumption
    <3> QED BY <3>1
  <2> QED BY <2>1
<1>1. \A s \in Session : at[s] \in Nat BY DEF Shape
<1>2. ASSUME UNCHANGED <<at, work, inForce>> PROVE Untried'
  BY <1>2 DEF Untried
<1>3. ASSUME NEW s \in Session, NEW held, Try(s, at[s] + 1, held), UNCHANGED inForce
      PROVE  Untried'
  <2>1. CASE UNCHANGED <<at, work>> BY <1>2, <1>3, <2>1
  <2>2. CASE /\ at[s] + 1 \in DOMAIN Ranking[s]
             /\ at' = [at EXCEPT ![s] = at[s] + 1]
             /\ work' = [work EXCEPT ![s][at[s] + 1] = "asked"]
    <3>1. "asked" \in Steps BY DEF Steps
    <3>2. \A u \in Session : \A j \in DOMAIN Ranking[u] :
             work'[u][j] = IF u = s /\ j = at[s] + 1 THEN "asked" ELSE work[u][j]
      BY <2>2, <3>1, ReachTyped
    <3>3. \A u \in Session : at'[u] = IF u = s THEN at[s] + 1 ELSE at[u]
      BY <2>2 DEF Shape
    <3> SUFFICES ASSUME NEW u \in Session, NEW j \in DOMAIN Ranking[u], j > at'[u]
                 PROVE  work'[u][j] = "none" /\ <<u, j>> \notin inForce
      BY <1>3 DEF Untried
    <3>4. j \in Nat /\ at[u] \in Nat BY <1>0, <1>1
    <3>5. j > at[u] /\ ~(u = s /\ j = at[s] + 1) BY <3>3, <3>4
    <3> QED BY <3>2, <3>5 DEF Untried
  <2> QED BY <1>3, <2>1, <2>2 DEF Try, Leave, MayHire
<1>4. ASSUME NEW s \in Session, NEW k \in DOMAIN Ranking[s], NEW w \in Steps,
             work[s][k] # "none", Reach(s, k, w), inForce' \subseteq inForce \cup {<<s, k>>},
             UNCHANGED at
      PROVE  Untried'
  <2>1. \A u \in Session : \A j \in DOMAIN Ranking[u] :
           work'[u][j] = IF u = s /\ j = k THEN w ELSE work[u][j]
    BY <1>4, ReachTyped DEF Reach
  <2> QED BY <1>4, <2>1 DEF Untried
<1>5. ASSUME NEW s \in Session, Open(s) PROVE Untried'
  <2>1. at[s] = 0 BY <1>5 DEF Open, Paid, InTurn
  <2>2. at[s] + 1 = 1 BY <2>1
  <2>3. Try(s, at[s] + 1, mirrored) BY <1>5, <2>2 DEF Open
  <2> QED BY <1>3, <1>5, <2>3 DEF Open, books
<1>6. ASSUME NEW s \in Session, Consume(s) \/ Cancel(s) \/ Crash(s) \/ Cut(s) \/ RelayFails(s)
      PROVE  Untried'
  <2>1. CASE \/ Read(s) \/ Complete(s) \/ GiveUp(s) \/ Stall(s) \/ Cancel(s) \/ Crash(s)
             \/ Cut(s) \/ RelayFails(s)
    <3>1. UNCHANGED <<at, work, inForce>>
      BY <2>1 DEF Read, Complete, GiveUp, Stall, Cancel, Crash, Abandon, Cut, RelayFails,
         Leave, caller, seller, books
    <3> QED BY <1>2, <3>1
  <2>2. CASE Settle(s)
    <3>1. CASE streamed[s] BY <1>2, <2>2, <3>1 DEF Settle, Leave
    <3>2. CASE ~streamed[s] BY <1>3, <2>2, <3>2 DEF Settle
    <3> QED BY <3>1, <3>2
  <2> QED BY <1>6, <2>1, <2>2 DEF Consume
<1>7. ASSUME NEW s \in Session, NEW k \in DOMAIN Ranking[s], Serve(s, k) \/ Talk(s, k)
      PROVE  Untried'
  <2>1. \E w \in Steps : Reach(s, k, w)
    BY <1>7 DEF Serve, Refuse, Commit, Begin, Finish, Block, HangUp, Talk, Steps
  <2>2. work[s][k] # "none" /\ inForce' \subseteq inForce \cup {<<s, k>>} /\ UNCHANGED at
    BY <1>7 DEF Serve, Refuse, Commit, Begin, Finish, Block, HangUp, Talk, caller, books
  <2> QED BY <1>4, <2>1, <2>2
<1>8. ASSUME NEW s \in Session, NEW k \in DOMAIN Ranking[s], Witness(s, k) \/ Warm(s, k)
      PROVE  Untried'
  BY <1>8 DEF Witness, Warm, caller, seller, books, Untried
<1>9. ASSUME NEW a \in Attempt, Gossip(a) PROVE Untried'
  BY <1>2, <1>9 DEF Gossip, caller, seller
<1>10. CASE UNCHANGED vars BY <1>2, <1>10 DEF vars, caller, seller, books
<1>11. \A a \in Attempt : a[1] \in Session /\ a[2] \in DOMAIN Ranking[a[1]] BY DEF Attempt
<1> QED BY <1>5, <1>6, <1>7, <1>8, <1>9, <1>10, <1>11 DEF Next

\* The consumer notes what is reported, and nothing else.
LEMMA ToldKept ==
    ASSUME IInv, Paid, CInv, [Next]_vars
    PROVE  Told'
<1> USE DEF IInv, CInv, Shape
<1>1. ASSUME UNCHANGED <<caller, reported>> PROVE Told'
  BY <1>1 DEF Told, caller, Active, Current
<1>2. ASSUME NEW s \in Session, NEW w \in {"reading", "closing"}, stage[s] = "reading",
             stage' = [stage EXCEPT ![s] = w], UNCHANGED at,
             NEW c \in BOOLEAN, NEW h \in BOOLEAN, committed[s] => c, h => c,
             committed' = [committed EXCEPT ![s] = c], streamed' = [streamed EXCEPT ![s] = h],
             reported' = reported \/ reported' = reported \cup {Current(s)},
             c => Current(s) \in reported'
      PROVE  Told'
  <2>1. streamed' \in [Session -> BOOLEAN] BY <1>2 DEF Told
  <2>2. ASSUME NEW u \in Session, streamed'[u] PROVE committed'[u]
    BY <1>2, <2>2 DEF Told
  <2>3. ASSUME NEW u \in Session, committed'[u] PROVE Active(u)' /\ Current(u)' \in reported'
    <3>1. CASE u = s BY <1>2, <2>3, <3>1 DEF Active, Current
    <3>2. CASE u # s BY <1>2, <2>3, <3>2 DEF Told, Active, Current
    <3> QED BY <3>1, <3>2
  <2> QED BY <2>1, <2>2, <2>3 DEF Told
<1>3. ASSUME NEW s \in Session, committed' = [committed EXCEPT ![s] = FALSE],
             streamed' = [streamed EXCEPT ![s] = FALSE],
             \A u \in Session : u # s => stage'[u] = stage[u] /\ at'[u] = at[u],
             reported \subseteq reported'
      PROVE  Told'
  <2>1. streamed' \in [Session -> BOOLEAN] BY <1>3 DEF Told
  <2>2. ASSUME NEW u \in Session, streamed'[u] PROVE committed'[u]
    BY <1>3, <2>2 DEF Told
  <2>3. ASSUME NEW u \in Session, committed'[u] PROVE Active(u)' /\ Current(u)' \in reported'
    <3>1. u # s BY <1>3, <2>3
    <3> QED BY <1>3, <2>3, <3>1 DEF Told, Active, Current
  <2> QED BY <2>1, <2>2, <2>3 DEF Told
<1>4. ASSUME NEW s \in Session, NEW k, NEW held, Try(s, k, held), UNCHANGED reported
      PROVE  Told'
  BY <1>3, <1>4 DEF Try, Leave
<1>5. ASSUME NEW s \in Session, Open(s) \/ Complete(s) \/ Settle(s) \/ Cancel(s) \/ Crash(s)
      PROVE  Told'
  <2>1. CASE Open(s) BY <1>4, <2>1 DEF Open, books
  <2>2. CASE Complete(s) BY <1>3, <2>2 DEF Complete, Leave
  <2>3. CASE Settle(s) BY <1>3, <1>4, <2>3 DEF Settle, Leave
  <2>4. CASE Cancel(s) \/ Crash(s) BY <1>3, <2>4 DEF Cancel, Crash, Abandon, Leave, books
  <2> QED BY <1>5, <2>1, <2>2, <2>3, <2>4
<1>6. ASSUME NEW s \in Session, Read(s) PROVE Told'
  <2>1. /\ stage[s] = "reading" /\ stage' = [stage EXCEPT ![s] = "reading"] /\ UNCHANGED at
        /\ committed' = [committed EXCEPT ![s] = TRUE]
        /\ reported' = reported \cup {Current(s)}
    BY <1>6 DEF Read
  <2>2. PICK h \in BOOLEAN : streamed' = [streamed EXCEPT ![s] = h]
    BY <1>6 DEF Read, Told
  <2> QED BY <1>2, <2>1, <2>2
<1>7. ASSUME NEW s \in Session, GiveUp(s) PROVE Told'
  <2> DEFINE c == committed[s] \/ Tells(Head(pipe[s]))
  <2>1. /\ stage[s] = "reading" /\ stage' = [stage EXCEPT ![s] = "closing"]
        /\ committed' = [committed EXCEPT ![s] = c]
        /\ reported' = IF Head(pipe[s]) \in Receipts THEN reported \cup {Current(s)} ELSE reported
        /\ UNCHANGED <<at, streamed>>
    BY <1>7 DEF GiveUp
  <2>2. c \in BOOLEAN /\ (committed[s] => c) /\ (streamed[s] => c) /\ streamed[s] \in BOOLEAN
        /\ streamed' = [streamed EXCEPT ![s] = streamed[s]]
    BY <2>1 DEF Told, Tells
  <2>3. c => Current(s) \in reported' BY <2>1 DEF Told, Tells
  <2>4. reported' = reported \/ reported' = reported \cup {Current(s)} BY <2>1
  <2> HIDE DEF c
  <2> QED BY <1>2, <2>1, <2>2, <2>3, <2>4
<1>8. ASSUME NEW s \in Session, Stall(s) PROVE Told'
  <2>1. /\ stage[s] = "reading" /\ stage' = [stage EXCEPT ![s] = "closing"]
        /\ UNCHANGED <<at, committed, streamed, reported>>
    BY <1>8 DEF Stall, books
  <2>2. /\ committed' = [committed EXCEPT ![s] = committed[s]] /\ committed[s] \in BOOLEAN
        /\ streamed' = [streamed EXCEPT ![s] = streamed[s]] /\ streamed[s] \in BOOLEAN
    BY <2>1 DEF Told
  <2>3. (streamed[s] => committed[s]) /\ (committed[s] => Current(s) \in reported') /\ reported' = reported
    BY <2>1 DEF Told
  <2> QED BY <1>2, <2>1, <2>2, <2>3
<1>9. ASSUME NEW s \in Session, Cut(s) \/ RelayFails(s) PROVE Told'
  BY <1>1, <1>9 DEF Cut, RelayFails, books
<1>10. ASSUME NEW a, Gossip(a) PROVE Told'
  BY <1>1, <1>10 DEF Gossip
<1>11. ASSUME NEW s, NEW k, \/ Witness(s, k) \/ Serve(s, k) \/ Warm(s, k) \/ Talk(s, k)
       PROVE  Told'
  <2>1. UNCHANGED <<caller, reported>>
    BY <1>11 DEF Witness, Serve, Warm, Talk, Refuse, Commit, Begin, Finish, Block, HangUp, books
  <2> QED BY <1>1, <2>1
<1>12. CASE UNCHANGED vars BY <1>1, <1>12 DEF vars, books
<1> QED BY <1>5, <1>6, <1>7, <1>8, <1>9, <1>10, <1>11, <1>12 DEF Next, Consume

LEMMA CallInvariance == Spec => [](IInv /\ Paid /\ CInv)
<1>1. IInv /\ Paid /\ CInv /\ [Next]_vars => CInv'
  BY UntriedKept, ToldKept DEF CInv
<1>2. IInv /\ Paid /\ [Next]_vars => Paid' BY NextPaid
<1> QED BY <1>1, <1>2, StreamInvariance, InitPaid, InitCInv, PTL DEF Spec

\* What the calls of an owner are mapped to.
Book(o) == [s \in Streams(o) |-> AsCall(s)]

Purse(o) == Balance(o, mirrored)

Due(o) == Total(Of(o, Lapsed \ mirrored))

Back(o) == Total(Of(o, Lapsed \cap mirrored))

LEMMA OneFare ==
    ASSUME FlatPrices
    PROVE  /\ Fare > 0
           /\ \A a \in Attempt : Price[Seller(a)] = Fare /\ Fare \in Nat
           /\ Attempt # {} => Fare \in Nat
<1>1. \A a \in Attempt : Seller(a) \in Provider BY DEF Provider
<1> QED BY <1>1, PricesTyped DEF FlatPrices

\* One payment more adds its price.
LEMMA TotalInsert ==
    ASSUME FlatPrices, NEW A \in SUBSET Attempt, NEW a \in Attempt, a \notin A
    PROVE  /\ Total(A \cup {a}) = Total(A) + Fare
           /\ Total(A) \in Nat /\ Fare \in Nat
<1> DEFINE new == {a} \X (1..Price[Seller(a)])
<1>1. IsFiniteSet(new) /\ Cardinality(new) = Fare BY OneWorth, OneFare
<1>2. Credits(A \cup {a}) = Credits(A) \cup new BY DEF Credits
<1>3. Credits(A) \cap new = {} BY DEF Credits
<1> HIDE DEF new
<1>4. IsFiniteSet(Credits(A)) /\ Total(A) \in Nat BY TotalOf
<1>5. Cardinality(Credits(A) \cup new)
        = Cardinality(Credits(A)) + Cardinality(new) - Cardinality(Credits(A) \cap new)
  BY <1>1, <1>4, FS_Union
<1>6. Cardinality(Credits(A) \cap new) = 0 BY <1>3, FS_EmptySet
<1>7. Fare \in Nat BY OneFare
<1>8. Total(A \cup {a}) = Cardinality(Credits(A) \cup new) BY <1>2 DEF Total
<1>9. Cardinality(Credits(A)) = Total(A) BY DEF Total
<1> QED BY <1>1, <1>4, <1>5, <1>6, <1>7, <1>8, <1>9

LEMMA OfTyped == ASSUME NEW A \in SUBSET Attempt, NEW o PROVE Of(o, A) \in SUBSET Attempt
BY DEF Of

\* A payment of o more.
LEMMA OfInsert ==
    ASSUME FlatPrices, NEW A \in SUBSET Attempt, NEW a \in Attempt, a \notin A,
           NEW o, Owner[a[1]] = o
    PROVE  /\ Total(Of(o, A \cup {a})) = Total(Of(o, A)) + Fare
           /\ Total(Of(o, A)) \in Nat /\ Fare \in Nat
<1>1. Of(o, A \cup {a}) = Of(o, A) \cup {a} BY DEF Of
<1>2. a \notin Of(o, A) /\ Of(o, A) \in SUBSET Attempt BY DEF Of
<1> QED BY <1>1, <1>2, TotalInsert

LEMMA LapsedTyped == Lapsed \in SUBSET Attempt /\ Lapsed' \in SUBSET Attempt
BY DEF Lapsed

\* The attempt a ends and its payment is in the replica.
LEMMA BooksIt ==
    ASSUME FlatPrices, NEW a \in Attempt, mirrored \subseteq Attempt, a \notin Lapsed,
           mirrored' = mirrored \cup {a}, Lapsed' = Lapsed, NEW o, Owner[a[1]] = o
    PROVE  /\ Purse(o)' = IF a \in mirrored THEN Purse(o) ELSE Purse(o) - Fare
           /\ Due(o)' = Due(o) /\ Back(o)' = Back(o)
<1>1. Lapsed' \ mirrored' = Lapsed \ mirrored /\ Lapsed' \cap mirrored' = Lapsed \cap mirrored
  OBVIOUS
<1>2. Due(o)' = Due(o) /\ Back(o)' = Back(o) BY <1>1 DEF Due, Back
<1>3. CASE a \in mirrored
  <2>1. mirrored' = mirrored BY <1>3
  <2> QED BY <1>2, <1>3, <2>1 DEF Purse
<1>4. CASE a \notin mirrored
  <2>1. /\ Total(Of(o, mirrored \cup {a})) = Total(Of(o, mirrored)) + Fare
        /\ Total(Of(o, mirrored)) \in Nat /\ Fare \in Nat
    BY <1>4, OfInsert
  <2>2. Purse(o) = StartBalance - Total(Of(o, mirrored)) BY DEF Purse, Balance
  <2>3. Purse(o)' = StartBalance - Total(Of(o, mirrored \cup {a})) BY DEF Purse, Balance
  <2>4. StartBalance \in Nat BY StreamAssumption
  <2>5. Purse(o)' = Purse(o) - Fare BY <2>1, <2>2, <2>3, <2>4
  <2> QED BY <1>2, <1>4, <2>5
<1> QED BY <1>3, <1>4

\* It ends and nothing is mirrored.
LEMMA ForgetsIt ==
    ASSUME FlatPrices, NEW a \in Attempt, mirrored \subseteq Attempt, a \notin Lapsed,
           mirrored' = mirrored, Lapsed' = Lapsed \cup {a}, NEW o, Owner[a[1]] = o
    PROVE  /\ Purse(o)' = Purse(o)
           /\ IF a \in mirrored THEN Back(o)' = Back(o) + Fare /\ Due(o)' = Due(o)
                                ELSE Due(o)' = Due(o) + Fare /\ Back(o)' = Back(o)
<1>1. Purse(o)' = Purse(o) BY DEF Purse
<1>2. Lapsed \ mirrored \in SUBSET Attempt /\ Lapsed \cap mirrored \in SUBSET Attempt
  BY LapsedTyped
<1>3. CASE a \in mirrored
  <2>1. Lapsed' \ mirrored' = Lapsed \ mirrored
        /\ Lapsed' \cap mirrored' = (Lapsed \cap mirrored) \cup {a}
    BY <1>3
  <2>2. Total(Of(o, (Lapsed \cap mirrored) \cup {a})) = Total(Of(o, Lapsed \cap mirrored)) + Fare
    BY <1>2, OfInsert
  <2> QED BY <1>1, <1>3, <2>1, <2>2 DEF Due, Back
<1>4. CASE a \notin mirrored
  <2>1. Lapsed' \ mirrored' = (Lapsed \ mirrored) \cup {a}
        /\ Lapsed' \cap mirrored' = Lapsed \cap mirrored
    BY <1>4
  <2>2. Total(Of(o, (Lapsed \ mirrored) \cup {a})) = Total(Of(o, Lapsed \ mirrored)) + Fare
    BY <1>2, OfInsert
  <2> QED BY <1>1, <1>4, <2>1, <2>2 DEF Due, Back
<1> QED BY <1>3, <1>4

\* What was forgotten comes by gossip.
LEMMA PullsIt ==
    ASSUME FlatPrices, NEW a \in Lapsed, a \notin mirrored, mirrored \subseteq Attempt,
           mirrored' = mirrored \cup {a}, Lapsed' = Lapsed, NEW o, Owner[a[1]] = o
    PROVE  /\ Purse(o)' = Purse(o) - Fare /\ Back(o)' = Back(o) + Fare
           /\ Due(o)' = Due(o) - Fare /\ Due(o) >= Fare
<1>0. a \in Attempt BY LapsedTyped
<1> DEFINE A == (Lapsed \ mirrored) \ {a}
           B == Lapsed \cap mirrored
<1>1. /\ A \in SUBSET Attempt /\ B \in SUBSET Attempt /\ a \notin A /\ a \notin B
  BY LapsedTyped
<1>2. /\ Lapsed \ mirrored = A \cup {a} /\ Lapsed' \ mirrored' = A
      /\ Lapsed \cap mirrored = B /\ Lapsed' \cap mirrored' = B \cup {a}
  OBVIOUS
<1>3. /\ Due(o) = Total(Of(o, A \cup {a})) /\ Due(o)' = Total(Of(o, A))
      /\ Back(o) = Total(Of(o, B)) /\ Back(o)' = Total(Of(o, B \cup {a}))
  BY <1>2 DEF Due, Back
<1> HIDE DEF A, B
<1>4. /\ Total(Of(o, A \cup {a})) = Total(Of(o, A)) + Fare
      /\ Total(Of(o, A)) \in Nat /\ Fare \in Nat
  BY <1>0, <1>1, OfInsert
<1>5. Total(Of(o, B \cup {a})) = Total(Of(o, B)) + Fare BY <1>0, <1>1, OfInsert
<1>6. /\ Total(Of(o, mirrored \cup {a})) = Total(Of(o, mirrored)) + Fare
      /\ Total(Of(o, mirrored)) \in Nat
  BY <1>0, OfInsert
<1>7. Purse(o)' = Purse(o) - Fare
  <2>1. Purse(o) = StartBalance - Total(Of(o, mirrored)) BY DEF Purse, Balance
  <2>2. Purse(o)' = StartBalance - Total(Of(o, mirrored \cup {a})) BY DEF Purse, Balance
  <2>3. StartBalance \in Nat BY StreamAssumption
  <2> QED BY <1>4, <1>6, <2>1, <2>2, <2>3
<1>8. Due(o)' = Due(o) - Fare /\ Due(o) >= Fare BY <1>3, <1>4
<1> QED BY <1>3, <1>5, <1>7, <1>8

\* What happens to an attempt of another owner.
LEMMA OthersKeep ==
    ASSUME NEW a, NEW o, Owner[a[1]] # o,
           mirrored \subseteq mirrored', mirrored' \subseteq mirrored \cup {a},
           Lapsed \subseteq Lapsed', Lapsed' \subseteq Lapsed \cup {a}
    PROVE  Purse(o)' = Purse(o) /\ Due(o)' = Due(o) /\ Back(o)' = Back(o)
<1>1. Of(o, mirrored') = Of(o, mirrored) BY DEF Of
<1>2. Of(o, Lapsed' \ mirrored') = Of(o, Lapsed \ mirrored) BY DEF Of
<1>3. Of(o, Lapsed' \cap mirrored') = Of(o, Lapsed \cap mirrored) BY DEF Of
<1> QED BY <1>1, <1>2, <1>3 DEF Purse, Due, Back, Balance

\* Which attempts have ended without being booked.
LapsedAt(s, k) ==
    /\ k <= at[s] /\ (Active(s) => k # at[s])
    /\ <<s, k>> \in reported => stage[s] \in Left /\ k = at[s]

LEMMA LapsedIs ==
    ASSUME NEW s \in Session, NEW k \in DOMAIN Ranking[s]
    PROVE  /\ <<s, k>> \in Attempt
           /\ <<s, k>> \in Lapsed <=> LapsedAt(s, k)
           /\ <<s, k>> \in Lapsed' <=> LapsedAt(s, k)'
<1>1. <<s, k>> \in Attempt BY DEF Attempt
<1>2. <<s, k>> \in Abandoned <=> stage[s] \in Left /\ k = at[s]
  BY DEF Abandoned, Current
<1>3. <<s, k>> \in Abandoned' <=> stage'[s] \in Left /\ k = at'[s]
  BY DEF Abandoned, Current
<1>4. <<s, k>> \in Lapsed <=> LapsedAt(s, k) BY <1>1, <1>2 DEF Lapsed, LapsedAt, Current
<1>5. <<s, k>> \in Lapsed' <=> LapsedAt(s, k)' BY <1>1, <1>3 DEF Lapsed, LapsedAt, Current
<1> QED BY <1>1, <1>4, <1>5

\* Two sets of attempts that agree on every stream are the same.
LEMMA AttemptsAgree ==
    ASSUME NEW A \in SUBSET Attempt, NEW B \in SUBSET Attempt,
           \A s \in Session : \A k \in DOMAIN Ranking[s] : <<s, k>> \in A <=> <<s, k>> \in B
    PROVE  A = B
BY DEF Attempt

\* Only the stream s moves on.
Only(s) ==
    /\ \A u \in Session : u # s => /\ stage'[u] = stage[u] /\ at'[u] = at[u]
                                  /\ committed'[u] = committed[u]
                                  /\ streamed'[u] = streamed[u]
    /\ mirrored \subseteq mirrored' /\ mirrored' \subseteq mirrored \cup {Current(s)}
    /\ reported \subseteq reported' /\ reported' \subseteq reported \cup {Current(s)}

\* What s does is no other stream's business.
LEMMA OthersAsBefore ==
    ASSUME NEW s \in Session, Only(s), NEW u \in Session, u # s
    PROVE  /\ AsCall(u)' = AsCall(u)
           /\ \A k \in DOMAIN Ranking[u] : LapsedAt(u, k)' <=> LapsedAt(u, k)
<1>1. /\ stage'[u] = stage[u] /\ at'[u] = at[u] /\ committed'[u] = committed[u]
      /\ streamed'[u] = streamed[u]
  BY DEF Only
<1>2. /\ Active(u)' = Active(u) /\ Current(u)' = Current(u)
      /\ Current(u) \in mirrored' <=> Current(u) \in mirrored
      /\ \A k : <<u, k>> \in reported' <=> <<u, k>> \in reported
  BY <1>1 DEF Only, Active, Current
<1>3. Progress(u)' = Progress(u) BY <1>1, <1>2 DEF Progress
<1>4. AsCall(u)' = AsCall(u) BY <1>1, <1>2, <1>3 DEF AsCall
<1>5. \A k \in DOMAIN Ranking[u] : LapsedAt(u, k)' <=> LapsedAt(u, k)
  BY <1>1, <1>2 DEF LapsedAt
<1> QED BY <1>4, <1>5

\* What becomes of the attempts of s decides what lapses.
LEMMA LapsedMoves ==
    ASSUME NEW s \in Session, Only(s), NEW A \in SUBSET {<<s, k>> : k \in DOMAIN Ranking[s]},
           \A k \in DOMAIN Ranking[s] : LapsedAt(s, k)' <=> LapsedAt(s, k) \/ <<s, k>> \in A
    PROVE  Lapsed' = Lapsed \cup A
<1>1. Lapsed \cup A \in SUBSET Attempt BY LapsedTyped DEF Attempt
<1>2. ASSUME NEW u \in Session, NEW k \in DOMAIN Ranking[u]
      PROVE  <<u, k>> \in Lapsed' <=> <<u, k>> \in Lapsed \cup A
  <2>1. CASE u = s BY <2>1, LapsedIs
  <2>2. CASE u # s
    <3>1. <<u, k>> \notin A BY <2>2
    <3>2. LapsedAt(u, k)' <=> LapsedAt(u, k) BY <2>2, OthersAsBefore
    <3> QED BY <3>1, <3>2, LapsedIs
  <2> QED BY <2>1, <2>2
<1> HIDE DEF Only
<1> QED BY <1>1, <1>2, LapsedTyped, AttemptsAgree

\* Nothing changes for an owner.
LEMMA Stutters ==
    ASSUME NEW o, Book(o)' = Book(o), Purse(o)' = Purse(o), Due(o)' = Due(o), Back(o)' = Back(o)
    PROVE  Calls(o)!CallsStep
BY DEF Calls!CallsStep, Calls!account, Book, Purse, Due, Back

\* It is enough to look at the owner of the stream that moves.
LEMMA OwnerOnly ==
    ASSUME NEW s \in Session, Only(s), Lapsed \subseteq Lapsed',
           Lapsed' \subseteq Lapsed \cup {Current(s)},
           /\ Book(Owner[s])' = [Book(Owner[s]) EXCEPT ![s] = AsCall(s)']
           => Calls(Owner[s])!CallsStep
    PROVE  \A o \in Asker : Calls(o)!CallsStep
<1>1. \A u \in Session : u # s => AsCall(u)' = AsCall(u) BY OthersAsBefore
<1>2. Book(Owner[s])' = [Book(Owner[s]) EXCEPT ![s] = AsCall(s)']
  BY <1>1 DEF Book, Streams
<1>3. ASSUME NEW o, o # Owner[s] PROVE Calls(o)!CallsStep
  <2>1. Book(o)' = Book(o) BY <1>1, <1>3 DEF Book, Streams
  <2>2. Current(s)[1] = s BY DEF Current
  <2>3. Purse(o)' = Purse(o) /\ Due(o)' = Due(o) /\ Back(o)' = Back(o)
    BY <1>3, <2>2, OthersKeep DEF Only
  <2> QED BY <2>1, <2>3, Stutters
<1> QED BY <1>2, <1>3

Going == {"asking", "talking"}

\* A call of a stream.
Rec(where, n, told, seen) ==
    [how |-> "stream", at |-> where, left |-> n, told |-> told, seen |-> seen]

\* The stream s has moved, and nobody else.
Turns(s) ==
    /\ s \in Streams(Owner[s])
    /\ Book(Owner[s])' = [Book(Owner[s]) EXCEPT ![s] = AsCall(s)']

LEMMA GoesIs ==
    ASSUME NEW s, Turns(s), NEW n, NEW held, AsCall(s).how = "stream",
           AsCall(s)' = IF n > 0 /\ held >= Fare THEN Rec("asking", n - 1, FALSE, FALSE)
                                                ELSE Rec("raised", 0, FALSE, FALSE)
    PROVE  Calls(Owner[s])!Goes(s, n, held)
<1> DEFINE o == Owner[s]
<1>1. Book(o)[s] = AsCall(s) BY DEF Book, Turns
<1>2. "stream" # "batch" OBVIOUS
<1>3. Calls(o)!Covered("stream", held) <=> held >= Fare BY <1>2 DEF Calls!Covered
<1>4. Calls(o)!On(s, "asking", n - 1) = Rec("asking", n - 1, FALSE, FALSE)
  BY <1>1 DEF Calls!On, Calls!Fresh, Book, Rec
<1>5. Calls(o)!Over(s, "raised") = Rec("raised", 0, FALSE, FALSE)
  BY <1>1 DEF Calls!Over, Calls!On, Calls!Fresh, Book, Rec
<1> QED BY <1>1, <1>3, <1>4, <1>5 DEF Turns, Calls!Goes, Book

LEMMA FindIs ==
    ASSUME NEW s, Turns(s), AsCall(s) = Rec("looking", 0, FALSE, FALSE),
           NEW n \in 0..Cardinality(Attempt),
           AsCall(s)' = IF n > 0 /\ Purse(Owner[s]) >= Fare
                        THEN Rec("asking", n - 1, FALSE, FALSE)
                        ELSE Rec("raised", 0, FALSE, FALSE),
           Purse(Owner[s])' = Purse(Owner[s]), Due(Owner[s])' = Due(Owner[s]),
           Back(Owner[s])' = Back(Owner[s])
    PROVE  Calls(Owner[s])!CallsStep
<1> DEFINE o == Owner[s]
<1>1. Book(o)[s] = AsCall(s) /\ s \in Streams(o) BY DEF Book, Turns
<1>2. AsCall(s).how = "stream" /\ AsCall(s).at = "looking" BY DEF Rec
<1>3. Calls(o)!Goes(s, n, Purse(o)) BY <1>2, GoesIs
<1>4. Calls(o)!Find(s)
  <2>1. "stream" # "batch" OBVIOUS
  <2> QED BY <1>1, <1>2, <1>3, <2>1
          DEF Calls!Find, Calls!account, Book, Purse, Due, Back
<1> QED BY <1>1, <1>4 DEF Calls!CallsStep, Calls!CallsNext, Calls!Move

\* The changes that are made to a call while its attempt runs.
Hears(r) == [r EXCEPT !.told = TRUE]
Sees(r) == [r EXCEPT !.seen = TRUE]
Talks(r) == [r EXCEPT !.at = "talking", !.told = TRUE]

RecTold(where, n, seen) == Rec(where, n, TRUE, seen)
RecSeen(where, n, told) == Rec(where, n, told, TRUE)
RecTalks(n, seen) == Rec("talking", n, TRUE, seen)

LEMMA RecWith ==
    ASSUME NEW where, NEW n, NEW told, NEW seen
    PROVE  /\ Hears(Rec(where, n, told, seen)) = RecTold(where, n, seen)
           /\ Sees(Rec(where, n, told, seen)) = RecSeen(where, n, told)
           /\ Talks(Rec(where, n, told, seen)) = RecTalks(n, seen)
<1> DEFINE R == [how : {"stream"}, at : {where, "talking"}, left : {n},
                 told : {told, TRUE}, seen : {seen, TRUE}]
           r == Rec(where, n, told, seen)
           a == [r EXCEPT !.told = TRUE]
           b == [r EXCEPT !.seen = TRUE]
           c == [r EXCEPT !.at = "talking", !.told = TRUE]
<1>1. r \in R BY DEF Rec
<1>2. /\ r.how = "stream" /\ r.at = where /\ r.left = n /\ r.told = told /\ r.seen = seen
  BY DEF Rec
<1> HIDE DEF r
<1>3. a \in R /\ b \in R /\ c \in R BY <1>1
<1>4. /\ a.how = r.how /\ a.at = r.at /\ a.left = r.left /\ a.told = TRUE /\ a.seen = r.seen
      /\ b.how = r.how /\ b.at = r.at /\ b.left = r.left /\ b.told = r.told /\ b.seen = TRUE
      /\ c.how = r.how /\ c.at = "talking" /\ c.left = r.left /\ c.told = TRUE
      /\ c.seen = r.seen
  BY <1>1
<1> HIDE DEF a, b, c
<1>5. \A q \in R : q = [how |-> q.how, at |-> q.at, left |-> q.left, told |-> q.told,
                       seen |-> q.seen]
  OBVIOUS
<1>6. a = Rec(where, n, TRUE, seen) BY <1>2, <1>3, <1>4, <1>5 DEF Rec
<1>7. b = Rec(where, n, told, TRUE) BY <1>2, <1>3, <1>4, <1>5 DEF Rec
<1>8. c = Rec("talking", n, TRUE, seen) BY <1>2, <1>3, <1>4, <1>5 DEF Rec
<1> QED BY <1>6, <1>7, <1>8 DEF a, b, c, r, Hears, Sees, Talks, RecTold, RecSeen, RecTalks

\* A token.
LEMMA SpeakIs ==
    ASSUME NEW s, Turns(s), NEW n, NEW seen, NEW where \in Going, NEW told,
           AsCall(s) = Rec(where, n, told, seen), AsCall(s)' = Rec("talking", n, TRUE, seen),
           Purse(Owner[s])' = Purse(Owner[s]), Due(Owner[s])' = Due(Owner[s]),
           Back(Owner[s])' = Back(Owner[s])
    PROVE  Calls(Owner[s])!CallsStep
<1> DEFINE o == Owner[s]
<1>1. Book(o)[s] = AsCall(s) /\ s \in Streams(o) BY DEF Book, Turns
<1>2. AsCall(s).how = "stream" /\ AsCall(s).at = where BY DEF Rec
<1>3. AsCall(s)' = RecTalks(n, seen) BY DEF RecTalks
<1>6. Talks(AsCall(s)) = Talks(Rec(where, n, told, seen)) OBVIOUS
<1>7. Talks(Rec(where, n, told, seen)) = RecTalks(n, seen) BY RecWith
<1>4. AsCall(s)' = Talks(AsCall(s)) BY <1>3, <1>6, <1>7
<1>5. Calls(o)!Speak(s)
  BY <1>1, <1>2, <1>4
     DEF Talks, Turns, Calls!Speak, Calls!Signing, Going, Calls!account, Book, Purse, Due, Back
<1> QED BY <1>1, <1>5 DEF Calls!CallsStep, Calls!CallsNext

\* A frame tells of the payment.
LEMMA HearIs ==
    ASSUME NEW s, Turns(s), NEW n, NEW seen, NEW told,
           AsCall(s) = Rec("asking", n, told, seen), AsCall(s)' = Rec("asking", n, TRUE, seen),
           Purse(Owner[s])' = Purse(Owner[s]), Due(Owner[s])' = Due(Owner[s]),
           Back(Owner[s])' = Back(Owner[s])
    PROVE  Calls(Owner[s])!CallsStep
<1> DEFINE o == Owner[s]
<1>1. Book(o)[s] = AsCall(s) /\ s \in Streams(o) BY DEF Book, Turns
<1>2. AsCall(s).how = "stream" /\ AsCall(s).at = "asking" BY DEF Rec
<1>3. AsCall(s)' = RecTold("asking", n, seen) BY DEF RecTold
<1>4. AsCall(s)' = Hears(AsCall(s)) BY <1>3, RecWith
<1>5. Calls(o)!Hear(s)
  BY <1>1, <1>2, <1>4 DEF Hears, Turns, Calls!Hear, Calls!account, Book, Purse, Due, Back
<1> QED BY <1>1, <1>5 DEF Calls!CallsStep, Calls!CallsNext, Calls!Quiet

\* Nothing is to be seen.
LEMMA SameIs ==
    ASSUME NEW s, Turns(s), AsCall(s)' = AsCall(s),
           Purse(Owner[s])' = Purse(Owner[s]), Due(Owner[s])' = Due(Owner[s]),
           Back(Owner[s])' = Back(Owner[s])
    PROVE  Calls(Owner[s])!CallsStep
<1>1. Book(Owner[s])' = Book(Owner[s]) BY DEF Turns, Book
<1> QED BY <1>1, Stutters

LEMMA SeeIs ==
    ASSUME NEW s, Turns(s), NEW n, NEW where \in Going,
           NEW told \in BOOLEAN, AsCall(s) = Rec(where, n, told, FALSE), AsCall(s)' = Rec(where, n, told, TRUE),
           Purse(Owner[s])' = Purse(Owner[s]) - Fare, Due(Owner[s])' = Due(Owner[s]),
           Back(Owner[s])' = Back(Owner[s])
    PROVE  Calls(Owner[s])!CallsStep
<1> DEFINE o == Owner[s]
<1>1. Book(o)[s] = AsCall(s) /\ s \in Streams(o) BY DEF Book, Turns
<1>2. AsCall(s).seen = FALSE /\ AsCall(s).at = where BY DEF Rec
<1>0. AsCall(s)' = RecSeen(where, n, told) BY DEF RecSeen
<1>3. AsCall(s)' = Sees(AsCall(s)) BY <1>0, RecWith
<1>4. Calls(o)!See(s)
  BY <1>1, <1>2, <1>3 DEF Sees, Turns, Calls!See, Calls!Signing, Going, Book, Purse, Due, Back
<1> QED BY <1>1, <1>4 DEF Calls!CallsStep, Calls!CallsNext, Calls!Quiet

LEMMA FinishIs ==
    ASSUME NEW s, Turns(s), NEW n, NEW where \in Going, NEW told, NEW seen,
           AsCall(s) = Rec(where, n, told, seen), AsCall(s)' = Rec("done", 0, FALSE, FALSE),
           /\ Purse(Owner[s])' = IF seen THEN Purse(Owner[s]) ELSE Purse(Owner[s]) - Fare
           /\ Due(Owner[s])' = Due(Owner[s]) /\ Back(Owner[s])' = Back(Owner[s])
    PROVE  Calls(Owner[s])!CallsStep
<1> DEFINE o == Owner[s]
<1>1. Book(o)[s] = AsCall(s) /\ s \in Streams(o) BY DEF Book, Turns
<1>2. AsCall(s).seen = seen /\ AsCall(s).at = where /\ AsCall(s).how = "stream" BY DEF Rec
<1>3. Calls(o)!Over(s, "done") = Rec("done", 0, FALSE, FALSE)
  BY <1>1, <1>2 DEF Calls!Over, Calls!On, Calls!Fresh, Book, Rec
<1>4. Calls(o)!Finish(s)
  BY <1>1, <1>2, <1>3
     DEF Turns, Calls!Finish, Calls!Signing, Going, Calls!Booked, Book, Purse, Due, Back
<1> QED BY <1>1, <1>4 DEF Calls!CallsStep, Calls!CallsNext, Calls!Move

LEMMA CancelIs ==
    ASSUME NEW s, Turns(s), NEW n, NEW where \in Going, NEW told, NEW seen,
           AsCall(s) = Rec(where, n, told, seen), AsCall(s)' = Rec("cancelled", 0, FALSE, FALSE),
           Purse(Owner[s])' = Purse(Owner[s]),
           IF seen THEN Back(Owner[s])' = Back(Owner[s]) + Fare /\ Due(Owner[s])' = Due(Owner[s])
                   ELSE Due(Owner[s])' = Due(Owner[s]) + Fare /\ Back(Owner[s])' = Back(Owner[s])
    PROVE  Calls(Owner[s])!CallsStep
<1> DEFINE o == Owner[s]
<1>1. Book(o)[s] = AsCall(s) /\ s \in Streams(o) BY DEF Book, Turns
<1>2. AsCall(s).seen = seen /\ AsCall(s).at = where /\ AsCall(s).how = "stream" BY DEF Rec
<1>3. Calls(o)!Over(s, "cancelled") = Rec("cancelled", 0, FALSE, FALSE)
  BY <1>1, <1>2 DEF Calls!Over, Calls!On, Calls!Fresh, Book, Rec
<1>4. Calls(o)!Forgotten(s) BY <1>1, <1>2 DEF Calls!Forgotten, Book, Purse, Due, Back
<1>5. Calls(o)!Cancel(s)
  BY <1>1, <1>2, <1>3, <1>4
     DEF Turns, Calls!Cancel, Calls!Running, Calls!Live, Calls!Signing, Going, Book
<1> QED BY <1>1, <1>5 DEF Calls!CallsStep, Calls!CallsNext

LEMMA CrashIs ==
    ASSUME NEW s, Turns(s), NEW n, NEW where \in Going, NEW told, NEW seen,
           AsCall(s) = Rec(where, n, told, seen), AsCall(s)' = Rec("crashed", 0, FALSE, FALSE),
           Purse(Owner[s])' = Purse(Owner[s]),
           IF seen THEN Back(Owner[s])' = Back(Owner[s]) + Fare /\ Due(Owner[s])' = Due(Owner[s])
                   ELSE Due(Owner[s])' = Due(Owner[s]) + Fare /\ Back(Owner[s])' = Back(Owner[s])
    PROVE  Calls(Owner[s])!CallsStep
<1> DEFINE o == Owner[s]
<1>1. Book(o)[s] = AsCall(s) /\ s \in Streams(o) BY DEF Book, Turns
<1>2. AsCall(s).seen = seen /\ AsCall(s).at = where /\ AsCall(s).how = "stream" BY DEF Rec
<1>3. Calls(o)!Over(s, "crashed") = Rec("crashed", 0, FALSE, FALSE)
  BY <1>1, <1>2 DEF Calls!Over, Calls!On, Calls!Fresh, Book, Rec
<1>4. Calls(o)!Forgotten(s) BY <1>1, <1>2 DEF Calls!Forgotten, Book, Purse, Due, Back
<1>5. Calls(o)!Crash(s)
  BY <1>1, <1>2, <1>3, <1>4
     DEF Turns, Calls!Crash, Calls!Signing, Going, Book
<1> QED BY <1>1, <1>5 DEF Calls!CallsStep, Calls!CallsNext, Calls!Move

LEMMA FailIs ==
    ASSUME NEW s, Turns(s), NEW n, NEW where \in Going,
           NEW told \in BOOLEAN, NEW seen, AsCall(s) = Rec(where, n, told, seen),
           AsCall(s)' = IF where = "asking" /\ n > 0 /\ Purse(Owner[s])' >= Fare
                        THEN Rec("asking", n - 1, FALSE, FALSE)
                        ELSE Rec("raised", 0, FALSE, FALSE),
           told => /\ Purse(Owner[s])' = IF seen THEN Purse(Owner[s]) ELSE Purse(Owner[s]) - Fare
                   /\ Due(Owner[s])' = Due(Owner[s]) /\ Back(Owner[s])' = Back(Owner[s]),
           ~told =>
              /\ Purse(Owner[s])' = Purse(Owner[s])
              /\ IF seen
                 THEN Back(Owner[s])' = Back(Owner[s]) + Fare /\ Due(Owner[s])' = Due(Owner[s])
                 ELSE Due(Owner[s])' = Due(Owner[s]) + Fare /\ Back(Owner[s])' = Back(Owner[s])
    PROVE  Calls(Owner[s])!CallsStep
<1> DEFINE o == Owner[s]
<1>1. Book(o)[s] = AsCall(s) /\ s \in Streams(o) BY DEF Book, Turns
<1>2. /\ AsCall(s).seen = seen /\ AsCall(s).at = where /\ AsCall(s).how = "stream"
      /\ AsCall(s).told = told /\ AsCall(s).left = n
  BY DEF Rec
<1>3. IF told THEN Calls(o)!Booked(s) /\ Due(o)' = Due(o) /\ Back(o)' = Back(o)
              ELSE Calls(o)!Forgotten(s)
  BY <1>1, <1>2 DEF Calls!Booked, Calls!Forgotten, Book, Purse, Due, Back
<1>4. CASE where = "talking"
  <2>1. Calls(o)!Over(s, "raised") = Rec("raised", 0, FALSE, FALSE)
    BY <1>1, <1>2 DEF Calls!Over, Calls!On, Calls!Fresh, Book, Rec
  <2>2. Book(o)' = [Book(o) EXCEPT ![s] = Calls(o)!Over(s, "raised")] BY <1>4, <2>1 DEF Turns
  <2>3. "stream" # "batch" OBVIOUS
  <2> HIDE DEF o
  <2>4. Calls(o)!Fail(s)
    BY <1>1, <1>2, <1>3, <1>4, <2>2, <2>3 DEF Calls!Fail, Calls!Signing, Going, Book, Purse, Due, Back
  <2> QED BY <1>1, <2>4 DEF o, Calls!CallsStep, Calls!CallsNext, Calls!Move
<1>5. CASE where = "asking"
  <2>1. Calls(o)!Goes(s, n, Purse(o)') BY <1>2, <1>5, GoesIs
  <2>2. "stream" # "batch" OBVIOUS
  <2> HIDE DEF o
  <2>3. Calls(o)!Fail(s)
    BY <1>1, <1>2, <1>3, <1>5, <2>1, <2>2 DEF Calls!Fail, Calls!Signing, Going, Book, Purse, Due, Back
  <2> QED BY <1>1, <2>3 DEF o, Calls!CallsStep, Calls!CallsNext, Calls!Move
<1> QED BY <1>4, <1>5 DEF Going

\* How a stream looks as a call.
LEMMA CallIs ==
    ASSUME NEW s
    PROVE  /\ Active(s) =>
                AsCall(s) = Rec(IF streamed[s] THEN "talking" ELSE "asking",
                                Len(Ranking[s]) - at[s], committed[s], Current(s) \in mirrored)
           /\ committed[s] = FALSE =>
                /\ stage[s] = "idle" => AsCall(s) = Rec("looking", 0, FALSE, FALSE)
                /\ stage[s] = "done" => AsCall(s) = Rec("done", 0, FALSE, FALSE)
                /\ stage[s] = "failed" => AsCall(s) = Rec("raised", 0, FALSE, FALSE)
                /\ stage[s] \in Left => AsCall(s) = Rec(stage[s], 0, FALSE, FALSE)
<1>1. CASE Active(s)
  <2>1. stage[s] \notin {"idle", "done", "failed"} \cup Left BY <1>1 DEF Active, Left
  <2>2. Progress(s) = IF streamed[s] THEN "talking" ELSE "asking" BY <1>1, <2>1 DEF Progress
  <2> QED BY <1>1, <2>1, <2>2 DEF AsCall, Rec
<1>2. ASSUME ~Active(s), committed[s] = FALSE
      PROVE  AsCall(s) = Rec(Progress(s), 0, FALSE, FALSE)
  BY <1>2 DEF AsCall, Rec
<1>3. CASE ~Active(s)
  <2>1. /\ stage[s] = "idle" => Progress(s) = "looking"
        /\ stage[s] = "done" => Progress(s) = "done"
        /\ stage[s] = "failed" => Progress(s) = "raised"
        /\ stage[s] \in Left => Progress(s) = stage[s]
    BY <1>3 DEF Progress, Left
  <2> QED BY <1>2, <1>3, <2>1
<1> QED BY <1>1, <1>3

LEMMA CallIsNext ==
    ASSUME NEW s
    PROVE  /\ Active(s)' =>
                AsCall(s)' = Rec(IF streamed'[s] THEN "talking" ELSE "asking",
                                 Len(Ranking[s]) - at'[s], committed'[s],
                                 Current(s)' \in mirrored')
           /\ committed'[s] = FALSE =>
                /\ stage'[s] = "idle" => AsCall(s)' = Rec("looking", 0, FALSE, FALSE)
                /\ stage'[s] = "done" => AsCall(s)' = Rec("done", 0, FALSE, FALSE)
                /\ stage'[s] = "failed" => AsCall(s)' = Rec("raised", 0, FALSE, FALSE)
                /\ stage'[s] \in Left => AsCall(s)' = Rec(stage'[s], 0, FALSE, FALSE)
<1>1. CASE Active(s)'
  <2>1. stage'[s] \notin {"idle", "done", "failed"} \cup Left BY <1>1 DEF Active, Left
  <2>2. Progress(s)' = IF streamed'[s] THEN "talking" ELSE "asking" BY <1>1, <2>1 DEF Progress
  <2> QED BY <1>1, <2>1, <2>2 DEF AsCall, Rec
<1>2. ASSUME ~Active(s)', committed'[s] = FALSE
      PROVE  AsCall(s)' = Rec(Progress(s)', 0, FALSE, FALSE)
  BY <1>2 DEF AsCall, Rec
<1>3. CASE ~Active(s)'
  <2>1. /\ stage'[s] = "idle" => Progress(s)' = "looking"
        /\ stage'[s] = "done" => Progress(s)' = "done"
        /\ stage'[s] = "failed" => Progress(s)' = "raised"
        /\ stage'[s] \in Left => Progress(s)' = stage'[s]
    BY <1>3 DEF Progress, Left
  <2> QED BY <1>2, <1>3, <2>1
<1> QED BY <1>1, <1>3

\* What is known of a stream and its attempt.
LEMMA CallFacts ==
    ASSUME IInv, Paid, CInv, NEW s \in Session
    PROVE  /\ at[s] \in Nat /\ committed[s] \in BOOLEAN /\ streamed[s] \in BOOLEAN
           /\ Len(Ranking[s]) \in Nat /\ DOMAIN Ranking[s] = 1..Len(Ranking[s])
           /\ Len(Ranking[s]) \in 0..Cardinality(Attempt)
           /\ streamed[s] => committed[s]
           /\ Active(s) => /\ Current(s) \in Attempt /\ at[s] \in DOMAIN Ranking[s]
                           /\ Current(s) \in reported <=> committed[s]
                           /\ Current(s) \notin Lapsed
           /\ ~Active(s) => committed[s] = FALSE /\ streamed[s] = FALSE
           /\ stage[s] = "idle" => at[s] = 0
           /\ mirrored \subseteq inForce
           /\ s \in Streams(Owner[s])
           /\ \A k \in DOMAIN Ranking[s] : k > at[s] => <<s, k>> \notin mirrored
<1> USE DEF IInv, Paid, CInv
<1>1. at[s] \in Nat /\ committed[s] \in BOOLEAN /\ streamed[s] \in BOOLEAN BY DEF Shape, Told
<1>2. Len(Ranking[s]) \in Nat /\ DOMAIN Ranking[s] = 1..Len(Ranking[s])
  <2>1. Ranking[s] \in Seq(Provider) BY StreamAssumption
  <2> QED BY <2>1
<1>3. Len(Ranking[s]) \in 0..Cardinality(Attempt)
  <2> DEFINE D == {<<s, k>> : k \in DOMAIN Ranking[s]}
             f == [k \in DOMAIN Ranking[s] |-> <<s, k>>]
  <2>1. D \in SUBSET Attempt BY DEF Attempt
  <2>2. IsFiniteSet(D) /\ Cardinality(D) <= Cardinality(Attempt)
    BY <2>1, AttemptsFinite, FS_Subset
  <2>3. PICK n \in Nat : n = Len(Ranking[s]) BY <1>2
  <2>4. PICK one \in Int : one = 1 OBVIOUS
  <2>5. IsFiniteSet(one..n) /\ Cardinality(one..n) = IF one > n THEN 0 ELSE n - one + 1
    BY FS_Interval
  <2>6. IsFiniteSet(DOMAIN Ranking[s]) /\ Cardinality(DOMAIN Ranking[s]) = n
    BY <1>2, <2>3, <2>4, <2>5
  <2>7. f \in Bijection(DOMAIN Ranking[s], D)
    <3>1. f \in [DOMAIN Ranking[s] -> D] OBVIOUS
    <3>2. \A j, k \in DOMAIN Ranking[s] : f[j] = f[k] => j = k OBVIOUS
    <3>3. \A a \in D : \E k \in DOMAIN Ranking[s] : f[k] = a OBVIOUS
    <3> HIDE DEF f, D
    <3> QED BY <3>1, <3>2, <3>3 DEF Bijection, Injection, Surjection, IsInjective
  <2>8. Cardinality(D) = n
    <3> HIDE DEF f, D
    <3>1. ExistsBijection(DOMAIN Ranking[s], D) BY <2>7 DEF ExistsBijection
    <3>2. Cardinality(DOMAIN Ranking[s]) = Cardinality(D) BY <2>6, <3>1, FS_Bijection
    <3> QED BY <2>6, <3>2
  <2>9. Cardinality(Attempt) \in Nat BY AttemptsFinite, FS_CardinalityType
  <2> QED BY <2>2, <2>3, <2>8, <2>9
<1>4. (streamed[s] => committed[s]) /\ (committed[s] => Active(s) /\ Current(s) \in reported)
  BY DEF Told
<1>5. ASSUME Active(s)
      PROVE  /\ Current(s) \in Attempt /\ at[s] \in DOMAIN Ranking[s]
             /\ Current(s) \in reported <=> committed[s]
             /\ Current(s) \notin Lapsed
  BY <1>4, <1>5, CurrentTyped DEF InTurn, Heeded, Lapsed, Current
<1>6. stage[s] = "idle" => at[s] = 0 BY DEF InTurn
<1>7. s \in Streams(Owner[s]) BY DEF Streams
<1>8. \A k \in DOMAIN Ranking[s] : k > at[s] => <<s, k>> \notin mirrored
  BY DEF MirroredIsInForce, Untried
<1> QED BY <1>1, <1>2, <1>3, <1>4, <1>5, <1>6, <1>7, <1>8 DEF MirroredIsInForce

\* While its attempt goes on, a stream books and forgets nothing.
LEMMA GoingOnIsCall ==
    ASSUME IInv, Paid, CInv, NEW s \in Session, Active(s), Active(s)', Only(s),
           UNCHANGED <<at, mirrored>>, committed'[s] \in BOOLEAN, streamed'[s] \in BOOLEAN,
           committed[s] => committed'[s], streamed[s] => streamed'[s],
           streamed'[s] => committed'[s]
    PROVE  \A o \in Asker : Calls(o)!CallsStep
<1> DEFINE o == Owner[s]
<1>1. Lapsed' = Lapsed
  <2>1. \A k \in DOMAIN Ranking[s] : LapsedAt(s, k)' <=> LapsedAt(s, k)
    BY DEF LapsedAt, Only, Active, Current
  <2>2. Lapsed' = Lapsed \cup {} BY <2>1, LapsedMoves
  <2> QED BY <2>2
<1>2. Purse(o)' = Purse(o) /\ Due(o)' = Due(o) /\ Back(o)' = Back(o)
  BY <1>1 DEF Purse, Due, Back
<1>3. Current(s)' = Current(s) BY DEF Current
<1> DEFINE n == Len(Ranking[s]) - at[s]
           seen == Current(s) \in mirrored
<1>4. AsCall(s) = Rec(IF streamed[s] THEN "talking" ELSE "asking", n, committed[s], seen)
  BY CallIs
<1>5. AsCall(s)' = Rec(IF streamed'[s] THEN "talking" ELSE "asking", n, committed'[s], seen)
  BY <1>3, CallIsNext
<1>6. /\ s \in Streams(o) /\ committed[s] \in BOOLEAN /\ streamed[s] \in BOOLEAN
      /\ streamed[s] => committed[s]
  BY CallFacts
<1> HIDE DEF n, seen, Only
<1>7. ASSUME Book(o)' = [Book(o) EXCEPT ![s] = AsCall(s)'] PROVE Calls(o)!CallsStep
  <2>1. Turns(s) BY <1>6, <1>7 DEF Turns
  <2>2. CASE streamed'[s]
    <3>1. committed'[s] = TRUE BY <2>2
    <3>2. AsCall(s)' = Rec("talking", n, TRUE, seen) BY <1>5, <2>2, <3>1
    <3>3. PICK w \in Going :
             AsCall(s) = Rec(w, n, committed[s], seen) BY <1>4 DEF Going
    <3> QED BY <1>2, <2>1, <3>2, <3>3, SpeakIs
  <2>3. CASE ~streamed'[s] /\ committed'[s]
    <3>1. committed'[s] = TRUE BY <2>3
    <3>2. AsCall(s)' = Rec("asking", n, TRUE, seen) BY <1>5, <2>3, <3>1
    <3>3. AsCall(s) = Rec("asking", n, committed[s], seen) BY <1>4, <2>3
    <3> QED BY <1>2, <2>1, <3>2, <3>3, HearIs
  <2>4. CASE ~streamed'[s] /\ ~committed'[s]
    <3>1. committed'[s] = committed[s] BY <1>6, <2>4
    <3>2. AsCall(s)' = AsCall(s) BY <1>4, <1>5, <2>4, <3>1
    <3> QED BY <1>2, <2>1, <3>2, SameIs
  <2> QED BY <2>2, <2>3, <2>4
<1>8. Lapsed \subseteq Lapsed' /\ Lapsed' \subseteq Lapsed \cup {Current(s)} BY <1>1
<1> QED BY <1>7, <1>8, OwnerOnly

\* A call that finds providers hires the first, or ends.
LEMMA OpenIsCall ==
    ASSUME IInv, Paid, CInv, FlatPrices, NEW s \in Session, Open(s)
    PROVE  \A o \in Asker : Calls(o)!CallsStep
<1> DEFINE o == Owner[s]
           n == Len(Ranking[s])
<1>1. /\ stage[s] = "idle" /\ Try(s, 1, mirrored) /\ UNCHANGED <<mirrored, reported>>
      /\ ~Active(s)
  BY DEF Open, books, Active
<1>2. /\ at[s] = 0 /\ n \in Nat /\ DOMAIN Ranking[s] = 1..n /\ s \in Streams(o)
      /\ committed[s] = FALSE /\ n \in 0..Cardinality(Attempt)
  BY <1>1, CallFacts
<1>3. \A u \in Session : u # s => /\ stage'[u] = stage[u] /\ at'[u] = at[u]
                                  /\ committed'[u] = committed[u]
                                  /\ streamed'[u] = streamed[u]
  BY <1>1 DEF Try, Leave, IInv, Shape, CInv, Told
<1>4. Only(s) BY <1>1, <1>3 DEF Only
<1>5. /\ committed'[s] = FALSE /\ streamed'[s] = FALSE
      /\ IF MayHire(s, 1, mirrored) THEN stage'[s] = "reading" /\ at'[s] = 1
                                    ELSE stage'[s] = "failed" /\ at'[s] = 0
  BY <1>1, <1>2 DEF Try, Leave, IInv, Shape, CInv, Told
<1>6. MayHire(s, 1, mirrored) <=> n > 0 /\ Purse(o) >= Fare
  <2>1. 1 \in DOMAIN Ranking[s] <=> n > 0 BY <1>2
  <2>2. 1 \in DOMAIN Ranking[s] => Price[Seller(<<s, 1>>)] = Fare
    BY OneFare DEF Attempt
  <2> QED BY <2>1, <2>2 DEF MayHire, Purse
<1>7. Lapsed' = Lapsed
  <2>1. \A k \in DOMAIN Ranking[s] : k \in Nat /\ k >= 1 BY <1>2
  <2>2. \A k \in DOMAIN Ranking[s] : LapsedAt(s, k)' <=> LapsedAt(s, k)
    BY <1>1, <1>2, <1>5, <2>1 DEF LapsedAt, Active
  <2>3. Lapsed' = Lapsed \cup {} BY <1>4, <2>2, LapsedMoves
  <2> QED BY <2>3
<1>8. Purse(o)' = Purse(o) /\ Due(o)' = Due(o) /\ Back(o)' = Back(o)
  BY <1>1, <1>7 DEF Purse, Due, Back
<1>9. AsCall(s) = Rec("looking", 0, FALSE, FALSE) BY <1>1, <1>2, CallIs
<1>10. AsCall(s)' = IF n > 0 /\ Purse(o) >= Fare THEN Rec("asking", n - 1, FALSE, FALSE)
                                                 ELSE Rec("raised", 0, FALSE, FALSE)
  <2>1. CASE MayHire(s, 1, mirrored)
    <3>1. Active(s)' /\ Current(s)' = <<s, 1>> BY <1>5, <2>1 DEF Active, Current
    <3>2. <<s, 1>> \notin mirrored
      <4>1. 1 \in DOMAIN Ranking[s] /\ 1 > at[s] BY <1>2, <2>1 DEF MayHire
      <4>2. \A k \in DOMAIN Ranking[s] : k > at[s] => <<s, k>> \notin mirrored BY CallFacts
      <4> QED BY <4>1, <4>2
    <3>3. (Current(s)' \in mirrored') = FALSE BY <1>1, <3>1, <3>2
    <3>4. AsCall(s)' = Rec("asking", n - 1, FALSE, FALSE)
      BY <1>5, <2>1, <3>1, <3>3, CallIsNext
    <3> QED BY <1>6, <2>1, <3>4
  <2>2. CASE ~MayHire(s, 1, mirrored)
    <3>1. AsCall(s)' = Rec("raised", 0, FALSE, FALSE) BY <1>5, <2>2, CallIsNext
    <3> QED BY <1>6, <2>2, <3>1
  <2> QED BY <2>1, <2>2
<1>11. ASSUME Book(o)' = [Book(o) EXCEPT ![s] = AsCall(s)'] PROVE Calls(o)!CallsStep
  <2>1. Turns(s) BY <1>2, <1>11 DEF Turns
  <2> HIDE DEF n
  <2> QED BY <1>2, <1>8, <1>9, <1>10, <2>1, FindIs
<1>12. Lapsed \subseteq Lapsed' /\ Lapsed' \subseteq Lapsed \cup {Current(s)} BY <1>7
<1> HIDE DEF n
<1> QED BY <1>4, <1>11, <1>12, OwnerOnly

\* A stream that ends well is booked.
LEMMA CompleteIsCall ==
    ASSUME IInv, Paid, CInv, FlatPrices, NEW s \in Session, Complete(s)
    PROVE  \A o \in Asker : Calls(o)!CallsStep
<1> DEFINE o == Owner[s]
           seen == Current(s) \in mirrored
<1>1. /\ stage[s] = "reading" /\ Active(s) /\ UNCHANGED at
      /\ mirrored' = mirrored \cup {Current(s)} /\ reported' = reported \cup {Current(s)}
  BY DEF Complete, Leave, Active
<1>2. /\ stage' = [stage EXCEPT ![s] = "done"]
      /\ committed' = [committed EXCEPT ![s] = FALSE]
      /\ streamed' = [streamed EXCEPT ![s] = FALSE]
  BY DEF Complete, Leave
<1>3. /\ stage'[s] = "done" /\ ~Active(s)' /\ committed'[s] = FALSE
      /\ \A u \in Session : u # s => /\ stage'[u] = stage[u] /\ at'[u] = at[u]
                                     /\ committed'[u] = committed[u]
                                     /\ streamed'[u] = streamed[u]
  BY <1>1, <1>2 DEF IInv, Shape, CInv, Told, Active
<1>4. Only(s) BY <1>1, <1>3 DEF Only
<1>5. /\ Current(s) \in Attempt /\ Current(s) \notin Lapsed /\ s \in Streams(o)
      /\ mirrored \subseteq Attempt /\ Current(s)[1] = s
  BY <1>1, CallFacts DEF Paid, Known, Current
<1>6. Lapsed' = Lapsed
  <2>1. \A k \in DOMAIN Ranking[s] : LapsedAt(s, k)' <=> LapsedAt(s, k)
    BY <1>1, <1>3 DEF LapsedAt, Current, Left
  <2>2. Lapsed' = Lapsed \cup {} BY <1>4, <2>1, LapsedMoves
  <2> QED BY <2>2
<1>7. /\ Purse(o)' = IF seen THEN Purse(o) ELSE Purse(o) - Fare
      /\ Due(o)' = Due(o) /\ Back(o)' = Back(o)
  BY <1>1, <1>5, <1>6, BooksIt
<1>8. PICK w \in Going :
         AsCall(s) = Rec(w, Len(Ranking[s]) - at[s], committed[s], seen)
  BY <1>1, CallIs DEF Going
<1>9. AsCall(s)' = Rec("done", 0, FALSE, FALSE) BY <1>3, CallIsNext
<1> HIDE DEF seen
<1>10. ASSUME Book(o)' = [Book(o) EXCEPT ![s] = AsCall(s)'] PROVE Calls(o)!CallsStep
  <2>1. Turns(s) BY <1>5, <1>10 DEF Turns
  <2> DEFINE told == committed[s]
             m == Len(Ranking[s]) - at[s]
  <2>2. AsCall(s) = Rec(w, m, told, seen) BY <1>8
  <2> HIDE DEF told, m
  <2> QED BY <1>7, <1>9, <2>1, <2>2, FinishIs
<1>11. Lapsed \subseteq Lapsed' /\ Lapsed' \subseteq Lapsed \cup {Current(s)} BY <1>6
<1> QED BY <1>4, <1>10, <1>11, OwnerOnly

\* Of one that is cancelled or crashes nothing is booked.
LEMMA LeftIsCall ==
    ASSUME IInv, Paid, CInv, FlatPrices, NEW s \in Session, Cancel(s) \/ Crash(s)
    PROVE  \A o \in Asker : Calls(o)!CallsStep
<1> DEFINE o == Owner[s]
           seen == Current(s) \in mirrored
<1>0. PICK end \in Left : Abandon(s, end) BY DEF Cancel, Crash, Left
<1>1. Active(s) /\ UNCHANGED <<at, mirrored, reported>>
  BY <1>0 DEF Cancel, Crash, Abandon, Leave, Active, books
<1>2. /\ stage' = [stage EXCEPT ![s] = end]
      /\ committed' = [committed EXCEPT ![s] = FALSE]
      /\ streamed' = [streamed EXCEPT ![s] = FALSE]
  BY <1>0 DEF Abandon, Leave
<1>3. /\ stage'[s] = end /\ stage'[s] \in Left /\ ~Active(s)' /\ committed'[s] = FALSE
      /\ stage[s] \notin Left
      /\ \A u \in Session : u # s => /\ stage'[u] = stage[u] /\ at'[u] = at[u]
                                     /\ committed'[u] = committed[u]
                                     /\ streamed'[u] = streamed[u]
  BY <1>1, <1>2 DEF IInv, Shape, CInv, Told, Active, Left
<1>4. Only(s) BY <1>1, <1>3 DEF Only
<1>5. /\ Current(s) \in Attempt /\ Current(s) \notin Lapsed /\ s \in Streams(o)
      /\ mirrored \subseteq Attempt /\ Current(s)[1] = s /\ at[s] \in Nat
      /\ at[s] \in DOMAIN Ranking[s]
  BY <1>1, CallFacts DEF Paid, Known, Current
<1>6. Lapsed' = Lapsed \cup {Current(s)}
  <2>1. \A k \in DOMAIN Ranking[s] : LapsedAt(s, k)' <=> LapsedAt(s, k) \/ <<s, k>> \in {Current(s)}
    <3> SUFFICES ASSUME NEW k \in DOMAIN Ranking[s]
                 PROVE  LapsedAt(s, k)' <=> LapsedAt(s, k) \/ k = at[s]
      BY DEF Current
    <3>1. CASE k = at[s] BY <1>1, <1>3, <1>5, <3>1 DEF LapsedAt
    <3>2. CASE k # at[s] BY <1>1, <1>3, <3>2 DEF LapsedAt
    <3> QED BY <3>1, <3>2
  <2>2. {Current(s)} \in SUBSET {<<s, k>> : k \in DOMAIN Ranking[s]} BY <1>5 DEF Current
  <2> QED BY <1>4, <2>1, <2>2, LapsedMoves
<1>7. /\ Purse(o)' = Purse(o)
      /\ IF seen THEN Back(o)' = Back(o) + Fare /\ Due(o)' = Due(o)
                 ELSE Due(o)' = Due(o) + Fare /\ Back(o)' = Back(o)
  BY <1>1, <1>5, <1>6, ForgetsIt
<1>8. PICK w \in Going :
         AsCall(s) = Rec(w, Len(Ranking[s]) - at[s], committed[s], seen)
  BY <1>1, CallIs DEF Going
<1>9. AsCall(s)' = Rec(end, 0, FALSE, FALSE) BY <1>3, CallIsNext
<1> HIDE DEF seen
<1>10. ASSUME Book(o)' = [Book(o) EXCEPT ![s] = AsCall(s)'] PROVE Calls(o)!CallsStep
  <2>1. Turns(s) BY <1>5, <1>10 DEF Turns
  <2>2. CASE end = "cancelled" BY <1>7, <1>8, <1>9, <2>1, <2>2, CancelIs
  <2>3. CASE end = "crashed" BY <1>7, <1>8, <1>9, <2>1, <2>3, CrashIs
  <2> QED BY <2>2, <2>3 DEF Left
<1>11. Lapsed \subseteq Lapsed' /\ Lapsed' \subseteq Lapsed \cup {Current(s)} BY <1>6
<1> QED BY <1>4, <1>10, <1>11, OwnerOnly

\* An attempt that failed is booked if it is known to be paid, and the next
\* provider is hired with what is left.
LEMMA SettleIsCall ==
    ASSUME IInv, Paid, CInv, FlatPrices, NEW s \in Session, Settle(s)
    PROVE  \A o \in Asker : Calls(o)!CallsStep
<1> DEFINE o == Owner[s]
           c == Current(s)
           k == at[s] + 1
           n == Len(Ranking[s]) - at[s]
           seen == c \in mirrored
           hired == ~streamed[s] /\ MayHire(s, k, mirrored')
<1>1. /\ stage[s] = "closing" /\ Active(s) /\ UNCHANGED reported
      /\ mirrored' = IF committed[s] THEN mirrored \cup {c} ELSE mirrored
      /\ IF streamed[s] THEN Leave(s, "failed") ELSE Try(s, k, mirrored')
  BY DEF Settle, Active, Mirrored
<1>2. /\ at[s] \in Nat /\ committed[s] \in BOOLEAN /\ streamed[s] \in BOOLEAN
      /\ streamed[s] => committed[s]
      /\ Len(Ranking[s]) \in Nat /\ DOMAIN Ranking[s] = 1..Len(Ranking[s])
      /\ c \in Attempt /\ c \notin Lapsed /\ at[s] \in DOMAIN Ranking[s]
      /\ c \in reported <=> committed[s]
      /\ s \in Streams(o) /\ mirrored \subseteq Attempt /\ c[1] = s /\ c = <<s, at[s]>>
  BY <1>1, CallFacts DEF Paid, Known, Current
<1>3. /\ committed' = [committed EXCEPT ![s] = FALSE]
      /\ streamed' = [streamed EXCEPT ![s] = FALSE]
      /\ stage' = [stage EXCEPT ![s] = IF hired THEN "reading" ELSE "failed"]
      /\ at' = [at EXCEPT ![s] = IF hired THEN k ELSE at[s]]
  <2>1. CASE hired BY <1>1, <2>1 DEF Try
  <2>2. CASE ~hired
    <3>1. Leave(s, "failed") BY <1>1, <2>2 DEF Try
    <3>2. at' = [at EXCEPT ![s] = at[s]] BY <3>1 DEF Leave, IInv, Shape
    <3> QED BY <2>2, <3>1, <3>2 DEF Leave
  <2> QED BY <2>1, <2>2
<1> HIDE DEF hired
<1>4. /\ committed'[s] = FALSE /\ streamed'[s] = FALSE
      /\ stage'[s] = IF hired THEN "reading" ELSE "failed"
      /\ at'[s] = IF hired THEN k ELSE at[s]
      /\ \A u \in Session : u # s => /\ stage'[u] = stage[u] /\ at'[u] = at[u]
                                     /\ committed'[u] = committed[u]
                                     /\ streamed'[u] = streamed[u]
  BY <1>3 DEF IInv, Shape, CInv, Told
<1>5. Only(s) BY <1>1, <1>4 DEF Only
<1> DEFINE A == IF committed[s] THEN {} ELSE {c}
<1>6. Lapsed' = Lapsed \cup A
  <2>1. ASSUME NEW j \in DOMAIN Ranking[s]
        PROVE  LapsedAt(s, j)' <=> LapsedAt(s, j) \/ <<s, j>> \in A
    <3>1. j \in Nat BY <1>2
    <3>2. <<s, j>> \in A <=> ~committed[s] /\ j = at[s] BY <1>2
    <3>3. LapsedAt(s, j) <=> j <= at[s] /\ j # at[s] /\ <<s, j>> \notin reported
      BY <1>1 DEF LapsedAt
    <3>4. LapsedAt(s, j)' <=> j <= at[s] /\ <<s, j>> \notin reported
      <4>1. CASE hired
        <5>1. Active(s)' /\ stage'[s] \notin Left /\ at'[s] = at[s] + 1
          BY <1>4, <4>1 DEF Active, Left
        <5> QED BY <1>1, <1>2, <3>1, <5>1 DEF LapsedAt
      <4>2. CASE ~hired
        <5>1. ~Active(s)' /\ stage'[s] \notin Left /\ at'[s] = at[s]
          BY <1>4, <4>2 DEF Active, Left
        <5> QED BY <1>1, <5>1 DEF LapsedAt
      <4> QED BY <4>1, <4>2
    <3>5. CASE j = at[s]
      <4>1. <<s, j>> \in reported <=> committed[s] BY <1>2, <3>5
      <4> QED BY <1>2, <3>1, <3>2, <3>3, <3>4, <3>5, <4>1
    <3>6. CASE j # at[s] BY <3>2, <3>3, <3>4, <3>6
    <3> QED BY <3>5, <3>6
  <2>2. A \in SUBSET {<<s, j>> : j \in DOMAIN Ranking[s]} BY <1>2
  <2> HIDE DEF A
  <2> QED BY <1>5, <2>1, <2>2, LapsedMoves
<1>7. committed[s] => /\ Purse(o)' = IF seen THEN Purse(o) ELSE Purse(o) - Fare
                      /\ Due(o)' = Due(o) /\ Back(o)' = Back(o)
  <2> SUFFICES ASSUME committed[s]
               PROVE  /\ Purse(o)' = IF seen THEN Purse(o) ELSE Purse(o) - Fare
                      /\ Due(o)' = Due(o) /\ Back(o)' = Back(o)
    OBVIOUS
  <2>1. mirrored' = mirrored \cup {c} /\ Lapsed' = Lapsed BY <1>1, <1>6
  <2> HIDE DEF c
  <2> QED BY <1>2, <2>1, BooksIt
<1>8. ~committed[s] =>
         /\ Purse(o)' = Purse(o)
         /\ IF seen THEN Back(o)' = Back(o) + Fare /\ Due(o)' = Due(o)
                    ELSE Due(o)' = Due(o) + Fare /\ Back(o)' = Back(o)
  <2> SUFFICES ASSUME ~committed[s]
               PROVE  /\ Purse(o)' = Purse(o)
                      /\ IF seen THEN Back(o)' = Back(o) + Fare /\ Due(o)' = Due(o)
                                 ELSE Due(o)' = Due(o) + Fare /\ Back(o)' = Back(o)
    OBVIOUS
  <2>1. mirrored' = mirrored /\ Lapsed' = Lapsed \cup {c} BY <1>1, <1>6
  <2> HIDE DEF c
  <2> QED BY <1>2, <2>1, ForgetsIt
<1> DEFINE w == IF streamed[s] THEN "talking" ELSE "asking"
<1>9. AsCall(s) = Rec(w, n, committed[s], seen) BY <1>1, CallIs
<1>10. hired <=> w = "asking" /\ n > 0 /\ Purse(o)' >= Fare
  <2>1. k \in DOMAIN Ranking[s] <=> n > 0 BY <1>2
  <2>2. k \in DOMAIN Ranking[s] => Price[Seller(<<s, k>>)] = Fare BY OneFare DEF Attempt
  <2>3. Purse(o)' = Balance(o, mirrored') BY DEF Purse
  <2>4. w = "asking" <=> ~streamed[s] OBVIOUS
  <2> HIDE DEF w, k, n
  <2> QED BY <2>1, <2>2, <2>3, <2>4 DEF hired, MayHire
<1>11. AsCall(s)' = IF hired THEN Rec("asking", n - 1, FALSE, FALSE)
                             ELSE Rec("raised", 0, FALSE, FALSE)
  <2>1. CASE hired
    <3>1. Active(s)' /\ Current(s)' = <<s, k>> BY <1>4, <2>1 DEF Active, Current
    <3>2. <<s, k>> \notin mirrored
      <4>1. k \in DOMAIN Ranking[s] /\ k > at[s] BY <1>2, <2>1 DEF hired, MayHire
      <4>2. \A j \in DOMAIN Ranking[s] : j > at[s] => <<s, j>> \notin mirrored BY CallFacts
      <4> QED BY <4>1, <4>2
    <3>3. <<s, k>> # c BY <1>2
    <3>4. (Current(s)' \in mirrored') = FALSE BY <1>1, <3>1, <3>2, <3>3
    <3>5. Len(Ranking[s]) - at'[s] = n - 1 BY <1>2, <1>4, <2>1
    <3>6. AsCall(s)' = Rec("asking", n - 1, FALSE, FALSE)
      <4> HIDE DEF n
      <4> QED BY <1>4, <2>1, <3>1, <3>4, <3>5, CallIsNext
    <3> QED BY <2>1, <3>6
  <2>2. CASE ~hired BY <1>4, <2>2, CallIsNext
  <2> QED BY <2>1, <2>2
<1>12. w \in Going BY DEF Going
<1> HIDE DEF n, w, seen, k, c, A
<1>13. ASSUME Book(o)' = [Book(o) EXCEPT ![s] = AsCall(s)'] PROVE Calls(o)!CallsStep
  <2>1. Turns(s) BY <1>2, <1>13 DEF Turns
  <2>2. AsCall(s)' = IF w = "asking" /\ n > 0 /\ Purse(o)' >= Fare
                     THEN Rec("asking", n - 1, FALSE, FALSE)
                     ELSE Rec("raised", 0, FALSE, FALSE)
    BY <1>10, <1>11
  <2> QED BY <1>2, <1>7, <1>8, <1>9, <1>12, <2>1, <2>2, FailIs
<1>14. Lapsed \subseteq Lapsed' /\ Lapsed' \subseteq Lapsed \cup {Current(s)}
  BY <1>6 DEF A, c
<1> QED BY <1>5, <1>13, <1>14, OwnerOnly

LEMMA PullIs ==
    ASSUME NEW o, Book(o)' = Book(o), Purse(o)' = Purse(o) - Fare,
           Back(o)' = Back(o) + Fare, Due(o)' = Due(o) - Fare, Due(o) >= Fare
    PROVE  Calls(o)!CallsStep
<1>1. Calls(o)!Pull BY DEF Calls!Pull, Book, Purse, Due, Back
<1> QED BY <1>1 DEF Calls!CallsStep, Calls!CallsNext

\* Gossip brings what was forgotten, or overtakes the frames; it brings nothing
\* else.
LEMMA GossipIsCall ==
    ASSUME IInv, Paid, CInv, FlatPrices, NEW a \in Attempt, Gossip(a)
    PROVE  \A o \in Asker : Calls(o)!CallsStep
<1>1. /\ a \in inForce /\ a \notin mirrored /\ mirrored' = mirrored \cup {a}
      /\ UNCHANGED <<stage, at, committed, streamed, reported>> /\ mirrored \subseteq Attempt
  BY DEF Gossip, caller, Paid, Known
<1>2. PICK s \in Session : \E k \in DOMAIN Ranking[s] : a = <<s, k>> BY DEF Attempt
<1>3. PICK k \in DOMAIN Ranking[s] : a = <<s, k>> BY <1>2
<1>4. /\ \A u : Active(u)' = Active(u) /\ Current(u)' = Current(u) /\ Progress(u)' = Progress(u)
      /\ Lapsed' = Lapsed
  BY <1>1 DEF Active, Current, Progress, Lapsed, Abandoned
<1>5. \A u \in Session : Current(u) # a => AsCall(u)' = AsCall(u)
  BY <1>1, <1>4 DEF AsCall
<1>6. CASE a \in Lapsed
  <2>1. \A u \in Session : AsCall(u)' = AsCall(u)
    <3> SUFFICES ASSUME NEW u \in Session, Current(u) = a PROVE AsCall(u)' = AsCall(u)
      BY <1>5
    <3>1. ~Active(u) BY <1>6 DEF Lapsed, Current
    <3> QED BY <1>1, <1>4, <3>1 DEF AsCall
  <2>2. \A o : Book(o)' = Book(o) BY <2>1 DEF Book, Streams
  <2>3. ASSUME NEW o, Owner[a[1]] = o PROVE Calls(o)!CallsStep
    <3>1. /\ Purse(o)' = Purse(o) - Fare /\ Back(o)' = Back(o) + Fare
          /\ Due(o)' = Due(o) - Fare /\ Due(o) >= Fare
      BY <1>1, <1>4, <1>6, <2>3, PullsIt
    <3> QED BY <2>2, <3>1, PullIs
  <2>4. ASSUME NEW o, Owner[a[1]] # o PROVE Calls(o)!CallsStep
    <3>1. Purse(o)' = Purse(o) /\ Due(o)' = Due(o) /\ Back(o)' = Back(o)
      BY <1>1, <1>4, <2>4, OthersKeep
    <3> QED BY <2>2, <3>1, Stutters
  <2> QED BY <2>3, <2>4
<1>7. CASE a \notin Lapsed
  <2> DEFINE o == Owner[s]
  <2>1. k \in Nat /\ at[s] \in Nat /\ s \in Streams(o)
    <3>1. DOMAIN Ranking[s] = 1..Len(Ranking[s]) /\ at[s] \in Nat /\ s \in Streams(o)
      BY CallFacts
    <3> QED BY <3>1
  <2>2. k <= at[s] BY <1>1, <1>3, <2>1 DEF CInv, Untried
  <2>3. a[1] = s /\ a[2] = k BY <1>3
  <2>4. Active(s) /\ a = Current(s)
    <3> SUFFICES ASSUME ~(Active(s) /\ a = Current(s)) PROVE FALSE OBVIOUS
    <3>1. a \in reported /\ a \notin Abandoned BY <1>7, <2>2, <2>3 DEF Lapsed
    <3>2. a = Current(s) /\ stage[s] \in Left
      BY <1>1, <2>3, <3>1 DEF Paid, Booked
    <3> QED BY <3>1, <3>2 DEF Abandoned
  <2>5. Only(s) BY <1>1, <2>4 DEF Only
  <2>6. /\ Purse(o)' = Purse(o) - Fare /\ Due(o)' = Due(o) /\ Back(o)' = Back(o)
    BY <1>1, <1>4, <1>7, <2>3, BooksIt
  <2> DEFINE told == committed[s]
             n == Len(Ranking[s]) - at[s]
             w == IF streamed[s] THEN "talking" ELSE "asking"
  <2>7. AsCall(s) = Rec(w, n, told, FALSE)
    <3>1. (Current(s) \in mirrored) = FALSE BY <1>1, <2>4
    <3> QED BY <2>4, <3>1, CallIs
  <2>8. AsCall(s)' = Rec(w, n, told, TRUE)
    <3>1. (Current(s)' \in mirrored') = TRUE BY <1>1, <1>4, <2>4
    <3>2. AsCall(s)' = Rec(w, n, told, Current(s)' \in mirrored')
      BY <1>1, <1>4, <2>4, CallIsNext
    <3> QED BY <3>1, <3>2
  <2>9. told \in BOOLEAN /\ w \in Going BY CallFacts DEF Going
  <2> HIDE DEF told, n, w
  <2>10. ASSUME Book(o)' = [Book(o) EXCEPT ![s] = AsCall(s)'] PROVE Calls(o)!CallsStep
    <3>1. Turns(s) BY <2>1, <2>10 DEF Turns
    <3> QED BY <2>6, <2>7, <2>8, <2>9, <3>1, SeeIs
  <2> QED BY <1>4, <2>5, <2>10, OwnerOnly
<1> QED BY <1>6, <1>7

LEMMA QuietIsCall ==
    ASSUME UNCHANGED <<caller, mirrored, reported>>
    PROVE  \A o \in Asker : Calls(o)!CallsStep
<1>1. /\ \A u : AsCall(u)' = AsCall(u)
      /\ Lapsed' = Lapsed
  BY DEF caller, AsCall, Active, Current, Progress, Lapsed, Abandoned
<1>2. ASSUME NEW o PROVE Calls(o)!CallsStep
  <2>1. Book(o)' = Book(o) BY <1>1 DEF Book, Streams
  <2>2. Purse(o)' = Purse(o) /\ Due(o)' = Due(o) /\ Back(o)' = Back(o)
    BY <1>1 DEF Purse, Due, Back
  <2> QED BY <2>1, <2>2, Stutters
<1> QED BY <1>2

\* The other steps of a stream whose attempt goes on.
LEMMA ReadIsCall ==
    ASSUME IInv, Paid, CInv, NEW s \in Session, Read(s) \/ GiveUp(s) \/ Stall(s)
    PROVE  \A o \in Asker : Calls(o)!CallsStep
<1>0. /\ committed \in [Session -> BOOLEAN] /\ streamed \in [Session -> BOOLEAN]
      /\ stage \in [Session -> {"idle", "reading", "closing"} \cup Over]
  BY DEF IInv, Shape, CInv, Told
<1>1. /\ stage[s] = "reading" /\ UNCHANGED <<at, mirrored>>
      /\ reported \subseteq reported' /\ reported' \subseteq reported \cup {Current(s)}
      /\ UNCHANGED stage \/ stage' = [stage EXCEPT ![s] = "closing"]
  BY DEF Read, GiveUp, Stall, books
<1>2. PICK c \in BOOLEAN, h \in BOOLEAN :
         /\ committed' = [committed EXCEPT ![s] = c] /\ streamed' = [streamed EXCEPT ![s] = h]
         /\ committed[s] => c
         /\ streamed[s] => h
         /\ h => c
  <2>1. committed[s] \in BOOLEAN /\ streamed[s] \in BOOLEAN /\ (streamed[s] => committed[s])
    BY CallFacts
  <2>2. CASE Read(s)
    <3>1. PICK h \in BOOLEAN : /\ streamed' = [streamed EXCEPT ![s] = h]
                               /\ streamed[s] => h
      BY <1>0, <2>1, <2>2 DEF Read
    <3>2. committed' = [committed EXCEPT ![s] = TRUE] /\ TRUE \in BOOLEAN BY <2>2 DEF Read
    <3> QED BY <3>1, <3>2
  <2>3. CASE GiveUp(s)
    <3>1. PICK c \in BOOLEAN : /\ committed' = [committed EXCEPT ![s] = c]
                               /\ committed[s] => c
      BY <1>0, <2>1, <2>3 DEF GiveUp, Tells
    <3>2. streamed' = [streamed EXCEPT ![s] = streamed[s]] BY <1>0, <2>3 DEF GiveUp
    <3> QED BY <2>1, <3>1, <3>2
  <2>4. CASE Stall(s)
    <3>1. /\ committed' = [committed EXCEPT ![s] = committed[s]]
          /\ streamed' = [streamed EXCEPT ![s] = streamed[s]]
      BY <1>0, <2>4 DEF Stall
    <3> QED BY <2>1, <3>1
  <2> QED BY <2>2, <2>3, <2>4
<1>3. /\ Active(s) /\ Active(s)'
      /\ \A u \in Session : u # s => stage'[u] = stage[u]
  BY <1>0, <1>1 DEF Active
<1>4. Only(s) BY <1>0, <1>1, <1>2, <1>3 DEF Only
<1>5. /\ committed'[s] \in BOOLEAN /\ streamed'[s] \in BOOLEAN
      /\ committed[s] => committed'[s]
      /\ streamed[s] => streamed'[s]
      /\ streamed'[s] => committed'[s]
  BY <1>0, <1>2
<1> QED BY <1>1, <1>3, <1>4, <1>5, GoingOnIsCall

LEMMA NextIsCall ==
    ASSUME IInv, Paid, CInv, FlatPrices, [Next]_vars
    PROVE  \A o \in Asker : Calls(o)!CallsStep
<1>1. ASSUME NEW s \in Session, Open(s) \/ Consume(s) \/ Cancel(s) \/ Crash(s)
      PROVE  \A o \in Asker : Calls(o)!CallsStep
  BY <1>1, OpenIsCall, ReadIsCall, CompleteIsCall, SettleIsCall, LeftIsCall DEF Consume
<1>2. ASSUME NEW s \in Session, Cut(s) \/ RelayFails(s)
      PROVE  \A o \in Asker : Calls(o)!CallsStep
  BY <1>2, QuietIsCall DEF Cut, RelayFails, books
<1>3. ASSUME NEW a \in Attempt, Gossip(a)
      PROVE  \A o \in Asker : Calls(o)!CallsStep
  BY <1>3, GossipIsCall
<1>4. ASSUME NEW s, NEW k, \/ Witness(s, k) \/ Serve(s, k) \/ Warm(s, k) \/ Talk(s, k)
      PROVE  \A o \in Asker : Calls(o)!CallsStep
  <2>1. UNCHANGED <<caller, mirrored, reported>>
    BY <1>4 DEF Witness, Serve, Warm, Talk, Refuse, Commit, Begin, Finish, Block, HangUp, books
  <2> QED BY <2>1, QuietIsCall
<1>5. CASE UNCHANGED vars BY <1>5, QuietIsCall DEF vars, books
<1> QED BY <1>1, <1>2, <1>3, <1>4, <1>5 DEF Next

LEMMA InitIsCalls ==
    ASSUME Init, NEW o \in Asker
    PROVE  Calls(o)!OneCallEach("stream")
<1>1. \A s \in Session : AsCall(s) = Rec("looking", 0, FALSE, FALSE)
  BY CallIs DEF Init
<1>2. Lapsed = {} /\ mirrored = {}
  <2>1. mirrored = {} /\ \A s \in Session : at[s] = 0 BY DEF Init
  <2>2. ASSUME NEW s \in Session, NEW k \in DOMAIN Ranking[s] PROVE <<s, k>> \notin Lapsed
    <3>1. Ranking[s] \in Seq(Provider) BY StreamAssumption
    <3>2. k \in Nat /\ k >= 1 BY <3>1
    <3> QED BY <2>1, <3>2 DEF Lapsed
  <2>3. Lapsed = {}
    <3>1. \A s \in Session : \A k \in DOMAIN Ranking[s] : <<s, k>> \in Lapsed <=> <<s, k>> \in {}
      BY <2>2
    <3>2. {} \in SUBSET Attempt OBVIOUS
    <3> QED BY <3>1, <3>2, LapsedTyped, AttemptsAgree
  <2> QED BY <2>1, <2>3
<1>3. Total({}) = 0
  <2>1. Credits({}) = {} BY DEF Credits
  <2> QED BY <2>1, FS_EmptySet DEF Total
<1>4. Of(o, {}) = {} BY DEF Of
<1>5. Due(o) = 0 /\ Back(o) = 0
  <2>1. Lapsed \ mirrored = {} /\ Lapsed \cap mirrored = {} BY <1>2
  <2> QED BY <1>3, <1>4, <2>1 DEF Due, Back
<1>6. Purse(o) = StartBalance
  <2>1. StartBalance \in Nat BY StreamAssumption
  <2> QED BY <1>2, <1>3, <1>4, <2>1 DEF Purse, Balance
<1>7. Book(o) = [s \in Streams(o) |-> Rec("looking", 0, FALSE, FALSE)]
  BY <1>1 DEF Book, Streams
<1> QED BY <1>5, <1>6, <1>7
        DEF Calls!OneCallEach, Calls!Begun, Calls!Fresh, Book, Purse, Due, Back, Rec

\* With equal prices, what a node's streams do to its account is what the calls
\* of ConsumerCalls do, for every set of streams, ranking, owner and bound:
\* failover, receipts, gossip that overtakes the frames and requests that get
\* through late are all there is, and every payment is signed on a balance that
\* covers it.
THEOREM StreamsImplementCalls ==
    ASSUME FlatPrices
    PROVE  Spec => ImplementsCalls
<1>1. Init => \A o \in Asker : Calls(o)!OneCallEach("stream") BY InitIsCalls
<1>2. IInv /\ Paid /\ CInv /\ [Next]_vars => \A o \in Asker : Calls(o)!CallsStep
  BY NextIsCall
<1>3. IInv /\ Paid /\ CInv /\ [Next]_vars => [\A o \in Asker : Calls(o)!CallsStep]_vars
  BY <1>2
<1> QED BY <1>1, <1>3, CallInvariance, PTL DEF Spec, ImplementsCalls
=============================================================================
