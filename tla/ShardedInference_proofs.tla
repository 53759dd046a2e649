----------------------- MODULE ShardedInference_proofs -----------------------
(***************************************************************************)
(* Theorems about sharded inference for every set of providers and liars,  *)
(* every number of layers, tokens and votes, and every listing.            *)
(*                                                                         *)
(* A provider is a candidate of a stage once, so there are no more wrong   *)
(* answers to a stage than liars that have left the candidates             *)
(* (LiesAreFew); and the slices of a plan join up (Joined), so a hidden    *)
(* state that was verified at every stage has passed through the layers    *)
(* one after the other (Covered).                                          *)
(***************************************************************************)
EXTENDS ShardedInference, FiniteSetTheorems, SequenceTheorems, WellFoundedInduction, TLAPS

Row == [who : Provider, price : Nat]

Slice == [who : Provider, price : Nat, from : Nat, to : Nat]

\* What a stage may be given and may answer.
Hidden == Seq(Nat \cup {Lie})

\* The books and the counters.
BooksTyped ==
    /\ balance \in Int /\ unseen \in Int /\ pulled \in Int /\ opening \in Int
    /\ spent \in Int /\ runs \in Nat

\* The generation.
RunTyped ==
    /\ stage \in -1..Len(plan) /\ plan \in Seq(Slice)
    /\ listing \in Seq(Row) /\ left \in Seq(Row)
    /\ token \in Nat /\ verified \in Nat
    /\ hidden \in Hidden /\ answers \in Seq(Hidden) /\ winner \in Hidden \cup {None}

Distinct(l) == \A i, j \in 1..Len(l) : l[i].who = l[j].who => i = j

\* The slices of a plan follow on one another, from the first layer to the last.
Joined ==
    /\ stage = -1 => plan # <<>>
    /\ plan # <<>> =>
        /\ plan[1].from = 0 /\ plan[Len(plan)].to = Layers
        /\ \A i \in 1..Len(plan) : plan[i].from <= plan[i].to
        /\ \A i \in 1..Len(plan) - 1 : plan[i].to = plan[i + 1].from

Wrong == {i \in 1..Len(answers) : answers[i] # Shard}

LiarsLeft == {p \in Liar : \E i \in 1..Len(left) : left[i].who = p}

\* A liar that is still a candidate has not answered.
LiesAreFew ==
    stage > 0 => Cardinality(Wrong) + Cardinality(LiarsLeft) <= Cardinality(Liar)

\* winner has a majority, and if any answer has one there is a winner.
WinnerWins ==
    stage > 0 =>
        /\ winner # None => Votes(winner) >= Majority
        /\ winner = None => \A a \in Hidden : Votes(a) < Majority

\* No more stages count as verified than have been run, and when all of them do
\* the hidden state is the layers so far.
Covered ==
    /\ stage > 0 /\ Cardinality(Liar) <= 1 =>
          /\ verified <= token * Len(plan) + (stage - 1)
          /\ verified = token * Len(plan) + (stage - 1) =>
                hidden = [i \in 1..plan[stage].from |-> i - 1]
          /\ Tokens > 0 => token < Tokens
    /\ stage = 1 => hidden = <<>>

\* The inductive invariant.
RInv ==
    /\ RunTyped /\ Distinct(listing) /\ Distinct(left)
    /\ Joined /\ LiesAreFew /\ WinnerWins /\ Covered /\ VerifiedIsWhole

IInv == RInv /\ BooksTyped /\ SpentIsCharged

-----------------------------------------------------------------------------
\* Arithmetic.

LEMMA MinOfTwo ==
    ASSUME NEW a \in Int, NEW b \in Int
    PROVE  Min({a, b}) = IF a <= b THEN a ELSE b
<1> DEFINE m == IF a <= b THEN a ELSE b
<1>1. m \in {a, b} /\ \A y \in {a, b} : m =< y OBVIOUS
<1>2. \A x \in {a, b} : (\A y \in {a, b} : x =< y) => x = m OBVIOUS
<1> QED BY <1>1, <1>2 DEF Min

LEMMA HasLeast ==
    ASSUME NEW S \in SUBSET Nat, S # {}
    PROVE  \E m \in S : \A n \in S : m <= n
<1> DEFINE R == OpToRel(<, Nat)
<1>1. IsWellFoundedOn(R, Nat) BY NatLessThanWellFounded
<1>2. \A m, n \in Nat : n < m => <<n, m>> \in R BY DEF OpToRel
<1> HIDE DEF R
<1>3. PICK m \in S : \A n \in S : <<n, m>> \notin R BY <1>1, WFMin
<1>4. ASSUME NEW n \in S PROVE m <= n
  <2>1. m \in Nat /\ n \in Nat /\ ~(n < m) BY <1>2, <1>3
  <2> QED BY <2>1
<1> QED BY <1>4

LEMMA HasGreatest ==
    ASSUME NEW S \in SUBSET Nat, S # {}, NEW b \in Nat, \A n \in S : n <= b
    PROVE  \E m \in S : \A n \in S : n <= m
<1> DEFINE U == {u \in Nat : \A n \in S : n <= u}
<1>1. b \in U OBVIOUS
<1>2. PICK m \in U : \A n \in U : m <= n
  <2>1. U \in SUBSET Nat /\ U # {} BY <1>1
  <2> HIDE DEF U
  <2> QED BY <2>1, HasLeast
<1>3. m \in S
  <2> SUFFICES ASSUME m \notin S PROVE FALSE OBVIOUS
  <2>1. PICK n \in S : TRUE OBVIOUS
  <2>2. n < m BY <2>1
  <2>3. m - 1 \in U BY <2>2
  <2> QED BY <1>2, <2>3
<1> QED BY <1>3

LEMMA LiarsFinite ==
    \A S \in SUBSET Liar : IsFiniteSet(S) /\ Cardinality(S) \in Nat
<1>1. IsFiniteSet(Liar) BY ShardAssumption, FS_Subset
<1> QED BY <1>1, FS_Subset, FS_CardinalityType

-----------------------------------------------------------------------------
\* Sequences.

LEMMA Joining ==
    ASSUME NEW T, NEW s \in Seq(T), NEW t \in Seq(T)
    PROVE  /\ s \o t \in Seq(T) /\ Len(s \o t) = Len(s) + Len(t)
           /\ \A j \in 1..Len(s) + Len(t) :
                 (s \o t)[j] = IF j <= Len(s) THEN s[j] ELSE t[j - Len(s)]
BY ConcatProperties

-----------------------------------------------------------------------------
\* Listings, plans and candidates.

\* Whoever may be asked is listed once.
LEMMA ListingsTyped ==
    ASSUME NEW l \in Listings
    PROVE  l \in Seq(Row) /\ Len(l) = Cardinality(Usable) /\ Distinct(l)
<1>1. PICK order \in SetToSeqs(Usable), prices \in [Usable -> {Price, 2 * Price}] :
         l = [i \in 1..Cardinality(Usable) |-> [who |-> order[i], price |-> prices[order[i]]]]
  BY DEF Listings
<1>2. Usable \in SUBSET Provider BY DEF Usable
<1>3. Cardinality(Usable) \in Nat BY <1>2, ShardAssumption, FS_Subset, FS_CardinalityType
<1>4. /\ order \in [1..Cardinality(Usable) -> Usable]
      /\ \A i, j \in 1..Cardinality(Usable) : i # j => order[i] # order[j]
  BY DEF SetToSeqs
<1> DEFINE n == Cardinality(Usable)
<1> HIDE DEF n
<1>5. \A u \in Usable : prices[u] \in Nat BY ShardAssumption
<1>6. \A i \in 1..n : /\ order[i] \in Usable /\ prices[order[i]] \in Nat
                      /\ [who |-> order[i], price |-> prices[order[i]]] \in Row
  BY <1>2, <1>4, <1>5 DEF n, Row
<1>7. l = [i \in 1..n |-> [who |-> order[i], price |-> prices[order[i]]]] BY <1>1 DEF n
<1>8. l \in Seq(Row) /\ Len(l) = n BY <1>3, <1>6, <1>7 DEF n
<1>9. Distinct(l) BY <1>4, <1>7, <1>8 DEF Distinct, n
<1> QED BY <1>8, <1>9 DEF n

\* The slices join up, whether the layers divide or not.
LEMMA SlicedJoins ==
    ASSUME NEW l \in Seq(Row), NEW n \in Nat, n > 0, n <= Len(l), n <= Layers
    PROVE  LET p == Sliced(l, n) IN
             /\ p \in Seq(Slice) /\ Len(p) > 0
             /\ p[1].from = 0 /\ p[Len(p)].to = Layers
             /\ \A i \in 1..Len(p) : p[i].from <= p[i].to
             /\ \A i \in 1..Len(p) - 1 : p[i].to = p[i + 1].from
<1>1. n > 0 /\ n <= Len(l) /\ n <= Layers OBVIOUS
<1>2. PICK base \in Nat, extra \in Nat :
         /\ base = Layers \div n /\ extra = Layers % n
         /\ Layers = n * base + extra /\ extra < n
  <2>1. Layers \in Int /\ n \in Int /\ n > 0 /\ Layers >= 0 BY <1>1, ShardAssumption
  <2>2. Layers \div n \in Nat /\ Layers % n \in Nat /\ Layers % n < n BY <2>1
  <2>3. PICK q \in Int, r \in Int : q = Layers \div n /\ r = Layers % n BY <2>2
  <2>4. Layers = n * q + r BY <2>1, <2>3
  <2> QED BY <2>2, <2>3, <2>4
<1> DEFINE From(i) == (i - 1) * base + (IF i - 1 < extra THEN i - 1 ELSE extra)
           p == Sliced(l, n)
<1>3. p = [i \in 1..n |-> [who |-> l[i].who, price |-> l[i].price,
                           from |-> From(i), to |-> From(i + 1)]]
  BY <1>1, <1>2 DEF Sliced
<1>4. ASSUME NEW i \in 1..n
      PROVE  From(i) \in Nat /\ From(i + 1) \in Nat /\ From(i) <= From(i + 1)
  <2>1. PICK k \in Nat : k = i - 1 OBVIOUS
  <2>2. PICK b \in Nat, c \in Nat :
           b = (i - 1) * base /\ c = ((i + 1) - 1) * base /\ c = b + base
    <3>1. k * base \in Nat /\ (k + 1) * base = k * base + base BY <1>2
    <3>2. (i + 1) - 1 = k + 1 BY <2>1
    <3> QED BY <2>1, <3>1, <3>2
  <2>3. /\ From(i) = b + (IF k < extra THEN k ELSE extra)
        /\ From(i + 1) = c + (IF k + 1 < extra THEN k + 1 ELSE extra)
    BY <2>1, <2>2
  <2> HIDE DEF From
  <2> QED BY <2>1, <2>2, <2>3
<1>5. From(1) = 0 /\ From(n + 1) = Layers
  <2>1. PICK z \in Nat : z = n * base BY <1>2
  <2>2. (1 - 1) * base = 0 /\ ((n + 1) - 1) * base = z
    <3>1. 1 - 1 = 0 /\ (n + 1) - 1 = n BY <1>1
    <3>2. 0 * base = 0 BY <1>2
    <3> QED BY <2>1, <3>1, <3>2
  <2>3. From(1) = 0 BY <1>2, <2>2
  <2>4. From(n + 1) = z + extra
    <3>1. (n + 1) - 1 = n /\ ~(n < extra) BY <1>2
    <3>2. From(n + 1) = ((n + 1) - 1) * base + extra BY <3>1
    <3> QED BY <2>2, <3>2
  <2> QED BY <1>2, <2>1, <2>3, <2>4
<1> HIDE DEF From, p
<1>6. \A i \in 1..n : l[i] \in Row BY <1>1
<1>7. \A i \in 1..n : [who |-> l[i].who, price |-> l[i].price,
                       from |-> From(i), to |-> From(i + 1)] \in Slice
  BY <1>4, <1>6 DEF Row, Slice
<1>8. p \in Seq(Slice) /\ Len(p) = n BY <1>3, <1>7
<1>9. \A i \in 1..n : p[i].from = From(i) /\ p[i].to = From(i + 1) BY <1>3
<1>10. \A i \in 1..n - 1 : i + 1 \in 1..n BY <1>1
<1>11. 1 \in 1..n /\ n \in 1..n BY <1>1
<1>12. p \in Seq(Slice) /\ Len(p) > 0 /\ p[1].from = 0 /\ p[Len(p)].to = Layers
  BY <1>1, <1>5, <1>8, <1>9, <1>11
<1>13. \A i \in 1..Len(p) : p[i].from <= p[i].to BY <1>4, <1>8, <1>9
<1>14. \A i \in 1..Len(p) - 1 : p[i].to = p[i + 1].from
  <2> SUFFICES ASSUME NEW i \in 1..n - 1 PROVE p[i].to = p[i + 1].from BY <1>8
  <2>1. i \in 1..n /\ i + 1 \in 1..n BY <1>1
  <2> QED BY <1>9, <2>1
<1> QED BY <1>12, <1>13, <1>14 DEF p

\* Nobody is a candidate twice.
LEMMA CandidatesDistinct ==
    ASSUME NEW i \in 1..Len(plan), plan \in Seq(Slice), NEW l \in Seq(Row), Distinct(l)
    PROVE  Candidates(i, l) \in Seq(Row) /\ Distinct(Candidates(i, l))
<1> DEFINE w == plan[i].who
           first == <<[who |-> w, price |-> plan[i].price]>>
           I == {k \in 1..Len(l) : l[k].who = w}
           rest == RemoveFirstMatch(l, LAMBDA r : r.who = w)
<1>1. Candidates(i, l) = first \o rest BY DEF Candidates
<1>2. plan[i] \in Slice OBVIOUS
<1>3. first \in Seq(Row) /\ Len(first) = 1 /\ first[1].who = w BY <1>2 DEF Slice, Row
<1>4. /\ rest \in Seq(Row) /\ Distinct(rest)
      /\ \A k \in 1..Len(rest) : rest[k].who # w
  <2>1. CASE I = {}
    <3>1. rest = l BY <2>1 DEF RemoveFirstMatch
    <3> QED BY <2>1, <3>1
  <2>2. CASE I # {}
    <3>1. PICK k \in 1..Len(l) : l[k].who = w BY <2>2
    <3>2. I = {k} BY <3>1 DEF Distinct
    <3>3. SelectInSeq(l, LAMBDA r : r.who = w) = k
      <4>1. SelectInSeq(l, LAMBDA r : r.who = w) = Min(I) BY <2>2 DEF SelectInSeq
      <4>2. Min({k}) = k BY DEF Min
      <4> QED BY <3>2, <4>1, <4>2
    <3>4. rest = SubSeq(l, 1, k - 1) \o SubSeq(l, k + 1, Len(l))
      BY <3>1, <3>3 DEF RemoveFirstMatch, RemoveAt
    <3> DEFINE A == SubSeq(l, 1, k - 1)
               B == SubSeq(l, k + 1, Len(l))
    <3>5. /\ A \in Seq(Row) /\ Len(A) = k - 1 /\ \A j \in 1..k - 1 : A[j] = l[j]
          /\ B \in Seq(Row) /\ Len(B) = Len(l) - k
          /\ \A j \in 1..Len(l) - k : B[j] = l[k + j]
      BY SubSeqProperties
    <3> HIDE DEF A, B
    <3>6. /\ rest \in Seq(Row) /\ Len(rest) = Len(l) - 1
          /\ \A j \in 1..Len(l) - 1 : rest[j] = IF j < k THEN l[j] ELSE l[j + 1]
      <4>1. k - 1 \in Nat /\ Len(l) - k \in Nat /\ Len(l) \in Nat OBVIOUS
      <4>2. rest = A \o B BY <3>4 DEF A, B
      <4>3. /\ A \o B \in Seq(Row) /\ Len(A \o B) = (k - 1) + (Len(l) - k)
            /\ \A j \in 1..(k - 1) + (Len(l) - k) :
                  (A \o B)[j] = IF j <= k - 1 THEN A[j] ELSE B[j - (k - 1)]
        <5>1. A \in Seq(Row) /\ B \in Seq(Row) BY <3>5
        <5>2. /\ A \o B \in Seq(Row) /\ Len(A \o B) = Len(A) + Len(B)
              /\ \A j \in 1..Len(A) + Len(B) :
                    (A \o B)[j] = IF j <= Len(A) THEN A[j] ELSE B[j - Len(A)]
          BY <5>1, Joining
        <5> QED BY <3>5, <5>2
      <4> HIDE DEF rest
      <4>4. rest \in Seq(Row) /\ Len(rest) = Len(l) - 1 BY <4>1, <4>2, <4>3
      <4>5. ASSUME NEW j \in 1..Len(l) - 1
            PROVE  rest[j] = IF j < k THEN l[j] ELSE l[j + 1]
        <5>1. (k - 1) + (Len(l) - k) = Len(l) - 1 BY <4>1
        <5>2. rest[j] = IF j <= k - 1 THEN A[j] ELSE B[j - (k - 1)] BY <4>2, <4>3, <5>1
        <5>3. CASE j < k
          <6>1. j \in 1..k - 1 BY <5>3
          <6> QED BY <3>5, <5>2, <6>1, <5>3
        <5>4. CASE ~(j < k)
          <6>1. j - (k - 1) \in 1..Len(l) - k /\ k + (j - (k - 1)) = j + 1 BY <5>4
          <6>2. B[j - (k - 1)] = l[k + (j - (k - 1))] BY <3>5, <6>1
          <6> QED BY <5>2, <5>4, <6>1, <6>2
        <5> QED BY <5>3, <5>4
      <4> QED BY <4>4, <4>5
    <3> HIDE DEF rest, I
    <3>7. ASSUME NEW j \in 1..Len(l) - 1 PROVE rest[j].who # w
      <4>1. PICK x \in 1..Len(l) : x = (IF j < k THEN j ELSE j + 1) OBVIOUS
      <4>2. x # k BY <4>1
      <4>3. rest[j] = l[x] BY <3>6, <4>1
      <4> QED BY <3>1, <4>2, <4>3 DEF Distinct
    <3>8. Distinct(rest)
      <4> SUFFICES ASSUME NEW a \in 1..Len(l) - 1, NEW b \in 1..Len(l) - 1,
                          rest[a].who = rest[b].who
                   PROVE  a = b
        BY <3>6 DEF Distinct
      <4>1. PICK x \in 1..Len(l), y \in 1..Len(l) :
               /\ x = (IF a < k THEN a ELSE a + 1) /\ y = (IF b < k THEN b ELSE b + 1)
        OBVIOUS
      <4>2. rest[a] = l[x] /\ rest[b] = l[y] BY <3>6, <4>1
      <4>3. x = y BY <4>2 DEF Distinct
      <4> QED BY <4>1, <4>3
    <3> QED BY <3>6, <3>7, <3>8
  <2> QED BY <2>1, <2>2
<1> DEFINE c == first \o rest
<1> HIDE DEF first, rest, w
<1>5. /\ c \in Seq(Row) /\ Len(c) = Len(rest) + 1
      /\ \A j \in 1..Len(c) : c[j] = IF j = 1 THEN first[1] ELSE rest[j - 1]
  <2>0. first \in Seq(Row) /\ rest \in Seq(Row) BY <1>3, <1>4
  <2>1. /\ c \in Seq(Row) /\ Len(c) = Len(first) + Len(rest)
        /\ \A j \in 1..Len(first) + Len(rest) :
              c[j] = IF j <= Len(first) THEN first[j] ELSE rest[j - Len(first)]
    BY <2>0, Joining
  <2> HIDE DEF c
  <2>2. /\ c \in Seq(Row) /\ Len(c) = 1 + Len(rest)
        /\ \A j \in 1..1 + Len(rest) : c[j] = IF j <= 1 THEN first[j] ELSE rest[j - 1]
    BY <1>3, <2>1
  <2>3. Len(rest) \in Nat BY <1>4
  <2> QED BY <2>2, <2>3
<1> HIDE DEF c
<1>6. Distinct(c)
  <2> SUFFICES ASSUME NEW a \in 1..Len(c), NEW b \in 1..Len(c), c[a].who = c[b].who
               PROVE  a = b
    BY DEF Distinct
  <2>0. Len(rest) \in Nat BY <1>4
  <2>a. ASSUME NEW j \in 1..Len(c), j # 1 PROVE c[j].who # c[1].who
    <3>1. PICK d \in 1..Len(rest) : d = j - 1 BY <1>5, <2>0, <2>a
    <3>2. c[j] = rest[d] BY <1>5, <2>a, <3>1
    <3>3. 1 \in 1..Len(c) BY <1>5, <2>0
    <3>4. c[1] = first[1] BY <1>5, <3>3
    <3> QED BY <1>3, <1>4, <3>2, <3>4
  <2>1. CASE a = 1 \/ b = 1 BY <2>a, <2>1
  <2>2. CASE a # 1 /\ b # 1
    <3>1. PICK x \in 1..Len(rest), y \in 1..Len(rest) : x = a - 1 /\ y = b - 1
      BY <1>5, <2>0, <2>2
    <3>2. rest[x].who = rest[y].who BY <1>5, <2>2, <3>1
    <3> QED BY <1>4, <3>1, <3>2 DEF Distinct
  <2> QED BY <2>1, <2>2
<1> QED BY <1>1, <1>5, <1>6 DEF c

-----------------------------------------------------------------------------
\* One stage.

\* Layers are added at the end, in order.
LEMMA ForwardTyped ==
    ASSUME NEW h \in Hidden, NEW m \in Nat, NEW n \in Nat, m <= n
    PROVE  /\ Forward(h, m, n) \in Hidden
           /\ h = [i \in 1..m |-> i - 1] => Forward(h, m, n) = [i \in 1..n |-> i - 1]
<1> DEFINE more == [i \in 1..(n - m) |-> m + i - 1]
           f == h \o more
<1>1. n - m \in Nat /\ \A i \in 1..(n - m) : m + i - 1 \in Nat OBVIOUS
<1>2. more \in Hidden /\ Len(more) = n - m /\ \A i \in 1..(n - m) : more[i] = m + i - 1
  <2>1. /\ more \in Seq(Nat \cup {Lie}) /\ DOMAIN more = 1..(n - m) BY <1>1, IsASeq
  <2> QED BY <1>1, <2>1 DEF Hidden
<1> HIDE DEF more
<1>3. /\ f \in Hidden /\ Len(f) = Len(h) + Len(more)
      /\ \A j \in 1..Len(h) + Len(more) :
            f[j] = IF j <= Len(h) THEN h[j] ELSE more[j - Len(h)]
  <2>1. h \in Seq(Nat \cup {Lie}) /\ more \in Seq(Nat \cup {Lie}) BY <1>2 DEF Hidden
  <2> QED BY <2>1, Joining DEF Hidden
<1> HIDE DEF f
<1>4. ASSUME h = [i \in 1..m |-> i - 1] PROVE f = [i \in 1..n |-> i - 1]
  <2>1. Len(h) = m
    <3>1. DOMAIN h = 1..m BY <1>4
    <3>2. h \in Seq(Nat \cup {Lie}) BY DEF Hidden
    <3> QED BY <3>1, <3>2, LenProperties
  <2>2. Len(f) = n BY <1>2, <1>3, <2>1
  <2>3. \A j \in 1..n : f[j] = j - 1
    <3> SUFFICES ASSUME NEW j \in 1..n PROVE f[j] = j - 1 OBVIOUS
    <3>1. m + (n - m) = n OBVIOUS
    <3>2. f[j] = IF j <= m THEN h[j] ELSE more[j - m] BY <1>2, <1>3, <2>1, <3>1
    <3>3. CASE j <= m
      <4>1. h[j] = j - 1 BY <1>4, <3>3
      <4> QED BY <3>2, <3>3, <4>1
    <3>4. CASE ~(j <= m)
      <4>1. j - m \in 1..(n - m) /\ m + (j - m) - 1 = j - 1 BY <3>4
      <4> QED BY <1>2, <3>2, <3>4, <4>1
    <3> QED BY <3>3, <3>4
  <2>4. f = [j \in 1..n |-> f[j]]
    <3>1. f \in Seq(Nat \cup {Lie}) BY <1>3 DEF Hidden
    <3> QED BY <2>2, <3>1
  <2> QED BY <2>3, <2>4
<1> QED BY <1>3, <1>4 DEF f, more, Forward

\* The right answer to a stage.
LEMMA ShardTyped ==
    ASSUME RInv, stage > 0
    PROVE  /\ stage \in 1..Len(plan) /\ plan[stage] \in Slice
           /\ plan[stage].from <= plan[stage].to
           /\ Shard \in Hidden
           /\ hidden = [i \in 1..plan[stage].from |-> i - 1]
                 => Shard = [i \in 1..plan[stage].to |-> i - 1]
<1>1. stage \in 1..Len(plan) /\ plan \in Seq(Slice) /\ hidden \in Hidden
  BY DEF RInv, RunTyped
<1>2. plan[stage] \in Slice BY <1>1
<1>3. plan[stage].from <= plan[stage].to BY <1>1 DEF RInv, Joined
<1>4. plan[stage].from \in Nat /\ plan[stage].to \in Nat BY <1>2 DEF Slice
<1> QED BY <1>1, <1>2, <1>3, <1>4, ForwardTyped DEF Shard

\* Votes are counted.
LEMMA VotesCounted ==
    ASSUME RInv
    PROVE  /\ IsFiniteSet(Wrong) /\ Cardinality(Wrong) \in Nat
           /\ \A a : Votes(a) \in Nat /\ Votes(a) <= Len(answers)
           /\ \A a : a # Shard => Votes(a) <= Cardinality(Wrong)
<1>1. answers \in Seq(Hidden) BY DEF RInv, RunTyped
<1>2. /\ Len(answers) \in Nat /\ DOMAIN answers = 1..Len(answers)
      /\ IsFiniteSet(1..Len(answers)) /\ Cardinality(1..Len(answers)) = Len(answers)
  <2>1. Len(answers) \in Nat /\ DOMAIN answers = 1..Len(answers) BY <1>1
  <2>2. PICK n \in Nat : n = Len(answers) BY <2>1
  <2>3. PICK one \in Nat : one = 1 OBVIOUS
  <2>4. IsFiniteSet(one..n) /\ Cardinality(one..n) = IF one > n THEN 0 ELSE n - one + 1
    BY FS_Interval
  <2> QED BY <2>1, <2>2, <2>3, <2>4
<1>3. IsFiniteSet(Wrong) /\ Cardinality(Wrong) \in Nat
  <2>1. Wrong \in SUBSET (1..Len(answers)) BY DEF Wrong
  <2> QED BY <1>2, <2>1, FS_Subset, FS_CardinalityType
<1>4. ASSUME NEW a PROVE Votes(a) \in Nat /\ Votes(a) <= Len(answers)
  <2> DEFINE V == {i \in DOMAIN answers : answers[i] = a}
  <2>1. V \in SUBSET (1..Len(answers)) BY <1>2
  <2>2. IsFiniteSet(V) /\ Cardinality(V) <= Len(answers) BY <1>2, <2>1, FS_Subset
  <2> QED BY <2>2, FS_CardinalityType DEF Votes
<1>5. ASSUME NEW a, a # Shard PROVE Votes(a) <= Cardinality(Wrong)
  <2> DEFINE V == {i \in DOMAIN answers : answers[i] = a}
  <2>1. V \in SUBSET Wrong BY <1>2, <1>5 DEF Wrong
  <2>2. Cardinality(V) <= Cardinality(Wrong) BY <1>3, <2>1, FS_Subset
  <2> QED BY <2>2 DEF Votes
<1> QED BY <1>3, <1>4, <1>5

\* One more answer is one more vote, for that answer.
LEMMA VoteCast ==
    ASSUME RInv, NEW out \in Hidden, answers' = Append(answers, out),
           UNCHANGED <<hidden, plan, stage>>
    PROVE  /\ answers' \in Seq(Hidden)
           /\ \A a : Votes(a)' = IF a = out THEN Votes(a) + 1 ELSE Votes(a)
           /\ Cardinality(Wrong') =
                 IF out = Shard THEN Cardinality(Wrong) ELSE Cardinality(Wrong) + 1
<1>1. answers \in Seq(Hidden) BY DEF RInv, RunTyped
<1> DEFINE n == Len(answers) + 1
<1>2. /\ answers' \in Seq(Hidden) /\ Len(answers) \in Nat
      /\ DOMAIN answers = 1..Len(answers) /\ DOMAIN answers' = 1..n /\ Len(answers') = n
      /\ \A i \in 1..Len(answers) : answers'[i] = answers[i]
      /\ answers'[n] = out
  BY <1>1
<1>3. 1..n = (1..Len(answers)) \cup {n} /\ n \notin 1..Len(answers) BY <1>2
<1> HIDE DEF n
<1>4. ASSUME NEW a PROVE Votes(a)' = IF a = out THEN Votes(a) + 1 ELSE Votes(a)
  <2> DEFINE V == {i \in DOMAIN answers : answers[i] = a}
             W == {i \in DOMAIN answers' : answers'[i] = a}
  <2>1. W = IF a = out THEN V \cup {n} ELSE V BY <1>2, <1>3
  <2>2. n \notin V BY <1>2, <1>3
  <2>3. IsFiniteSet(V)
    <3>1. IsFiniteSet(1..Len(answers))
      <4>1. PICK m \in Nat : m = Len(answers) BY <1>2
      <4>2. PICK one \in Nat : one = 1 OBVIOUS
      <4> QED BY <4>1, <4>2, FS_Interval
    <3>2. V \in SUBSET (1..Len(answers)) BY <1>2
    <3> QED BY <3>1, <3>2, FS_Subset
  <2> HIDE DEF V
  <2>4. Cardinality(V \cup {n}) = Cardinality(V) + 1 BY <2>2, <2>3, FS_AddElement
  <2> QED BY <2>1, <2>4 DEF Votes, V
<1>5. Shard' = Shard BY DEF Shard
<1>6. Wrong' = IF out = Shard THEN Wrong ELSE Wrong \cup {n} BY <1>2, <1>3, <1>5 DEF Wrong
<1>7. n \notin Wrong BY <1>3 DEF Wrong
<1>8. Cardinality(Wrong \cup {n}) = Cardinality(Wrong) + 1
  BY <1>7, VotesCounted, FS_AddElement
<1> QED BY <1>2, <1>4, <1>6, <1>8

\* The first candidate goes.
LEMMA CandidateGone ==
    ASSUME RInv, left # <<>>, left' = Tail(left)
    PROVE  /\ Head(left) \in Row
           /\ left' \in Seq(Row) /\ Distinct(left)'
           /\ Cardinality(LiarsLeft') =
                 IF Head(left).who \in Liar THEN Cardinality(LiarsLeft) - 1
                                            ELSE Cardinality(LiarsLeft)
<1> DEFINE w == Head(left).who
<1>1. left \in Seq(Row) /\ \A i, j \in 1..Len(left) : left[i].who = left[j].who => i = j
  BY DEF RInv, RunTyped, Distinct
<1>2. /\ Len(left) \in Nat \ {0} /\ Head(left) = left[1] /\ Head(left) \in Row
      /\ left' \in Seq(Row) /\ Len(left') = Len(left) - 1
      /\ \A i \in 1..Len(left') : left'[i] = left[i + 1]
  BY <1>1
<1>3. \A i \in 1..Len(left') : i + 1 \in 1..Len(left) /\ i + 1 # 1 BY <1>2
<1>4. Distinct(left)'
  <2> SUFFICES ASSUME NEW i \in 1..Len(left'), NEW j \in 1..Len(left'),
                      left'[i].who = left'[j].who
               PROVE  i = j
    BY DEF Distinct
  <2>1. i + 1 = j + 1 BY <1>1, <1>2, <1>3
  <2>2. i \in Nat /\ j \in Nat BY <1>2
  <2> QED BY <2>1, <2>2
<1>5. 1 \in 1..Len(left) /\ left[1].who = w BY <1>2
<1> HIDE DEF w
<1>6. LiarsLeft' = LiarsLeft \ {w}
  <2>1. ASSUME NEW p \in LiarsLeft' PROVE p \in LiarsLeft /\ p # w
    <3>1. PICK i \in 1..Len(left') : left'[i].who = p BY <2>1 DEF LiarsLeft
    <3>2. left[i + 1].who = p /\ i + 1 \in 1..Len(left) /\ i + 1 # 1 BY <1>2, <1>3, <3>1
    <3>3. p \in Liar BY <2>1 DEF LiarsLeft
    <3> QED BY <1>1, <1>5, <3>2, <3>3 DEF LiarsLeft
  <2>2. ASSUME NEW p \in LiarsLeft, p # w PROVE p \in LiarsLeft'
    <3>1. PICK i \in 1..Len(left) : left[i].who = p BY <2>2 DEF LiarsLeft
    <3>2. i # 1 BY <1>5, <2>2, <3>1
    <3>3. PICK k \in 1..Len(left') : i = k + 1
      <4>1. i - 1 \in 1..Len(left') /\ i = (i - 1) + 1 BY <1>2, <3>2
      <4> QED BY <4>1
    <3>4. left'[k].who = p BY <1>2, <3>1, <3>3
    <3>5. p \in Liar BY <2>2 DEF LiarsLeft
    <3> QED BY <3>4, <3>5 DEF LiarsLeft
  <2> QED BY <2>1, <2>2
<1>7. w \in Liar <=> w \in LiarsLeft BY <1>5 DEF LiarsLeft
<1>8. IsFiniteSet(LiarsLeft) BY LiarsFinite DEF LiarsLeft
<1>9. Cardinality(LiarsLeft \ {w}) =
         IF w \in LiarsLeft THEN Cardinality(LiarsLeft) - 1 ELSE Cardinality(LiarsLeft)
  BY <1>8, FS_RemoveElement
<1> QED BY <1>2, <1>4, <1>6, <1>7, <1>9 DEF w

\* Served, Unserved and Unaffordable, which go on to the next candidate, and
\* whatever leaves the stage alone.
LEMMA StageGoesOn ==
    ASSUME RInv,
           UNCHANGED <<stage, plan, listing, token, verified, hidden>>,
           \/ UNCHANGED <<left, answers, winner>>
           \/ stage > 0 /\ left # <<>> /\ left' = Tail(left) /\ UNCHANGED <<answers, winner>>
    PROVE  RInv'
<1> USE DEF RInv
<1>1. left' \in Seq(Row) /\ Distinct(left)'
  BY CandidateGone DEF RunTyped, Distinct
<1>2. RunTyped' BY <1>1 DEF RunTyped
<1>3. Distinct(listing)' /\ Joined' BY DEF Distinct, Joined
<1>4. Wrong' = Wrong BY DEF Wrong, Shard
<1>5. /\ Cardinality(LiarsLeft) \in Nat /\ Cardinality(LiarsLeft') \in Nat
      /\ Cardinality(LiarsLeft') <= Cardinality(LiarsLeft)
  <2>1. Cardinality(LiarsLeft) \in Nat BY LiarsFinite DEF LiarsLeft
  <2>2. Cardinality(LiarsLeft') \in Nat BY LiarsFinite DEF LiarsLeft
  <2>3. CASE left' = left
    <3>1. LiarsLeft' = LiarsLeft BY <2>3 DEF LiarsLeft
    <3> QED BY <2>1, <3>1
  <2>4. CASE left # <<>> /\ left' = Tail(left) BY <2>1, <2>2, <2>4, CandidateGone
  <2> QED BY <2>1, <2>2, <2>3, <2>4
<1>6. LiesAreFew'
  <2>1. Cardinality(Wrong) \in Nat /\ Cardinality(Liar) \in Nat BY VotesCounted, LiarsFinite
  <2> QED BY <1>4, <1>5, <2>1 DEF LiesAreFew
<1>7. WinnerWins' BY DEF WinnerWins, Votes, Majority, Needed
<1>8. Covered' /\ VerifiedIsWhole' BY DEF Covered, VerifiedIsWhole, Outside
<1> QED BY <1>1, <1>2, <1>3, <1>6, <1>7, <1>8

\* Served: a wrong answer is from a liar that was a candidate until then.
LEMMA ServedStep ==
    ASSUME RInv, Served
    PROVE  RInv'
<1> USE DEF RInv
<1>0. /\ stage > 0 /\ left # <<>> /\ left' = Tail(left)
      /\ UNCHANGED <<stage, plan, listing, token, verified, hidden>>
  BY DEF Served, Hiring
<1>1. PICK out \in Outputs(Head(left).who) :
         /\ answers' = Append(answers, out)
         /\ winner' = IF Votes(out) + 1 >= Majority THEN out ELSE winner
  BY DEF Served
<1>2. Shard \in Hidden /\ hidden \in Hidden BY <1>0, ShardTyped DEF RunTyped
<1>3. out \in Hidden /\ (out # Shard => Head(left).who \in Liar)
  <2>1. Append(hidden, Lie) \in Hidden BY <1>2 DEF Hidden
  <2> QED BY <1>2, <2>1 DEF Outputs
<1>4. left' \in Seq(Row) /\ Distinct(left)' BY <1>0, CandidateGone
<1>5. /\ answers' \in Seq(Hidden)
      /\ \A a : Votes(a)' = IF a = out THEN Votes(a) + 1 ELSE Votes(a)
      /\ Cardinality(Wrong') = IF out = Shard THEN Cardinality(Wrong) ELSE Cardinality(Wrong) + 1
  BY <1>0, <1>1, <1>3, VoteCast
<1>6. winner' \in Hidden \cup {None} BY <1>1, <1>3 DEF RunTyped
<1>7. RunTyped' BY <1>0, <1>4, <1>5, <1>6 DEF RunTyped
<1>8. Distinct(listing)' /\ Joined' BY <1>0 DEF Distinct, Joined
<1>9. LiesAreFew'
  <2>1. /\ Cardinality(Wrong) \in Nat /\ Cardinality(Liar) \in Nat
        /\ Cardinality(LiarsLeft) \in Nat
    BY VotesCounted, LiarsFinite DEF LiarsLeft
  <2>2. Cardinality(LiarsLeft') = IF Head(left).who \in Liar THEN Cardinality(LiarsLeft) - 1
                                                             ELSE Cardinality(LiarsLeft)
    BY <1>0, CandidateGone
  <2> QED BY <1>0, <1>3, <1>5, <2>1, <2>2 DEF LiesAreFew
<1>10. WinnerWins'
  <2>1. Majority \in Int /\ Majority' = Majority
    BY ShardAssumption DEF Majority, Needed
  <2>2. \A a : Votes(a) \in Nat BY VotesCounted
  <2>3. None \notin Hidden
    <3>1. None = <<-2>> /\ Lie = -1 BY DEF None, Lie
    <3>2. ASSUME None \in Hidden PROVE FALSE
      <4>1. None[1] \in Nat \cup {Lie} /\ None[1] = -2 BY <3>1, <3>2 DEF Hidden
      <4> QED BY <3>1, <4>1
    <3> QED BY <3>2
  <2>4. CASE Votes(out) + 1 >= Majority
    <3>1. winner' = out /\ winner' # None BY <1>1, <1>3, <2>3, <2>4
    <3>2. Votes(out)' >= Majority BY <1>5, <2>2, <2>4
    <3>3. Votes(winner)' >= Majority' 
      BY <3>1, <3>2, <2>1 DEF Votes
    <3> QED BY <3>1, <3>3 DEF WinnerWins
  <2>5. CASE ~(Votes(out) + 1 >= Majority)
    <3>1. winner' = winner BY <1>1, <2>5
    <3>2. ASSUME winner # None PROVE Votes(winner)' >= Majority
      <4>1. Votes(winner) >= Majority BY <1>0, <3>2 DEF WinnerWins
      <4>2. \A a : Votes(a) >= Majority => Votes(a)' >= Majority BY <1>5, <2>1, <2>2
      <4> QED BY <3>1, <4>1, <4>2 DEF Votes
    <3>3. ASSUME winner = None, NEW a \in Hidden PROVE Votes(a)' < Majority
      <4>1. Votes(a) < Majority BY <1>0, <3>3 DEF WinnerWins
      <4> QED BY <1>5, <2>1, <2>2, <2>5, <4>1
    <3> QED BY <2>1, <3>1, <3>2, <3>3 DEF WinnerWins
  <2> QED BY <2>4, <2>5
<1>11. Covered' /\ VerifiedIsWhole' BY <1>0 DEF Covered, VerifiedIsWhole, Outside
<1> QED BY <1>4, <1>7, <1>8, <1>9, <1>10, <1>11

\* What a stage goes on with is one of its answers.
LEMMA DecisionTyped ==
    ASSUME RInv, answers # <<>>, winner # None => winner \in Hidden
    PROVE  Decision \in Hidden
<1>1. answers \in Seq(Hidden) BY DEF RInv, RunTyped
<1>2. /\ Len(answers) \in Nat \ {0} /\ DOMAIN answers = 1..Len(answers)
      /\ \A i \in 1..Len(answers) : answers[i] \in Hidden
  BY <1>1
<1> DEFINE T == {Votes(answers[i]) : i \in 1..Len(answers)}
           B == {i \in DOMAIN answers :
                   \A j \in DOMAIN answers : Votes(answers[j]) <= Votes(answers[i])}
<1>3. B # {}
  <2>1. \A n \in T : n \in Nat /\ n <= Len(answers) BY VotesCounted
  <2>2. T # {} BY <1>2
  <2>3. PICK m \in T : \A n \in T : n <= m
    <3> HIDE DEF T
    <3>1. T \in SUBSET Nat BY <2>1
    <3> QED BY <1>2, <2>1, <2>2, <3>1, HasGreatest
  <2>4. PICK i \in 1..Len(answers) : m = Votes(answers[i]) BY <2>3
  <2>5. i \in B BY <1>2, <2>3, <2>4
  <2> QED BY <2>5
<1>4. Min(B) \in 1..Len(answers)
  <2>1. B \in SUBSET Nat /\ B \in SUBSET (1..Len(answers)) BY <1>2
  <2> HIDE DEF B
  <2>2. \E m \in B : \A n \in B : m <= n BY <1>3, <2>1, HasLeast
  <2>3. Min(B) \in B BY <2>2 DEF Min
  <2> QED BY <2>1, <2>3
<1> HIDE DEF B
<1>5. answers[Min(B)] \in Hidden BY <1>2, <1>4
<1> QED BY <1>5 DEF Decision, B

\* With one liar at most, two that agree are right.
LEMMA ConfirmedIsRight ==
    ASSUME RInv, stage > 0, Cardinality(Liar) <= 1, Confirmed
    PROVE  Decision = Shard
<1>1. Votes(Decision) >= 2 BY DEF Confirmed
<1>2. Cardinality(Wrong) <= 1
  <2>1. /\ Cardinality(Wrong) \in Nat /\ Cardinality(Liar) \in Nat
        /\ Cardinality(LiarsLeft) \in Nat
    BY VotesCounted, LiarsFinite DEF LiarsLeft
  <2> QED BY <2>1 DEF RInv, LiesAreFew
<1>3. \A a : Votes(a) \in Nat BY VotesCounted
<1>4. Cardinality(Wrong) \in Nat BY VotesCounted
<1>5. \A a : a # Shard => Votes(a) <= 1
  <2> SUFFICES ASSUME NEW a, a # Shard PROVE Votes(a) <= 1 OBVIOUS
  <2>1. Votes(a) <= Cardinality(Wrong) BY VotesCounted
  <2> QED BY <1>2, <1>3, <1>4, <2>1
<1>6. \A a : Votes(a) >= 2 => a = Shard BY <1>3, <1>5
<1> QED BY <1>1, <1>6

\* A stage with fresh candidates starts without answers.
LEMMA StageStarts ==
    ASSUME RInv, stage' \in 1..Len(plan), UNCHANGED plan,
           listing' \in Seq(Row), Distinct(listing)', left' = Candidates(stage', listing'),
           answers' = <<>>, winner' = None, hidden' \in Hidden,
           token' \in Nat, verified' \in Nat,
           Covered'
    PROVE  RInv'
<1> USE DEF RInv
<1>1. plan \in Seq(Slice) /\ Len(plan) \in Nat BY DEF RunTyped
<1>2. left' \in Seq(Row) /\ Distinct(left)'
  <2>1. Distinct(listing') BY DEF Distinct
  <2>2. Candidates(stage', listing') \in Seq(Row) /\ Distinct(Candidates(stage', listing'))
    BY <1>1, <2>1, CandidatesDistinct
  <2> QED BY <2>2 DEF Distinct
<1>3. answers' \in Seq(Hidden) /\ Len(answers') = 0 OBVIOUS
<1>4. RunTyped' BY <1>1, <1>2, <1>3 DEF RunTyped
<1>5. Joined' BY <1>1 DEF Joined
<1>6. LiesAreFew'
  <2>1. Wrong' = {} BY <1>3 DEF Wrong
  <2>2. LiarsLeft' \in SUBSET Liar BY DEF LiarsLeft
  <2>3. IsFiniteSet(Liar) /\ Cardinality(Liar) \in Nat BY LiarsFinite
  <2>4. Cardinality(LiarsLeft') <= Cardinality(Liar) BY <2>2, <2>3, FS_Subset
  <2>5. Cardinality(LiarsLeft') \in Nat BY <2>2, LiarsFinite
  <2>6. Cardinality(Wrong') = 0 BY <2>1, FS_EmptySet
  <2> QED BY <2>3, <2>4, <2>5, <2>6 DEF LiesAreFew
<1>7. WinnerWins'
  <2>1. Majority' \in Nat /\ Majority' > 0 BY ShardAssumption DEF Majority, Needed
  <2>2. \A a : Votes(a)' = 0
    <3>1. DOMAIN answers' = {} BY <1>3
    <3>2. \A a : {i \in DOMAIN answers' : answers'[i] = a} = {} BY <3>1
    <3> QED BY <3>2, FS_EmptySet DEF Votes
  <2>3. \A a \in Hidden : Votes(a)' < Majority' BY <2>1, <2>2
  <2> QED BY <2>3 DEF WinnerWins
<1>8. VerifiedIsWhole' BY DEF VerifiedIsWhole, Outside
<1> QED BY <1>2, <1>4, <1>5, <1>6, <1>7, <1>8

\* The plan is made before the listing is asked for again.
LEMMA MakePlanStep ==
    ASSUME RInv, MakePlan
    PROVE  RInv'
<1> USE DEF RInv
<1>1. /\ stage' = -1 /\ Cardinality(Usable) >= Min({2, Redundancy})
      /\ UNCHANGED <<listing, token, hidden, left, answers, winner, verified>>
  BY DEF MakePlan, vote
<1>2. PICK l \in Listings : \E n \in Stages(l) : plan' = Sliced(l, n) BY DEF MakePlan
<1>3. l \in Seq(Row) /\ Len(l) = Cardinality(Usable) BY ListingsTyped
<1>4. Len(l) > 0
  <2>1. Redundancy \in Int /\ Redundancy > 0 BY ShardAssumption
  <2>2. PICK two \in Nat : two = 2 OBVIOUS
  <2>3. Min({two, Redundancy}) = IF two <= Redundancy THEN two ELSE Redundancy
    BY <2>1, MinOfTwo
  <2>4. Len(l) \in Nat BY <1>3
  <2> QED BY <1>1, <1>3, <2>1, <2>2, <2>3, <2>4
<1>11. PICK n \in Nat : plan' = Sliced(l, n) /\ n > 0 /\ n <= Len(l) /\ n <= Layers
  <2>1. PICK m \in Nat : m = Min({Layers, Len(l)}) /\ m <= Len(l) /\ m <= Layers
    BY <1>3, <1>4, MinOfTwo, ShardAssumption
  <2>2. PICK n \in 1..m : plan' = Sliced(l, n) BY <1>2, <2>1 DEF Stages
  <2>3. n \in Nat /\ n > 0 /\ n <= m OBVIOUS
  <2>4. Len(l) \in Nat /\ Layers \in Nat BY <1>3, ShardAssumption
  <2>5. n <= Len(l) /\ n <= Layers BY <2>1, <2>3, <2>4
  <2> QED BY <2>2, <2>3, <2>5
<1>5. /\ plan' \in Seq(Slice) /\ Len(plan') > 0
      /\ plan'[1].from = 0 /\ plan'[Len(plan')].to = Layers
      /\ \A i \in 1..Len(plan') : plan'[i].from <= plan'[i].to
      /\ \A i \in 1..Len(plan') - 1 : plan'[i].to = plan'[i + 1].from
  BY <1>3, <1>11, SlicedJoins
<1>6. Len(plan') \in Nat BY <1>5
<1>7. RunTyped' BY <1>1, <1>5, <1>6 DEF RunTyped
<1>8. Joined' BY <1>1, <1>5 DEF Joined
<1>9. Distinct(listing)' /\ Distinct(left)' BY <1>1 DEF Distinct
<1>10. LiesAreFew' /\ WinnerWins' /\ Covered' /\ VerifiedIsWhole'
  BY <1>1 DEF LiesAreFew, WinnerWins, Covered, VerifiedIsWhole, Outside
<1> QED BY <1>7, <1>8, <1>9, <1>10

\* The hidden state starts empty, before the first layer.
LEMMA BeginStep ==
    ASSUME RInv, Begin
    PROVE  RInv'
<1> USE DEF RInv
<1>1. /\ stage = -1 /\ stage' = 1 /\ token' = 0 /\ hidden' = <<>> /\ answers' = <<>>
      /\ winner' = None /\ verified' = 0 /\ UNCHANGED plan
      /\ listing' \in Listings /\ left' = Candidates(1, listing')
  BY DEF Begin
<1>2. listing' \in Seq(Row) /\ Distinct(listing') BY <1>1, ListingsTyped
<1>3. plan \in Seq(Slice) /\ Len(plan) \in Nat /\ Len(plan) # 0 /\ plan[1].from = 0
  BY <1>1 DEF RunTyped, Joined
<1>4. hidden' \in Hidden BY <1>1 DEF Hidden
<1>5. Covered'
  <2>1. 0 * Len(plan) = 0 BY <1>3
  <2>2. hidden' = [i \in 1..plan[1].from |-> i - 1] BY <1>1, <1>3
  <2>3. Tokens > 0 => 0 < Tokens OBVIOUS
  <2> QED BY <1>1, <2>1, <2>2, <2>3 DEF Covered
<1>6. stage' \in 1..Len(plan) /\ Distinct(listing)' BY <1>1, <1>2, <1>3 DEF Distinct
<1> QED BY <1>1, <1>2, <1>4, <1>5, <1>6, StageStarts

\* The generation fails, in the middle of a token.
LEMMA FailStep ==
    ASSUME RInv, Fail \/ Broken
    PROVE  RInv'
<1> USE DEF RInv
<1>1. /\ stage > 0 /\ stage' = 0
      /\ UNCHANGED <<plan, listing, token, hidden, left, answers, winner, verified>>
  BY DEF Fail, Broken, Over, Hiring, vote
<1>2. RunTyped' BY <1>1 DEF RunTyped
<1>3. Distinct(listing)' /\ Distinct(left)' /\ Joined'
  <2>1. listing' = listing /\ left' = left /\ plan' = plan /\ stage' # -1 BY <1>1
  <2>2. Distinct(listing)' /\ Distinct(left)' BY <2>1 DEF Distinct
  <2>3. Joined' BY <2>1 DEF Joined
  <2> QED BY <2>2, <2>3
<1>4. LiesAreFew' /\ WinnerWins' /\ Covered' BY <1>1 DEF LiesAreFew, WinnerWins, Covered
<1>5. VerifiedIsWhole'
  <2>1. token \in Nat /\ Tokens \in Nat BY ShardAssumption DEF RunTyped
  <2> QED BY <1>1, <2>1 DEF Covered, VerifiedIsWhole
<1> QED BY <1>2, <1>3, <1>4, <1>5

\* The next stage, the next token or the end.
LEMMA AdvanceStep ==
    ASSUME RInv, Advance
    PROVE  RInv'
<1> USE DEF RInv
<1>1. /\ stage > 0 /\ answers # <<>> /\ UNCHANGED <<plan, listing>>
      /\ verified' = verified + (IF Confirmed THEN 1 ELSE 0)
      /\ answers' = <<>> /\ winner' = None
      /\ left' = IF stage' = 0 THEN <<>> ELSE Candidates(stage', listing)
      /\ IF stage < Len(plan)
         THEN stage' = stage + 1 /\ hidden' = Decision /\ UNCHANGED token
         ELSE /\ token' = token + 1
              /\ IF token + 1 < Tokens THEN stage' = 1 /\ hidden' = <<>>
                 ELSE stage' = 0 /\ hidden' = Decision
  BY DEF Advance, Over
<1>2. /\ stage \in 1..Len(plan) /\ Len(plan) \in Nat
      /\ token \in Nat /\ verified \in Nat /\ Tokens \in Nat
      /\ listing \in Seq(Row) /\ Distinct(listing)
  BY <1>1, ShardTyped, ShardAssumption DEF RunTyped
<1>3. Decision \in Hidden
  BY <1>1, DecisionTyped DEF RunTyped
<1>4. PICK m \in Nat : m = token * Len(plan) /\ (token + 1) * Len(plan) = m + Len(plan)
  <2>1. PICK n \in Nat : n = Len(plan) BY <1>2
  <2>2. token * n \in Nat /\ (token + 1) * n = token * n + n BY <1>2
  <2> QED BY <2>1, <2>2
\* What the stage adds, with one liar at most.
<1>5. ASSUME Cardinality(Liar) <= 1
      PROVE  /\ verified' \in Nat /\ verified' <= m + stage
             /\ verified' = m + stage => Decision = [i \in 1..plan[stage].to |-> i - 1]
             /\ Tokens > 0 => token < Tokens
  <2>1. /\ verified <= m + (stage - 1)
        /\ verified = m + (stage - 1) => hidden = [i \in 1..plan[stage].from |-> i - 1]
        /\ Tokens > 0 => token < Tokens
    BY <1>1, <1>4, <1>5 DEF Covered
  <2>2. CASE Confirmed
    <3>1. Decision = Shard BY <1>1, <1>5, <2>2, ConfirmedIsRight
    <3>2. hidden = [i \in 1..plan[stage].from |-> i - 1]
             => Shard = [i \in 1..plan[stage].to |-> i - 1]
      BY <1>1, ShardTyped
    <3>3. verified' = verified + 1 BY <1>1, <2>2
    <3>4. verified' = m + stage => verified = m + (stage - 1) BY <1>2, <3>3
    <3>5. verified' \in Nat /\ verified' <= m + stage BY <1>2, <2>1, <3>3
    <3> QED BY <2>1, <3>1, <3>2, <3>4, <3>5
  <2>3. CASE ~Confirmed
    <3>1. verified' = verified BY <1>1, <1>2, <2>3
    <3>2. verified' \in Nat /\ verified' < m + stage BY <1>2, <2>1, <3>1
    <3> QED BY <1>2, <2>1, <3>2
  <2> QED BY <2>2, <2>3
<1>6. verified' \in Nat BY <1>1, <1>2
<1>7. listing' \in Seq(Row) /\ Distinct(listing)' BY <1>1, <1>2 DEF Distinct
<1>8. CASE stage < Len(plan)
  <2>1. stage' = stage + 1 /\ hidden' = Decision /\ token' = token BY <1>1, <1>8
  <2>2. stage' \in 1..Len(plan) BY <1>2, <1>8, <2>1
  <2>3. plan[stage].to = plan[stage + 1].from
    <3>1. plan # <<>> BY <1>2
    <3>2. stage \in 1..Len(plan) - 1 BY <1>2, <1>8
    <3> QED BY <3>1, <3>2 DEF Joined
  <2>4. Covered'
    <3>1. ASSUME Cardinality(Liar) <= 1
          PROVE  /\ verified' <= token' * Len(plan') + (stage' - 1)
                 /\ verified' = token' * Len(plan') + (stage' - 1) =>
                       hidden' = [i \in 1..plan'[stage'].from |-> i - 1]
                 /\ Tokens > 0 => token' < Tokens
      <4>1. token' * Len(plan') + (stage' - 1) = m + stage BY <1>1, <1>2, <1>4, <2>1
      <4>2. plan'[stage'].from = plan[stage].to BY <1>1, <2>1, <2>3
      <4> QED BY <1>5, <2>1, <3>1, <4>1, <4>2
    <3>2. stage' # 1 BY <1>2, <2>1
    <3> QED BY <3>1, <3>2 DEF Covered
  <2>5. left' = Candidates(stage', listing') BY <1>1, <1>2, <2>2
  <2> QED BY <1>1, <1>2, <1>3, <1>6, <1>7, <2>1, <2>2, <2>4, <2>5, StageStarts
<1>9. CASE ~(stage < Len(plan)) /\ token + 1 < Tokens
  <2>1. stage' = 1 /\ hidden' = <<>> /\ token' = token + 1 BY <1>1, <1>9
  <2>2. stage = Len(plan) /\ stage' \in 1..Len(plan) BY <1>2, <1>9, <2>1
  <2>3. hidden' \in Hidden BY <2>1 DEF Hidden
  <2>4. plan[1].from = 0
    <3>1. plan # <<>> BY <1>2
    <3> QED BY <3>1 DEF Joined
  <2>5. Covered'
    <3>1. ASSUME Cardinality(Liar) <= 1
          PROVE  verified' <= token' * Len(plan') + (stage' - 1)
      <4>1. token' * Len(plan') + (stage' - 1) = m + stage BY <1>1, <1>2, <1>4, <2>1, <2>2
      <4> QED BY <1>5, <3>1, <4>1
    <3>2. plan'[stage'].from = 0 BY <1>1, <2>1, <2>4
    <3>3. hidden' = [i \in 1..plan'[stage'].from |-> i - 1] BY <2>1, <3>2
    <3>4. token' < Tokens BY <1>9, <2>1
    <3> QED BY <2>1, <3>1, <3>3, <3>4 DEF Covered
  <2>6. left' = Candidates(stage', listing') /\ token' \in Nat BY <1>1, <1>2, <2>1
  <2> QED BY <1>1, <1>2, <1>6, <1>7, <2>2, <2>3, <2>5, <2>6, StageStarts
<1>10. CASE ~(stage < Len(plan)) /\ ~(token + 1 < Tokens)
  <2>1. stage' = 0 /\ hidden' = Decision /\ token' = token + 1 /\ left' = <<>> BY <1>1, <1>10
  <2>2. stage = Len(plan) BY <1>2, <1>10
  <2>3. RunTyped' BY <1>1, <1>2, <1>3, <1>6, <2>1 DEF RunTyped
  <2>4. Distinct(left)' BY <2>1 DEF Distinct
  <2>5. Joined' BY <1>1, <2>1 DEF Joined
  <2>6. LiesAreFew' /\ WinnerWins' /\ Covered' BY <2>1 DEF LiesAreFew, WinnerWins, Covered
  <2>7. VerifiedIsWhole'
    <3> SUFFICES ASSUME Tokens > 0, token' = Tokens, verified' = Tokens * Len(plan'),
                        Cardinality(Liar) <= 1
                 PROVE  hidden' = [i \in 1..Layers |-> i - 1]
      BY DEF VerifiedIsWhole
    <3>1. verified' = m + stage BY <1>1, <1>4, <2>1, <2>2
    <3>2. plan[stage].to = Layers
      <4>1. plan # <<>> BY <1>2
      <4> QED BY <2>2, <4>1 DEF Joined
    <3> QED BY <1>5, <2>1, <3>1, <3>2
  <2> QED BY <1>7, <2>3, <2>4, <2>5, <2>6, <2>7
<1> QED BY <1>8, <1>9, <1>10

-----------------------------------------------------------------------------
\* The books.

\* A generation's spending and what its replica has charged move together;
\* gossip only moves what was charged elsewhere.
LEMMA BooksStep ==
    ASSUME IInv, [Next]_vars
    PROVE  BooksTyped' /\ SpentIsCharged'
<1> USE DEF IInv, BooksTyped, SpentIsCharged
<1>1. stage \in Int BY DEF RInv, RunTyped
<1>2. CASE MakePlan BY <1>2 DEF MakePlan, books, bounds
<1>3. CASE Begin BY <1>3 DEF Begin, bounds
<1>4. ASSUME stage > 0, left # <<>> PROVE Head(left).price \in Nat
  <2>1. left \in Seq(Row) BY DEF RInv, RunTyped
  <2>2. Head(left) \in Row BY <1>4, <2>1
  <2> QED BY <2>2 DEF Row
<1>5. CASE Served
  <2>1. /\ stage > 0 /\ left # <<>> /\ UNCHANGED <<unseen, pulled, opening, stage, runs>>
        /\ balance' = balance - Head(left).price /\ spent' = spent + Head(left).price
    BY <1>5 DEF Served, Hiring, bounds
  <2>2. PICK n \in Nat : n = Head(left).price BY <1>4, <2>1
  <2>3. balance' = balance - n /\ spent' = spent + n BY <2>1, <2>2
  <2>4. UNCHANGED <<unseen, pulled, opening, stage, runs>> BY <2>1
  <2>5. stage >= 0 BY <1>1, <2>1
  <2> QED BY <2>3, <2>4, <2>5
<1>6. CASE Unserved \/ Broken
  <2>1. /\ stage > 0 /\ left # <<>> /\ UNCHANGED <<balance, pulled, opening, spent, runs>>
        /\ stage' \in {0, stage}
        /\ \E paid \in {0, Head(left).price} : unseen' = unseen + paid
    BY <1>6 DEF Unserved, Broken, Hiring
  <2>2. PICK n \in Nat : n = Head(left).price BY <1>4, <2>1
  <2>3. unseen' \in Int BY <2>1, <2>2
  <2> QED BY <1>1, <2>1, <2>3
<1>7. CASE Unaffordable BY <1>7 DEF Unaffordable, books, bounds
<1>8. CASE Fail \/ Advance
  <2>1. stage > 0 /\ UNCHANGED <<books, spent, runs>> BY <1>8 DEF Fail, Advance, Over, bounds
  <2> QED BY <1>1, <2>1 DEF books
<1>9. CASE Pull BY <1>1, <1>9 DEF Pull, bounds
<1>10. CASE Decay \/ \E p \in Provider : Condemn(p) BY <1>10 DEF Decay, Condemn, books
<1>11. CASE UNCHANGED vars BY <1>11 DEF vars, books, bounds
<1> QED BY <1>2, <1>3, <1>5, <1>6, <1>7, <1>8, <1>9, <1>10, <1>11 DEF Next

-----------------------------------------------------------------------------
\* The theorems.

LEMMA InitIInv == Init => IInv
<1> SUFFICES ASSUME Init PROVE IInv OBVIOUS
<1>1. /\ stage = 0 /\ plan = <<>> /\ listing = <<>> /\ token = 0 /\ hidden = <<>>
      /\ left = <<>> /\ answers = <<>> /\ winner = None /\ verified = 0
      /\ balance = Funds /\ unseen = 0 /\ pulled = 0 /\ opening = Funds /\ spent = 0 /\ runs = 0
  BY DEF Init
<1>2. BooksTyped /\ SpentIsCharged BY <1>1, ShardAssumption DEF BooksTyped, SpentIsCharged
<1>3. RunTyped
  <2>1. /\ <<>> \in Hidden /\ <<>> \in Seq(Row) /\ <<>> \in Seq(Slice) /\ <<>> \in Seq(Hidden)
        /\ Len(<<>>) = 0
    BY DEF Hidden
  <2> QED BY <1>1, <2>1 DEF RunTyped
<1>4. Distinct(listing) /\ Distinct(left) BY <1>1 DEF Distinct
<1>5. Joined /\ LiesAreFew /\ WinnerWins /\ Covered /\ VerifiedIsWhole
  BY <1>1, ShardAssumption DEF Joined, LiesAreFew, WinnerWins, Covered, VerifiedIsWhole
<1> QED BY <1>2, <1>3, <1>4, <1>5 DEF IInv, RInv

LEMMA NextIInv == IInv /\ [Next]_vars => IInv'
<1> SUFFICES ASSUME IInv, [Next]_vars PROVE IInv' OBVIOUS
<1>0. RInv BY DEF IInv
<1>1. CASE MakePlan \/ Begin BY <1>0, <1>1, MakePlanStep, BeginStep, BooksStep DEF IInv
<1>2. CASE Served \/ Fail \/ Broken \/ Advance
  BY <1>0, <1>2, ServedStep, FailStep, AdvanceStep, BooksStep DEF IInv
<1>3. CASE Unserved \/ Unaffordable
  <2>1. /\ stage > 0 /\ left # <<>> /\ left' = Tail(left)
        /\ UNCHANGED <<stage, plan, listing, token, verified, hidden, answers, winner>>
    BY <1>3 DEF Unserved, Unaffordable, Hiring
  <2> QED BY <1>0, <2>1, StageGoesOn, BooksStep DEF IInv
<1>4. CASE Pull \/ Decay \/ (\E p \in Provider : Condemn(p)) \/ UNCHANGED vars
  <2>1. UNCHANGED <<stage, plan, listing, token, verified, hidden, left, answers, winner>>
    BY <1>4 DEF Pull, Decay, Condemn, vars, vote
  <2> QED BY <1>0, <2>1, StageGoesOn, BooksStep DEF IInv
<1> QED BY <1>1, <1>2, <1>3, <1>4 DEF Next

LEMMA Inductive == Spec => []IInv
BY InitIInv, NextIInv, PTL DEF Spec

\* A majority answer that is right is the one gone on with, whenever the liars
\* are fewer than a majority, for every redundancy and every set of providers.
THEOREM CrossCheckedIsRight == Spec => []MajorityIsRight
<1>1. RInv => MajorityIsRight
  <2> SUFFICES ASSUME RInv, Over, answers # <<>>,
                      Cardinality(Liar) < Redundancy \div 2 + 1,
                      Votes(Shard) >= Redundancy \div 2 + 1
               PROVE  Decision = Shard
    BY DEF MajorityIsRight, Shard
  <2>1. stage > 0 /\ Shard \in Hidden BY ShardTyped DEF Over
  <2>2. /\ Majority \in Nat /\ Cardinality(Liar) < Majority /\ Votes(Shard) >= Majority
    BY ShardAssumption DEF Majority, Needed
  <2>3. /\ Cardinality(Wrong) \in Nat /\ Cardinality(Liar) \in Nat
        /\ Cardinality(LiarsLeft) \in Nat
    BY VotesCounted, LiarsFinite DEF LiarsLeft
  <2>4. Cardinality(Wrong) < Majority BY <2>1, <2>2, <2>3 DEF RInv, LiesAreFew
  <2>5. winner # None
    <3> SUFFICES ASSUME winner = None PROVE FALSE OBVIOUS
    <3>1. Votes(Shard) < Majority BY <2>1 DEF RInv, WinnerWins
    <3>2. Votes(Shard) \in Nat BY VotesCounted
    <3> QED BY <2>2, <3>1, <3>2
  <2>6. Votes(winner) >= Majority BY <2>1, <2>5 DEF RInv, WinnerWins
  <2>7. \A a : Votes(a) \in Nat /\ (a # Shard => Votes(a) <= Cardinality(Wrong))
    BY VotesCounted
  <2>8. winner = Shard BY <2>2, <2>3, <2>4, <2>6, <2>7
  <2> QED BY <2>5, <2>8 DEF Decision
<1> QED BY Inductive, <1>1, PTL DEF IInv

\* A generation whose stages were all verified has passed through every layer
\* in order, for every number of layers, however they are sliced.
THEOREM VerifiedPassIsWhole == Spec => []VerifiedIsWhole
<1>1. IInv => VerifiedIsWhole BY DEF IInv, RInv
<1> QED BY Inductive, <1>1, PTL

\* The generation's account of its spending is the ledger's.
THEOREM SpendingIsCharged == Spec => []SpentIsCharged
<1>1. IInv => SpentIsCharged BY DEF IInv
<1> QED BY Inductive, <1>1, PTL
=============================================================================
