---------------------------- MODULE EdwardsCurve ----------------------------
(***************************************************************************)
(* The curve arithmetic of src/kemi/crypto.py and src/kemi/e2e.py that a   *)
(* node without libsodium signs and agrees on keys with, over any field.   *)
(* The code's field has 2^255 - 19 elements; a curve of the same make over *)
(* a small one has the same exceptional points, and all of them.           *)
(*                                                                         *)
(* A compressed point is its y and whether its x is odd.                   *)
(***************************************************************************)
EXTENDS Integers, Sequences

CONSTANTS
    P,       \* _p, a prime that is 5 modulo 8
    Order,   \* _q, the prime order of the base point
    A24,     \* _A24
    Bits     \* the bits of a field element; 255 in the code

ASSUME CurveAssumption ==
    /\ P \in Nat /\ P % 8 = 5 /\ \A n \in 2..(P - 1) : P % n # 0
    /\ Order \in Nat /\ Order > 2
    /\ A24 \in 1..(P - 2)
    /\ Bits \in Nat /\ 2^(Bits - 1) < P /\ P < 2^Bits

RECURSIVE Pow(_, _)
Pow(x, n) ==
    IF n = 0 THEN 1
    ELSE ((IF n % 2 = 1 THEN x ELSE 1) * Pow((x * x) % P, n \div 2)) % P

\* _inv; of zero it is zero.
Inv(x) == Pow(x % P, P - 2)

D == (-A24 * Inv(A24 + 1)) % P

I == Pow(2, (P - 1) \div 4)

Bit(e, i) == (e \div 2^i) % 2

----------------------------------------------------------------------------
\* Points <<x, y, z, t>> with x y = z t.

Neutral == <<0, 1, 1, 0>>

EdwardsAdd(p, q) ==
    LET a == (p[2] - p[1]) * (q[2] - q[1]) % P
        b == (p[2] + p[1]) * (q[2] + q[1]) % P
        c == (((p[4] * 2 * D) % P) * q[4]) % P
        dd == (p[3] * 2 * q[3]) % P
        e == b - a
        f == dd - c
        g == dd + c
        h == b + a
    IN <<(e * f) % P, (g * h) % P, (f * g) % P, (e * h) % P>>

\* q plus e times p: the loop of _scalarmult.
RECURSIVE Doubled(_, _, _)
Doubled(q, p, e) ==
    IF e = 0 THEN q
    ELSE Doubled(IF e % 2 = 1 THEN EdwardsAdd(q, p) ELSE q, EdwardsAdd(p, p), e \div 2)

ScalarMult(p, e) == Doubled(Neutral, p, e)

\* None of the points: what the code writes None.
NoPoint == <<>>

\* The x of the point at y that is odd or not; -1 if there is none.
RecoverX(y, odd) ==
    LET xx == ((y * y - 1) * Inv(D * y * y + 1)) % P
        try == Pow(xx, (P + 3) \div 8)
        x == IF (try * try) % P = xx THEN try ELSE (try * I) % P
    IN IF y >= P \/ (x * x) % P # xx THEN -1
       ELSE IF x % 2 # odd THEN P - x
       ELSE x

Base ==
    LET y == (4 * Inv(5)) % P
        x == RecoverX(y, 0)
    IN <<x, y, 1, (x * y) % P>>

Compress(p) ==
    [y |-> (p[2] * Inv(p[3])) % P, odd |-> ((p[1] * Inv(p[3])) % P) % 2]

Decompress(c) ==
    LET x == RecoverX(c.y, c.odd)
    IN IF x = -1 THEN NoPoint ELSE <<x, c.y, 1, (x * c.y) % P>>

PointEqual(p, q) ==
    /\ (p[1] * q[3] - q[1] * p[3]) % P = 0
    /\ (p[2] * q[3] - q[2] * p[3]) % P = 0

----------------------------------------------------------------------------
\* Signatures.

\* What _secret_expand makes of a seed: a multiple of 8 with the highest bit set.
Secrets == {2^(Bits - 1) + 8 * j : j \in 0..(2^(Bits - 4) - 1)}

PublicKey(a) == Compress(ScalarMult(Base, a))

\* _pure_sign, with the digests that the hash function has given.
Signature(a, r, h) == [point |-> Compress(ScalarMult(Base, r)), s |-> (r + h * a) % Order]

\* Mutant: any number is taken for s.
Verifies_Any(public, sig, h) ==
    LET a == Decompress(public)
        r == Decompress(sig.point)
    IN /\ a # NoPoint /\ r # NoPoint
       /\ PointEqual(ScalarMult(Base, sig.s), EdwardsAdd(r, ScalarMult(a, h)))

\* _pure_verify, with the digest h of what it is given.
Verifies(public, sig, h) ==
    LET a == Decompress(public)
        r == Decompress(sig.point)
    IN /\ a # NoPoint /\ r # NoPoint
       /\ sig.s < Order
       /\ PointEqual(ScalarMult(Base, sig.s), EdwardsAdd(r, ScalarMult(a, h)))

----------------------------------------------------------------------------
\* Key agreement.

\* The ladder of _x25519: u times the bits of k from t down, and what was
\* swapped for a bit is swapped back before the next, or at the end.
RECURSIVE Ladder(_, _, _, _)
Ladder(k, u, t, l) ==
    LET m == IF (t >= 0 /\ Bit(k, t) = 1) # l.swap
             THEN [l EXCEPT !.x2 = l.x3, !.x3 = l.x2, !.z2 = l.z3, !.z3 = l.z2] ELSE l
        a == m.x2 + m.z2
        b == m.x2 - m.z2
        e == (a * a - b * b) % P
        da == ((m.x3 - m.z3) * a) % P
        cb == ((m.x3 + m.z3) * b) % P
    IN IF t < 0 THEN m
       ELSE Ladder(k, u, t - 1,
                   [swap |-> Bit(k, t) = 1,
                    x2 |-> (((a * a) % P) * ((b * b) % P)) % P,
                    z2 |-> (e * ((a * a + A24 * e) % P)) % P,
                    x3 |-> ((da + cb) * (da + cb)) % P,
                    z3 |-> ((((da - cb) * (da - cb)) % P) * u) % P])

X25519(k, u) ==
    LET l == Ladder(k, u, Bits - 1, [swap |-> FALSE, x2 |-> 1, z2 |-> 0, x3 |-> u, z3 |-> 1])
    IN (l.x2 * Inv(l.z2)) % P

\* What the code raises E2EError for.
NotACurvePoint == -1

\* _ed25519_pk_to_curve25519: from the Edwards y to the Montgomery u.
ToCurve(public) ==
    IF Decompress(public) = NoPoint THEN NotACurvePoint
    ELSE ((1 + public.y) * Inv(1 - public.y)) % P
=============================================================================
