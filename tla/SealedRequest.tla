---------------------------- MODULE SealedRequest ----------------------------
(***************************************************************************)
(* The envelope and the box a paid request travels in: the consumer signs  *)
(* the payment (crypto.py), seals items and results with the key it shares *)
(* with the provider (e2e.py), and the provider derives the same key from  *)
(* the signing key of the payment (node.py, _decode_task_payload).         *)
(* One node may run on libsodium and the other not; this is the one that   *)
(* does not, on both sides.                                                *)
(*                                                                         *)
(* What a hash function gives may be anything, the same for the same       *)
(* input.  A digit stands for eight bytes: a block of key stream has eight *)
(* digits, the authenticator's key four, its blocks and its tag two.       *)
(***************************************************************************)
EXTENDS EdwardsCurve, SequencesExt

CONSTANTS
    Digests,         \* what SHA-512 may give, modulo Order
    Commitments,     \* the same for r, which is secret
    Nonces,          \* the nonces a box may be sealed with
    Text,            \* what is sealed, in digits
    HSalsa(_),       \* _hsalsa20 of a shared secret
    Salsa(_, _, _)   \* a block of key stream: of a key, a nonce and a counter

ASSUME RequestAssumption ==
    /\ Digests \subseteq 0..(Order - 1) /\ Commitments \subseteq 0..(Order - 1)
    /\ Text \subseteq Seq({0, 1})
    /\ \A u \in 0..(P - 1) : HSalsa(u) \in Nat
    /\ \A u \in 0..(P - 1), n \in Nonces, c \in 0..2 :
          Salsa(HSalsa(u), n, c) \in [1..8 -> {0, 1}]

Node == {"consumer", "provider"}

VARIABLES
    secret,     \* secret[n]: n's scalar, from its seed
    stage,      \* how far the request has come
    payment,    \* the envelope
    digest,     \* what the hash function gives for it
    sent,       \* history: the items and the results that were sealed
    box,        \* the box under way
    got,        \* the items the provider and the results the consumer opened
    good        \* history: the signatures the provider would have taken

vars == <<secret, stage, payment, digest, sent, box, got, good>>

\* No text: what json.loads is never given.
Unreadable == <<-1>>

Empty == [items |-> <<>>, results |-> <<>>]

Init ==
    /\ secret \in [Node -> Secrets]
    /\ stage = "new" /\ digest = 0
    /\ payment = [public |-> PublicKey(secret["consumer"]), sig |-> [s |-> 0]]
    /\ sent = Empty /\ box = [nonce |-> 0, sealed |-> <<>>] /\ got = Empty
    /\ good = {}

----------------------------------------------------------------------------
\* The box.

\* _xsalsa20_stream: as many blocks as the length takes, cut to length.
Stream(key, nonce, length) ==
    SubSeq(FlattenSeq([c \in 1..((length + 7) \div 8) |-> Salsa(key, nonce, c - 1)]), 1, length)

Xor(a, b) == [i \in DOMAIN a |-> (a[i] + b[i]) % 2]

\* _poly1305: blocks of two digits, each with a one behind it.
Tag(text, key) ==
    LET Chunk(i) == text[i] + (IF i < Len(text) THEN 2 * text[i + 1] + 4 ELSE 2)
        r == key[1] + 2 * key[2]
        s == key[3] + 2 * key[4]
        starts == SelectSeq([i \in DOMAIN text |-> i], LAMBDA i : i % 2 = 1)
        tag == (FoldLeft(LAMBDA acc, i : ((acc + Chunk(i)) * r) % 11, 0, starts) + s) % 4
    IN <<tag % 2, tag \div 2>>

\* There is none with who has no point of the curve for a key.
NoKey == -1

\* _secretbox_seal: four digits of the stream authenticate what the others hide.
Sealed(key, nonce, plain) ==
    LET stream == Stream(key, nonce, 4 + Len(plain))
        text == Xor(plain, SubSeq(stream, 5, Len(stream)))
    IN [nonce |-> nonce, sealed |-> Tag(text, SubSeq(stream, 1, 4)) \o text]

\* _secretbox_open; with no key, or a box too short for its tag, it raises.
Opened(key, b) ==
    LET text == SubSeq(b.sealed, 3, Len(b.sealed))
        stream == Stream(key, b.nonce, 4 + Len(text))
    IN IF \/ key = NoKey
          \/ Len(b.sealed) < 2
          \/ SubSeq(b.sealed, 1, 2) # Tag(text, SubSeq(stream, 1, 4))
       THEN Unreadable
       ELSE Xor(text, SubSeq(stream, 5, Len(stream)))

\* Mutant: the key is derived from the coordinate as it is.
BoxKey_Unmapped(a, public) == HSalsa(X25519(a, public.y))

\* derive_box_key.
BoxKey(a, public) ==
    IF ToCurve(public) = NotACurvePoint THEN NoKey ELSE HSalsa(X25519(a, ToCurve(public)))

----------------------------------------------------------------------------
\* The request.

\* make_tx: a payment, signed with the key its sender's node id is backed by.
Sign ==
    /\ stage = "new" /\ stage' = "signed"
    /\ digest' \in Digests
    /\ \E r \in Commitments :
          payment' = [payment EXCEPT !.sig = Signature(secret["consumer"], r, digest')]
    /\ UNCHANGED <<secret, sent, box, got, good>>

\* The consumer knows the provider's key from its record.
Seal ==
    /\ stage = "signed" /\ stage' = "asked"
    /\ \E plain \in Text, nonce \in Nonces :
          /\ sent' = [sent EXCEPT !.items = plain]
          /\ box' = Sealed(BoxKey(secret["consumer"], PublicKey(secret["provider"])), nonce, plain)
    /\ UNCHANGED <<secret, payment, digest, got, good>>

\* The provider knows the consumer's from the payment.
Open ==
    /\ stage = "asked"
    /\ LET plain == Opened(BoxKey(secret["provider"], payment.public), box) IN
       IF plain = Unreadable THEN stage' = "decrypt_failed" /\ UNCHANGED got
       ELSE stage' = "opened" /\ got' = [got EXCEPT !.items = plain]
    /\ UNCHANGED <<secret, payment, digest, sent, box, good>>

\* _validate_payment, open_envelope: the payment is of the key it names.
Validate ==
    /\ stage = "opened"
    /\ good' = {s \in 0..(2^Bits - 1) :
                   Verifies(payment.public, [payment.sig EXCEPT !.s = s], digest)}
    /\ stage' = IF payment.sig.s \in good' THEN "valid" ELSE "payment_rejected"
    /\ UNCHANGED <<secret, payment, digest, sent, box, got>>

\* The results go back under the same key.
Reply ==
    /\ stage = "valid" /\ stage' = "answered"
    /\ \E plain \in Text, nonce \in Nonces :
          /\ sent' = [sent EXCEPT !.results = plain]
          /\ box' = Sealed(BoxKey(secret["provider"], payment.public), nonce, plain)
    /\ UNCHANGED <<secret, payment, digest, got, good>>

Receive ==
    /\ stage = "answered"
    /\ LET plain == Opened(BoxKey(secret["consumer"], PublicKey(secret["provider"])), box) IN
       IF plain = Unreadable THEN stage' = "malformed" /\ UNCHANGED got
       ELSE stage' = "served" /\ got' = [got EXCEPT !.results = plain]
    /\ UNCHANGED <<secret, payment, digest, sent, box, good>>

Next == Sign \/ Seal \/ Open \/ Validate \/ Reply \/ Receive

Spec == Init /\ [][Next]_vars

----------------------------------------------------------------------------
\* Two nodes that have exchanged nothing but their signing keys read what the
\* other has sealed, whichever their keys are and however long it is
\* (derive_box_key: "Symmetric").
OpenedIsSent ==
    /\ stage \notin {"decrypt_failed", "malformed"}
    /\ stage \in {"opened", "valid", "answered"} => got.items = sent.items
    /\ stage = "served" => got = sent

\* A payment signed with an identity's key is accepted as its own, and no other
\* number than the one the signer arrived at would have been: a transfer has one
\* envelope per signature, whatever its key and the digests are.
OneSignature ==
    /\ stage # "payment_rejected"
    /\ good \subseteq {payment.sig.s}
=============================================================================
