--------------------------- MODULE MCSealedRequest ---------------------------
\* Stand-ins for the Salsa20 core: any functions do.
EXTENDS SealedRequest

\* As long as leaves room in the first block, as fills it, and more.
MCText == {<<1>>, <<0, 1, 1, 0>>, <<1, 1, 0, 1, 1>>}

MCHSalsa(u) == (37 * u + 11) % 128

MCSalsa(key, nonce, counter) ==
    [i \in 1..8 |-> (((key + 1) * (nonce + 3) * (i + 1) * (i + 8 * counter)) \div 5) % 2]
=============================================================================
