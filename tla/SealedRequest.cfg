SPECIFICATION Spec
CONSTANTS
  P = 101
  Order = 13
  A24 = 42
  Bits = 7
  Digests = {0, 1, 2, 5, 6, 11, 12}
  Commitments = {0, 6}
  Nonces = {0, 1}
  Text <- MCText
  HSalsa <- MCHSalsa
  Salsa <- MCSalsa
INVARIANTS OpenedIsSent OneSignature
CHECK_DEADLOCK FALSE
