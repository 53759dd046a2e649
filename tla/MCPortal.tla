------------------------------- MODULE MCPortal -------------------------------
\* Tokens stand for each other in model checking Portal, and so do addresses.
EXTENDS Portal, TLC

Interchangeable == Permutations(Token) \cup Permutations(Address)
=============================================================================
