----------------------------- MODULE MCKeyStore -----------------------------
(* Two connections, a main, four keys and two crashes.                     *)
EXTENDS KeyStore, TLC

\* Keys are alike, and so are connections.
Symmetry == Permutations(Key) \cup Permutations(Session)
=============================================================================
