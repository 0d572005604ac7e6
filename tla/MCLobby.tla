------------------------------ MODULE MCLobby ------------------------------
(* Two connections and the killer.                                         *)
EXTENDS Lobby, TLC

\* For the runs without unmanaged or foreign servers: any two servers, and
\* any two connections, are interchangeable.
Symmetry == Permutations(Thread) \cup Permutations(Server)
=============================================================================
