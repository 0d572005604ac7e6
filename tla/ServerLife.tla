----------------------------- MODULE ServerLife -----------------------------
(***************************************************************************)
(* What lobbyboy promises of each server it makes: it is made once, listed *)
(* in the servers file at most once, and one that is lost, which means     *)
(* that it may run but has no record and nobody is about to write one, is  *)
(* never found again.                                                      *)
(***************************************************************************)
CONSTANT Server  \* the servers that can be made

VARIABLE life    \* per server: "none", "made", "listed", "lost" or "gone"

Init == \E listed \in SUBSET Server :
          life = [s \in Server |-> IF s \in listed THEN "listed" ELSE "none"]

\* Where the life of a server may lead from each of its stations.
After == [none   |-> {"made"},
          made   |-> {"listed", "lost", "gone"},
          listed |-> {"lost", "gone"},
          lost   |-> {"gone"},
          gone   |-> {}]

\* A step moves any servers on: a crash may lose several at once.
Next == life' \in [Server -> DOMAIN After]
        /\ \A s \in Server : life'[s] = life[s] \/ life'[s] \in After[life[s]]

Spec == Init /\ [][Next]_life
=============================================================================
