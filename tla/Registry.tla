------------------------------ MODULE Registry ------------------------------
(***************************************************************************)
(* What the servers file promises to its users: one set of server records, *)
(* changed by adding the record of one server or by removing the record of *)
(* one server, each at a single instant.  Nothing else changes it, except  *)
(* that a crash of the lobbyboy process may lose every record at once when *)
(* CrashMayWipe is TRUE.                                                   *)
(***************************************************************************)
CONSTANTS
    Server,         \* the servers a record can describe
    CrashMayWipe    \* whether a crash of the process may empty the file

VARIABLE records

Init == records \in SUBSET Server

Add(s) == records' = records \cup {s}

Remove(s) == records' = records \ {s}

Wipe == CrashMayWipe /\ records' = {}

Next == Wipe \/ \E s \in Server : Add(s) \/ Remove(s)

Spec == Init /\ [][Next]_records
=============================================================================
