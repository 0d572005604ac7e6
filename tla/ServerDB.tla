------------------------------ MODULE ServerDB ------------------------------
(***************************************************************************)
(* The servers file of lobbyboy (config.py: load_local_servers and         *)
(* update_local_servers) and the lock its writers share (utils.py:         *)
(* available_server_db_lock).                                              *)
(*                                                                         *)
(* An update takes the lock, loads the file, merges, and opens the file    *)
(* with "w+": from there until the write reaches the disk the file is      *)
(* empty.  Readers take no lock, and an empty file or the prefix of a JSON *)
(* array loads as "no server", so the file has two contents worth telling  *)
(* apart while it is being written: what it was, and nothing.              *)
(***************************************************************************)
EXTENDS Naturals

CONSTANTS
    Server,     \* the servers a record can describe
    Actor,      \* the threads that use the file: sessions and the killer
    NoOne,      \* holder of a free lock
    NoServer,   \* the server of a thread that has none
    MaxCrashes  \* bound: how often the process is killed and restarted

ASSUME ActorAssumption == NoOne \notin Actor
ASSUME NoServerAssumption == NoServer \notin Server
ASSUME CrashesAssumption == MaxCrashes \in Nat

VARIABLES
    servers_db,     \* the records the file on disk decodes to
    db_lock,        \* who holds available_server_db_lock
    local_servers,  \* per actor, local_servers inside update_local_servers
    metas,          \* per actor, the result of an unlocked load it works on
    crashes         \* how often the process has crashed

dbVars == <<servers_db, db_lock, local_servers, metas, crashes>>

\* The value of local_servers outside update_local_servers.
None == {NoServer}

-----------------------------------------------------------------------------

DBInit ==
    /\ servers_db \in SUBSET Server
    /\ db_lock = NoOne
    /\ local_servers = [a \in Actor |-> None]
    /\ metas = [a \in Actor |-> {}]
    /\ crashes = 0

\* An empty file, a missing one and one that is no JSON all load as no server.
load_local_servers == servers_db

\* The load of a reader: choose_server and check_all_live_servers.
LoadServers(a) ==
    /\ metas' = [metas EXCEPT ![a] = load_local_servers]
    /\ UNCHANGED <<servers_db, db_lock, local_servers, crashes>>

\* choose_server or check_all_live_servers is done with what it loaded.
ForgetServers(a) ==
    /\ metas' = [metas EXCEPT ![a] = {}]
    /\ UNCHANGED <<servers_db, db_lock, local_servers, crashes>>

\* What the file holds once it is open for writing.
Truncated == {}

\* A lock that is taken but never waited for.
AcquireLockNoWait(a) == db_lock' = a

\* "with available_server_db_lock": a writer waits until the lock is free.
AcquireLock(a) ==
    /\ db_lock = NoOne
    /\ db_lock' = a

\* A lock that is kept after the block.
ReleaseLockForgotten == UNCHANGED db_lock

\* The end of the with block.
ReleaseLock == db_lock' = NoOne

\* The first half of update_local_servers, up to the open that truncates.
BeginUpdate(a) ==
    /\ AcquireLock(a)
    /\ local_servers' = [local_servers EXCEPT ![a] = load_local_servers]
    /\ servers_db' = Truncated
    /\ UNCHANGED <<metas, crashes>>

\* The new servers added as one element instead of one by one.
MergedAsOne(local, new, deleted) == (local \cup {new}) \ deleted

\* The deleted servers not popped.
MergedKept(local, new, deleted) == local \cup new

\* local_servers.update(new), then local_servers.pop(deleted).
Merged(local, new, deleted) == (local \cup new) \ deleted

\* The second half: the merged records reach the file, the lock is released.
EndUpdate(a, new, deleted) ==
    /\ local_servers[a] # None
    /\ servers_db' = Merged(local_servers[a], new, deleted)
    /\ local_servers' = [local_servers EXCEPT ![a] = None]
    /\ ReleaseLock
    /\ UNCHANGED <<metas, crashes>>

\* The process is killed and started again: memory is lost, the file stays
\* as it was at that instant.
Crash ==
    /\ crashes < MaxCrashes
    /\ crashes' = crashes + 1
    /\ db_lock' = NoOne
    /\ local_servers' = [a \in Actor |-> None]
    /\ metas' = [a \in Actor |-> {}]
    /\ UNCHANGED servers_db

\* A session adds the server it created, a destroyer deletes one server.
DBStep(a) ==
    \/ LoadServers(a)
    \/ ForgetServers(a)
    \/ BeginUpdate(a)
    \/ \E s \in Server : EndUpdate(a, {s}, {}) \/ EndUpdate(a, {}, {s})

DBNext == Crash \/ \E a \in Actor : DBStep(a)

DBSpec == DBInit /\ [][DBNext]_dbVars

-----------------------------------------------------------------------------

\* The records as the abstract registry has them: the file, or what the
\* update in progress read from it before truncating it.
records == IF db_lock = NoOne THEN servers_db ELSE local_servers[db_lock]

R == INSTANCE Registry WITH CrashMayWipe <- MaxCrashes > 0

\* Refinement: whatever the threads do, and although readers take no lock and
\* an update empties the file for a while, the file implements the registry:
\* every update changes one record at one instant and no update is lost.
ImplementsRegistry == R!Spec

DBTypeOK ==
    /\ servers_db \in SUBSET Server
    /\ db_lock \in Actor \cup {NoOne}
    /\ local_servers \in [Actor -> (SUBSET Server) \cup {None}]
    /\ metas \in [Actor -> SUBSET Server]
    /\ crashes \in 0..MaxCrashes

\* While an update is between its truncation and its write the file is empty,
\* and exactly one thread, the holder of the lock, is in such an update.  It
\* is about the lock around update_local_servers: without it two merged
\* copies exist and the later write forgets the earlier one.
OneWriter ==
    /\ \A a \in Actor : local_servers[a] # None <=> db_lock = a
    /\ db_lock # NoOne => servers_db = {}
=============================================================================
