--------------------------- MODULE ServerDBProofs ---------------------------
(***************************************************************************)
(* Proofs about the servers file, for any servers, threads and number of   *)
(* crashes.  The inductive invariant is the type invariant with OneWriter: *)
(* OneWriter alone says who is in an update, the types say that a merged   *)
(* copy is never mistaken for None.                                        *)
(***************************************************************************)
EXTENDS ServerDB, TLAPS

DBInv == DBTypeOK /\ OneWriter

\* None is no set of servers, so a local copy in scope is told from none.
LEMMA NoneIsNoCopy == \A S \in SUBSET Server : S # None
BY NoServerAssumption DEF None

\* The merge of an update stays within the servers.
LEMMA MergedIsASet ==
    ASSUME NEW local \in SUBSET Server, NEW new \in SUBSET Server,
           NEW deleted \in SUBSET Server
    PROVE  Merged(local, new, deleted) \in SUBSET Server
BY DEF Merged

\* DBInv holds at the start.
LEMMA DBInitInv == DBInit => DBInv
<1> SUFFICES ASSUME DBInit PROVE DBInv
    OBVIOUS
<1>1. DBTypeOK
    BY CrashesAssumption DEF DBInit, DBTypeOK
<1>2. OneWriter
    BY ActorAssumption DEF DBInit, OneWriter
<1> QED BY <1>1, <1>2 DEF DBInv

\* Taking the lock and truncating the file preserves DBInv.
LEMMA BeginUpdateInv ==
    ASSUME DBInv, NEW a \in Actor, BeginUpdate(a)
    PROVE  DBInv'
<1> USE DEF DBInv, BeginUpdate, AcquireLock, load_local_servers, Truncated
<1>1. DBTypeOK'
    BY DEF DBTypeOK
<1>2. OneWriter'
    BY NoneIsNoCopy, ActorAssumption DEF OneWriter, DBTypeOK
<1> QED BY <1>1, <1>2

\* Writing the merged records and releasing the lock preserves DBInv.
LEMMA EndUpdateInv ==
    ASSUME DBInv, NEW a \in Actor, NEW new \in SUBSET Server,
           NEW deleted \in SUBSET Server, EndUpdate(a, new, deleted)
    PROVE  DBInv'
<1> USE DEF DBInv, EndUpdate, ReleaseLock
<1>1. local_servers[a] \in SUBSET Server
    BY DEF DBTypeOK
<1>2. DBTypeOK'
    BY <1>1, MergedIsASet DEF DBTypeOK
<1>3. OneWriter'
    BY ActorAssumption DEF OneWriter, DBTypeOK
<1> QED BY <1>2, <1>3

\* A load preserves DBInv.
LEMMA LoadServersInv ==
    ASSUME DBInv, NEW a \in Actor, LoadServers(a)
    PROVE  DBInv'
BY DEF DBInv, LoadServers, load_local_servers, DBTypeOK, OneWriter

\* Dropping what was loaded preserves DBInv.
LEMMA ForgetServersInv ==
    ASSUME DBInv, NEW a \in Actor, ForgetServers(a)
    PROVE  DBInv'
BY DEF DBInv, ForgetServers, DBTypeOK, OneWriter

\* A crash preserves DBInv: the lock and the copies go together.
LEMMA CrashInv ==
    ASSUME DBInv, Crash
    PROVE  DBInv'
BY ActorAssumption, CrashesAssumption DEF DBInv, Crash, DBTypeOK, OneWriter

\* Every step of the file preserves DBInv.
LEMMA DBNextInv == DBInv /\ [DBNext]_dbVars => DBInv'
<1> SUFFICES ASSUME DBInv, [DBNext]_dbVars PROVE DBInv'
    OBVIOUS
<1>1. CASE Crash
    BY <1>1, CrashInv
<1>2. ASSUME NEW a \in Actor, DBStep(a) PROVE DBInv'
    <2>1. CASE LoadServers(a)
        BY <2>1, LoadServersInv
    <2>2. CASE BeginUpdate(a)
        BY <2>2, BeginUpdateInv
    <2>3. ASSUME NEW s \in Server, EndUpdate(a, {s}, {}) PROVE DBInv'
        BY <2>3, EndUpdateInv
    <2>4. ASSUME NEW s \in Server, EndUpdate(a, {}, {s}) PROVE DBInv'
        BY <2>4, EndUpdateInv
    <2>5. CASE ForgetServers(a)
        BY <2>5, ForgetServersInv
    <2> QED BY <1>2, <2>1, <2>2, <2>3, <2>4, <2>5 DEF DBStep
<1>3. CASE UNCHANGED dbVars
    BY <1>3 DEF dbVars, DBInv, DBTypeOK, OneWriter
<1> QED BY <1>1, <1>2, <1>3 DEF DBNext

\* The servers file is well typed and at any time at most one thread, the
\* holder of available_server_db_lock, is inside update_local_servers.
THEOREM OneWriterHolds == DBSpec => [](DBTypeOK /\ OneWriter)
<1>1. DBInit => DBInv
    BY DBInitInv
<1>2. DBInv /\ [DBNext]_dbVars => DBInv'
    BY DBNextInv
<1>3. DBInv => DBTypeOK /\ OneWriter
    BY DEF DBInv
<1> QED BY <1>1, <1>2, <1>3, PTL DEF DBSpec

-----------------------------------------------------------------------------
(* The refinement.                                                         *)

\* Truncating the file does not change the records.
LEMMA BeginUpdateStutters ==
    ASSUME DBInv, NEW a \in Actor, BeginUpdate(a)
    PROVE  records' = records
BY ActorAssumption
   DEF DBInv, DBTypeOK, BeginUpdate, AcquireLock, load_local_servers, records

\* The write of an update changes the records by what was added and deleted.
LEMMA EndUpdateWrites ==
    ASSUME DBInv, NEW a \in Actor, NEW new, NEW deleted,
           EndUpdate(a, new, deleted)
    PROVE  records' = Merged(records, new, deleted)
<1>1. db_lock = a /\ a # NoOne
    BY ActorAssumption DEF DBInv, OneWriter, EndUpdate
<1>2. records = local_servers[a]
    BY <1>1 DEF records
<1> QED BY <1>2 DEF EndUpdate, ReleaseLock, records

\* A crash keeps the records or, in the middle of an update, loses them all.
LEMMA CrashKeepsOrWipes ==
    ASSUME DBInv, Crash
    PROVE  records' = records \/ R!Wipe
<1>1. MaxCrashes > 0
    BY CrashesAssumption DEF DBInv, DBTypeOK, Crash
<1>2. CASE db_lock = NoOne
    BY <1>2 DEF Crash, records
<1>3. CASE db_lock # NoOne
    BY <1>1, <1>3 DEF Crash, records, DBInv, OneWriter, R!Wipe
<1> QED BY <1>2, <1>3

\* Every step of the file is a step of the registry or leaves it alone.
LEMMA DBNextRefines == DBInv /\ [DBNext]_dbVars => [R!Next]_records
<1> SUFFICES ASSUME DBInv, [DBNext]_dbVars PROVE R!Next \/ records' = records
    OBVIOUS
<1>1. CASE Crash
    BY <1>1, CrashKeepsOrWipes DEF R!Next
<1>2. ASSUME NEW a \in Actor, DBStep(a) PROVE R!Next \/ records' = records
    <2>1. CASE LoadServers(a)
        BY <2>1 DEF LoadServers, records
    <2>2. CASE BeginUpdate(a)
        BY <2>2, BeginUpdateStutters
    <2>3. ASSUME NEW s \in Server, EndUpdate(a, {s}, {}) PROVE R!Next
        <3>1. records' = Merged(records, {s}, {})
            BY <2>3, EndUpdateWrites
        <3> QED BY <3>1 DEF Merged, R!Next, R!Add
    <2>4. ASSUME NEW s \in Server, EndUpdate(a, {}, {s}) PROVE R!Next
        <3>1. records' = Merged(records, {}, {s})
            BY <2>4, EndUpdateWrites
        <3> QED BY <3>1 DEF Merged, R!Next, R!Remove
    <2>5. CASE ForgetServers(a)
        BY <2>5 DEF ForgetServers, records
    <2> QED BY <1>2, <2>1, <2>2, <2>3, <2>4, <2>5 DEF DBStep
<1>3. CASE UNCHANGED dbVars
    BY <1>3 DEF dbVars, records
<1> QED BY <1>1, <1>2, <1>3 DEF DBNext

\* The servers file implements the registry: no interleaving of updates and
\* unlocked loads loses, duplicates or resurrects a record, and only a crash
\* can lose more than one.
THEOREM FileImplementsRegistry == DBSpec => ImplementsRegistry
<1>1. DBInit => DBInv
    BY DBInitInv
<1>2. DBInv /\ [DBNext]_dbVars => DBInv'
    BY DBNextInv
<1>3. DBInit => R!Init
    BY DEF DBInit, R!Init, records
<1>4. DBInv /\ [DBNext]_dbVars => [R!Next]_records
    BY DBNextRefines
<1> QED BY <1>1, <1>2, <1>3, <1>4, PTL DEF DBSpec, ImplementsRegistry, R!Spec
=============================================================================
