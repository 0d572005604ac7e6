---------------------------- MODULE LobbyProofs ----------------------------
(***************************************************************************)
(* Proofs about the lobby, for any servers, threads and number of crashes, *)
(* and for any failures of providers and clients.                          *)
(*                                                                         *)
(* The proofs share two inductive invariants.  BasicInv carries the types, *)
(* the threads that surely have a server, what the transport of a thread   *)
(* can be at each place, and the two invariants of active_session.         *)
(* TrackInv strengthens Tracked: a server being created is known to its    *)
(* creator only, a server that does not exist is known to nobody, the lock *)
(* is held exactly in the two places that write, and a thread that deletes *)
(* a record has destroyed the server or put it in loose.  A smaller one,   *)
(* RoundInv, is about a round of the killer, whose list is older than what *)
(* it destroys; what may end the killer follows from it.                   *)
(***************************************************************************)
EXTENDS Lobby, ServerDBProofs

LobbyTypeOK ==
    /\ vm \in [Server -> {"none", "up", "gone"}]
    /\ active_session \in [Server -> SUBSET Thread]
    /\ pc \in [Actor -> KillerPlaces \cup ThreadPlaces]
    /\ pc[Killer] \in KillerPlaces
    /\ \A t \in Thread : pc[t] \in ThreadPlaces
    /\ meta \in [Actor -> Server \cup {NoServer}]
    /\ transport \in [Thread -> {"none", "open", "lost", "closed"}]
    /\ visited \in SUBSET Server
    /\ loose \in SUBSET Server

\* The places where a thread deals with a server.
ServerPlaces == {"booting", "record", "recording", "enter", "spawned", "using",
                 "check"} \cup DestroyPlaces

HasServer == \A a \in Actor : pc[a] \in ServerPlaces => meta[a] \in Server

\* A thread that is over has no open transport: its list can not be emptied by
\* the logout of another session.
OverIsNotOpen ==
    \A t \in Thread :
        /\ pc[t] = "done" => transport[t] \in {"lost", "closed"}
        /\ transport[t] = "closed" => pc[t] = "done"
        /\ pc[t] = "idle" <=> transport[t] = "none"

BasicInv ==
    /\ DBInv
    /\ LobbyTypeOK
    /\ HasServer
    /\ OverIsNotOpen
    /\ SessionsListed
    /\ LeakNeedsDrop

\* The parts of BasicInv include those of the type invariant.
LEMMA BasicInvIsTyped == BasicInv => TypeOK
BY DEF BasicInv, DBInv, LobbyTypeOK, TypeOK

\* The killer and the session threads make up the users of the file.
LEMMA KillerIsNoThread == Killer \in Actor /\ Killer \notin Thread /\ Thread \subseteq Actor
BY KillerAssumption DEF Thread

\* What a step of the lobby does to the servers file: nothing, or one of the
\* operations of ServerDB, with the server the thread deals with.
LEMMA FileSteps ==
    ASSUME [Next]_vars
    PROVE  \/ UNCHANGED dbVars
           \/ Crash
           \/ \E a \in Actor :
                \/ LoadServers(a)
                \/ ForgetServers(a)
                \/ BeginUpdate(a)
                \/ pc[a] = "recording" /\ a \in Thread /\ EndUpdate(a, {meta[a]}, {})
                \/ pc[a] = "deleting" /\ EndUpdate(a, {}, {meta[a]})
<1>1. CASE CrashRestart
    BY <1>1 DEF CrashRestart
<1>2. ASSUME NEW a \in Actor, Destroying(a)
      PROVE  \/ UNCHANGED dbVars
             \/ BeginUpdate(a)
             \/ pc[a] = "deleting" /\ EndUpdate(a, {}, {meta[a]})
    BY <1>2 DEF Destroying, DestroyServer, DestroyUnheard, DestroyRaises, DestroyReturnsFalse,
                BeginDelete, EndDelete
<1>3. CASE KillerStep
    BY <1>2, <1>3, KillerAssumption
       DEF KillerStep, KillerLoad, KillerCheck, KillerSleeps
<1>4. ASSUME NEW t \in Thread, Creating(t)
      PROVE  \/ UNCHANGED dbVars
             \/ BeginUpdate(t)
             \/ pc[t] = "recording" /\ EndUpdate(t, {meta[t]}, {})
    BY <1>4 DEF Creating, Provision, ProvisionFails, BootDone, BootAbandoned,
                BeginRecord, EndRecord
<1>5. ASSUME NEW t \in Thread, Session(t) PROVE UNCHANGED dbVars
    BY <1>5 DEF Session, Enter, Register, LogOut, LogOutRaises, CheckDestroy
<1>6. ASSUME NEW t \in Thread, Connect(t) \/ ClientDrops(t) PROVE UNCHANGED dbVars
    BY <1>6 DEF Connect, ClientDrops
<1>7. ASSUME NEW t \in Thread, ThreadStep(t)
      PROVE  \/ UNCHANGED dbVars
             \/ Creating(t) \/ Destroying(t)
             \/ LoadServers(t) \/ ForgetServers(t)
    BY <1>5, <1>7 DEF ThreadStep, SendRaises, ChooseServer, PickServer,
                      PickCreate, Cancel
<1>8. CASE UNCHANGED vars
    BY <1>8 DEF vars
<1> QED BY KillerIsNoThread, <1>1, <1>2, <1>3, <1>4, <1>6, <1>7, <1>8 DEF Next

\* Every step of the lobby is a step of ServerDB or leaves the file alone.
LEMMA NextIsDBStep == BasicInv /\ [Next]_vars => [DBNext]_dbVars
<1> SUFFICES ASSUME BasicInv, [Next]_vars PROVE [DBNext]_dbVars
    OBVIOUS
<1>1. \A a \in Actor : pc[a] \in {"recording", "deleting"} => meta[a] \in Server
    BY DEF BasicInv, HasServer, ServerPlaces, DestroyPlaces
<1> QED BY <1>1, FileSteps DEF DBNext, DBStep

\* BasicInv holds when lobbyboy starts: no session, and every record has a server.
LEMMA InitBasicInv == Init => BasicInv
<1> SUFFICES ASSUME Init PROVE BasicInv
    OBVIOUS
<1>1. DBInv
    BY DBInitInv DEF Init
<1>2. LobbyTypeOK
    BY KillerIsNoThread
       DEF Init, LobbyTypeOK, KillerPlaces, ThreadPlaces
<1>3. HasServer /\ OverIsNotOpen /\ SessionsListed /\ LeakNeedsDrop
    BY KillerIsNoThread
       DEF Init, HasServer, ServerPlaces, DestroyPlaces, OverIsNotOpen,
           SessionsListed, LeakNeedsDrop
<1> QED BY <1>1, <1>2, <1>3 DEF BasicInv

\* Every step of the lobby preserves BasicInv.
LEMMA NextBasicInv == BasicInv /\ [Next]_vars => BasicInv'
<1> SUFFICES ASSUME BasicInv, [Next]_vars PROVE BasicInv'
    OBVIOUS
<1>0. DBInv'
    BY NextIsDBStep, DBNextInv DEF BasicInv
<1> USE <1>0, KillerIsNoThread, NoServerAssumption
    DEF BasicInv, LobbyTypeOK, HasServer, ServerPlaces, OverIsNotOpen,
        SessionsListed, LeakNeedsDrop, KillerPlaces, ThreadPlaces,
        DestroyPlaces, Go
<1>1. ASSUME NEW t \in Thread, Connect(t) PROVE BasicInv'
    BY <1>1 DEF Connect
<1>2. ASSUME NEW t \in Thread, ClientDrops(t) PROVE BasicInv'
    BY <1>2 DEF ClientDrops
<1>3. ASSUME NEW t \in Thread, SendRaises(t) PROVE BasicInv'
    BY <1>3 DEF SendRaises, End, CloseTransport
<1>4. ASSUME NEW t \in Thread, ChooseServer(t) PROVE BasicInv'
    BY <1>4 DEF ChooseServer, NextPlace
<1>5. ASSUME NEW t \in Thread, NEW s \in Server, PickServer(t, s) PROVE BasicInv'
    BY <1>5 DEF PickServer
<1>6. ASSUME NEW t \in Thread, PickCreate(t) PROVE BasicInv'
    BY <1>6 DEF PickCreate
<1>7. ASSUME NEW t \in Thread, Cancel(t) PROVE BasicInv'
    BY <1>7 DEF Cancel, End, CloseTransport
<1>8. ASSUME NEW t \in Thread, NEW s \in Server, Provision(t, s) PROVE BasicInv'
    BY <1>8 DEF Provision
<1>9. ASSUME NEW t \in Thread, ProvisionFails(t) PROVE BasicInv'
    BY <1>9 DEF ProvisionFails, End, CloseTransport
<1>10. ASSUME NEW t \in Thread, BootDone(t) PROVE BasicInv'
    BY <1>10 DEF BootDone
<1>11. ASSUME NEW t \in Thread, BootAbandoned(t) PROVE BasicInv'
    BY <1>11 DEF BootAbandoned, End, CloseTransport
<1>12. ASSUME NEW t \in Thread, BeginRecord(t) PROVE BasicInv'
    BY <1>12 DEF BeginRecord
<1>13. ASSUME NEW t \in Thread, EndRecord(t) PROVE BasicInv'
    BY <1>13 DEF EndRecord
<1>14. ASSUME NEW t \in Thread, Enter(t) PROVE BasicInv'
    BY <1>14 DEF Enter, End, CloseTransport
<1>15. ASSUME NEW t \in Thread, Register(t) PROVE BasicInv'
    BY <1>15 DEF Register, Listed
<1>16. ASSUME NEW t \in Thread, LogOut(t) PROVE BasicInv'
    BY <1>16 DEF LogOut, Unlisted, PeersKnown
<1>17. ASSUME NEW t \in Thread, LogOutRaises(t) PROVE BasicInv'
    <2>1. LobbyTypeOK' /\ HasServer' /\ OverIsNotOpen' /\ SessionsListed'
        BY <1>17 DEF LogOutRaises, End, CloseTransport
    <2>2. \E u \in active_session[meta[t]] : transport[u] = "lost"
        <3>1. CASE transport[t] = "lost"
            BY <1>17, <3>1 DEF LogOutRaises
        <3>2. CASE ~PeersKnown(meta[t])
            <4>1. PICK u \in active_session[meta[t]] : transport[u] # "open"
                BY <3>2 DEF PeersKnown
            <4>2. pc[u] \in {"using", "done"} /\ transport[u] \in {"lost", "closed"}
                BY <1>17, <4>1 DEF LogOutRaises
            <4> QED BY <1>17, <4>1, <4>2 DEF LogOutRaises
        <3> QED BY <1>17, <3>1, <3>2 DEF LogOutRaises
    <2>3. LeakNeedsDrop'
        <3>1. UNCHANGED <<active_session, meta>>
            BY <1>17 DEF LogOutRaises
        <3>2. \A u \in Thread : transport[u] = "lost" => transport'[u] = "lost"
            BY <1>17 DEF LogOutRaises, End, CloseTransport
        <3>3. \A u \in Thread : u # t => pc'[u] = pc[u]
            BY <1>17 DEF LogOutRaises, End
        <3>4. ASSUME NEW s \in Server, NEW u \in active_session[s], pc'[u] = "done"
              PROVE  \E w \in active_session[s] : transport[w] = "lost"
            BY <2>2, <3>3, <3>4
        <3> QED BY <3>1, <3>2, <3>4
    <2> QED BY <2>1, <2>3
<1>18. ASSUME NEW t \in Thread, CheckDestroy(t) PROVE BasicInv'
    BY <1>18 DEF CheckDestroy, End, CloseTransport
<1>19. ASSUME NEW a \in Actor, DestroyUnheard(a) PROVE BasicInv'
    BY <1>19 DEF DestroyUnheard, CallsProvider, Raise, End, CloseTransport
<1>20. ASSUME NEW a \in Actor, DestroyServer(a) PROVE BasicInv'
    BY <1>20 DEF DestroyServer, CallsProvider
<1>21. ASSUME NEW a \in Actor, DestroyRaises(a) PROVE BasicInv'
    BY <1>21 DEF DestroyRaises, Raise, End, CloseTransport
<1>22. ASSUME NEW a \in Actor, DestroyReturnsFalse(a) PROVE BasicInv'
    BY <1>22 DEF DestroyReturnsFalse, CallsProvider
<1>23. ASSUME NEW a \in Actor, BeginDelete(a) PROVE BasicInv'
    BY <1>23 DEF BeginDelete
<1>24. ASSUME NEW a \in Actor, EndDelete(a) PROVE BasicInv'
    BY <1>24 DEF EndDelete, End, CloseTransport
<1>25. CASE KillerLoad
    BY <1>25 DEF KillerLoad
<1>26. ASSUME NEW s \in Server, KillerCheck(s) PROVE BasicInv'
    BY <1>26 DEF KillerCheck, Raise, End
<1>27. CASE KillerSleeps
    BY <1>27 DEF KillerSleeps
<1>28. CASE CrashRestart
    <2>1. LobbyTypeOK'
        <3>1. Exposed \subseteq Server
            BY DEF Exposed, records, DBInv, DBTypeOK, OneWriter, DestroyPlaces
        <3> QED BY <1>28, <3>1 DEF CrashRestart
    <2>2. HasServer' /\ OverIsNotOpen' /\ SessionsListed' /\ LeakNeedsDrop'
        BY <1>28, <2>1 DEF CrashRestart, DestroyPlaces
    <2> QED BY <2>1, <2>2
<1>29. CASE UNCHANGED vars
    BY <1>29 DEF vars, lobbyVars
<1> QED BY KillerIsNoThread, <1>1, <1>2, <1>3, <1>4, <1>5, <1>6, <1>7, <1>8,
       <1>9, <1>10, <1>11, <1>12, <1>13, <1>14, <1>15, <1>16, <1>17, <1>18,
       <1>19, <1>20, <1>21, <1>22, <1>23, <1>24, <1>25, <1>26, <1>27, <1>28,
       <1>29
       DEF Next, KillerStep, ThreadStep, Creating, Session, Destroying

\* BasicInv holds at all times.
LEMMA SpecBasicInv == Spec => []BasicInv
BY InitBasicInv, NextBasicInv, PTL DEF Spec

\* The lobby is well typed: every thread stays within its places, and the killer
\* and the sessions within theirs.
THEOREM LobbyTyped == Spec => []TypeOK
BY SpecBasicInv, BasicInvIsTyped, PTL

\* Whatever the interleaving of logins, logouts, broken connections, failed
\* destructions and crashes, active_session lists every session in use, under
\* the server it uses.
THEOREM SessionsListedHolds == Spec => []SessionsListed
<1>1. BasicInv => SessionsListed
    BY DEF BasicInv
<1> QED BY <1>1, SpecBasicInv, PTL

\* Whatever the number of sessions, one that is over stays in the list of its
\* server only if a client of that server broke its connection.
THEOREM LeakNeedsDropHolds == Spec => []LeakNeedsDrop
<1>1. BasicInv => LeakNeedsDrop
    BY DEF BasicInv
<1> QED BY <1>1, SpecBasicInv, PTL

\* Sessions, killer and crashes together use the servers file as ServerDB says,
\* hence as the registry.
THEOREM LobbyImplementsServerDB == Spec => ImplementsServerDB
<1>1. Init => DBInit
    BY DEF Init
<1> QED BY <1>1, NextIsDBStep, SpecBasicInv, PTL DEF Spec, ImplementsServerDB, DBSpec

\* The same for the registry itself: menus, creations, logouts and patrols change
\* one record at one instant, and lose none but in a crash.
THEOREM LobbyImplementsRegistry == Spec => ImplementsRegistry
BY LobbyImplementsServerDB, FileImplementsRegistry DEF ImplementsServerDB

-----------------------------------------------------------------------------
(* Records and servers.                                                    *)

CreatePlaces == {"booting", "record", "recording"}
DeletePlaces == {"delete", "deleting"}

\* A server that does not exist is known to nobody.
UnbornIsUnknown ==
    \A s \in Server : vm[s] = "none" =>
        s \notin records /\ \A a \in Actor : s \notin metas[a] /\ meta[a] # s

\* A server that is being created is known to its creator only.
OnlyCreatorKnows ==
    \A t \in Thread : pc[t] \in CreatePlaces =>
        /\ vm[meta[t]] = "up"
        /\ meta[t] \notin records
        /\ \A a \in Actor : meta[t] \notin metas[a] /\ (a # t => meta[a] # meta[t])

\* The lock is held exactly where a record is written.
LockPlaces == \A a \in Actor : pc[a] \in {"recording", "deleting"} <=> db_lock = a

\* Only the record of a server that is gone, or loose, is being deleted.
DeletedIsGone ==
    \A a \in Actor : pc[a] \in DeletePlaces =>
        meta[a] \in loose \/ vm[meta[a]] = "gone"

TrackInv ==
    /\ UnbornIsUnknown
    /\ OnlyCreatorKnows
    /\ LockPlaces
    /\ DeletedIsGone
    /\ Tracked

LobbyInv == BasicInv /\ TrackInv

(* What the operations of the file do to the records, for the proofs below. *)

\* A step that leaves the file alone leaves the records alone.
LEMMA UnchangedFile ==
    UNCHANGED dbVars => UNCHANGED <<records, metas, db_lock>>
BY DEF dbVars, records

\* A load returns no server without a record.
LEMMA LoadedIsRecorded ==
    ASSUME DBInv, NEW a \in Actor, LoadServers(a)
    PROVE  /\ UNCHANGED <<records, db_lock>>
           /\ \A b \in Actor : metas'[b] \subseteq metas[b] \cup records
BY DEF DBInv, DBTypeOK, OneWriter, LoadServers, load_local_servers, records

\* What is done with a load keeps the records.
LEMMA ForgottenIsSubset ==
    ASSUME DBInv, NEW a \in Actor, ForgetServers(a)
    PROVE  /\ UNCHANGED <<records, db_lock>>
           /\ \A b \in Actor : metas'[b] \subseteq metas[b]
BY DEF DBInv, DBTypeOK, ForgetServers, records

\* An update takes the free lock and leaves the records as they are.
LEMMA BegunIsLocked ==
    ASSUME DBInv, NEW a \in Actor, BeginUpdate(a)
    PROVE  UNCHANGED <<records, metas>> /\ db_lock = NoOne /\ db_lock' = a
BY BeginUpdateStutters DEF BeginUpdate, AcquireLock

\* The end of an update merges into the records and frees the lock.
LEMMA EndedIsMerged ==
    ASSUME DBInv, NEW a \in Actor, NEW new, NEW deleted,
           EndUpdate(a, new, deleted)
    PROVE  /\ records' = Merged(records, new, deleted)
           /\ UNCHANGED metas /\ db_lock = a /\ db_lock' = NoOne
BY EndUpdateWrites DEF EndUpdate, ReleaseLock, DBInv, OneWriter

\* A crash loses the records only in the middle of an update.
LEMMA CrashedIsExposed ==
    ASSUME DBInv, Crash
    PROVE  /\ db_lock' = NoOne
           /\ metas' = [a \in Actor |-> {}]
           /\ \/ db_lock = NoOne /\ records' = records
              \/ db_lock # NoOne /\ records' = {}
BY DEF DBInv, OneWriter, Crash, records

\* LobbyInv holds when lobbyboy starts.
LEMMA InitLobbyInv == Init => LobbyInv
<1> SUFFICES ASSUME Init PROVE LobbyInv
    OBVIOUS
<1>1. records = servers_db /\ servers_db \subseteq Server
    BY DEF Init, DBInit, records
<1>2. UnbornIsUnknown /\ Tracked
    BY <1>1, NoServerAssumption DEF Init, DBInit, UnbornIsUnknown, Tracked
<1>3. OnlyCreatorKnows /\ LockPlaces /\ DeletedIsGone
    BY KillerIsNoThread, ActorAssumption
       DEF Init, DBInit, OnlyCreatorKnows, LockPlaces, DeletedIsGone,
           CreatePlaces, DeletePlaces
<1> QED BY <1>2, <1>3, InitBasicInv DEF LobbyInv, TrackInv

\* Every step of the lobby preserves TrackInv.
LEMMA NextTrackInv == LobbyInv /\ [Next]_vars => TrackInv'
<1> SUFFICES ASSUME LobbyInv, [Next]_vars PROVE TrackInv'
    OBVIOUS
<1>0. BasicInv'
    BY NextBasicInv DEF LobbyInv
<1> USE <1>0, KillerIsNoThread, NoServerAssumption, ActorAssumption
    DEF LobbyInv, BasicInv, LobbyTypeOK, HasServer, ServerPlaces, TrackInv,
        UnbornIsUnknown, OnlyCreatorKnows, LockPlaces, DeletedIsGone, Tracked,
        BeingCreated, BeingDeleted, CreatePlaces, DeletePlaces, KillerPlaces,
        ThreadPlaces, DestroyPlaces, Go
<1>1. ASSUME NEW t \in Thread, Connect(t) PROVE TrackInv'
    BY <1>1, UnchangedFile DEF Connect
<1>2. ASSUME NEW t \in Thread, ClientDrops(t) PROVE TrackInv'
    BY <1>2, UnchangedFile DEF ClientDrops
<1>3. ASSUME NEW t \in Thread, SendRaises(t) PROVE TrackInv'
    BY <1>3, UnchangedFile DEF SendRaises, End, CloseTransport
<1>4. ASSUME NEW t \in Thread, ChooseServer(t) PROVE TrackInv'
    BY <1>4, LoadedIsRecorded DEF ChooseServer, NextPlace
<1>5. ASSUME NEW t \in Thread, NEW s \in Server, PickServer(t, s) PROVE TrackInv'
    BY <1>5, ForgottenIsSubset DEF PickServer
<1>6. ASSUME NEW t \in Thread, PickCreate(t) PROVE TrackInv'
    BY <1>6, ForgottenIsSubset DEF PickCreate
<1>7. ASSUME NEW t \in Thread, Cancel(t) PROVE TrackInv'
    BY <1>7, ForgottenIsSubset DEF Cancel, End, CloseTransport
<1>8. ASSUME NEW t \in Thread, NEW s \in Server, Provision(t, s) PROVE TrackInv'
    BY <1>8, UnchangedFile DEF Provision
<1>9. ASSUME NEW t \in Thread, ProvisionFails(t) PROVE TrackInv'
    BY <1>9, UnchangedFile DEF ProvisionFails, End, CloseTransport
<1>10. ASSUME NEW t \in Thread, BootDone(t) PROVE TrackInv'
    BY <1>10, UnchangedFile DEF BootDone
<1>11. ASSUME NEW t \in Thread, BootAbandoned(t) PROVE TrackInv'
    BY <1>11, UnchangedFile DEF BootAbandoned, End, CloseTransport
<1>12. ASSUME NEW t \in Thread, BeginRecord(t) PROVE TrackInv'
    BY <1>12, BegunIsLocked DEF BeginRecord
<1>13. ASSUME NEW t \in Thread, EndRecord(t) PROVE TrackInv'
    BY <1>13, EndedIsMerged DEF EndRecord, Merged
<1>14. ASSUME NEW t \in Thread, Enter(t) PROVE TrackInv'
    BY <1>14, UnchangedFile DEF Enter, End, CloseTransport
<1>15. ASSUME NEW t \in Thread, Register(t) PROVE TrackInv'
    BY <1>15, UnchangedFile DEF Register, Listed
<1>16. ASSUME NEW t \in Thread, LogOut(t) PROVE TrackInv'
    BY <1>16, UnchangedFile DEF LogOut, Unlisted, PeersKnown
<1>17. ASSUME NEW t \in Thread, LogOutRaises(t) PROVE TrackInv'
    BY <1>17, UnchangedFile DEF LogOutRaises, End, CloseTransport
<1>18. ASSUME NEW t \in Thread, CheckDestroy(t) PROVE TrackInv'
    BY <1>18, UnchangedFile DEF CheckDestroy, End, CloseTransport
<1>19. ASSUME NEW a \in Actor, DestroyUnheard(a) PROVE TrackInv'
    BY <1>19, UnchangedFile DEF DestroyUnheard, CallsProvider, Raise, End, CloseTransport
<1>20. ASSUME NEW a \in Actor, DestroyServer(a) PROVE TrackInv'
    BY <1>20, UnchangedFile DEF DestroyServer, CallsProvider
<1>21. ASSUME NEW a \in Actor, DestroyRaises(a) PROVE TrackInv'
    BY <1>21, UnchangedFile DEF DestroyRaises, Raise, End, CloseTransport
<1>22. ASSUME NEW a \in Actor, DestroyReturnsFalse(a) PROVE TrackInv'
    BY <1>22, UnchangedFile DEF DestroyReturnsFalse, CallsProvider
<1>23. ASSUME NEW a \in Actor, BeginDelete(a) PROVE TrackInv'
    BY <1>23, BegunIsLocked DEF BeginDelete
<1>24. ASSUME NEW a \in Actor, EndDelete(a) PROVE TrackInv'
    BY <1>24, EndedIsMerged DEF EndDelete, End, CloseTransport, Merged
<1>25. CASE KillerLoad
    BY <1>25, LoadedIsRecorded DEF KillerLoad
<1>26. ASSUME NEW s \in Server, KillerCheck(s) PROVE TrackInv'
    BY <1>26, UnchangedFile DEF KillerCheck, Raise, End
<1>27. CASE KillerSleeps
    BY <1>27, ForgottenIsSubset DEF KillerSleeps
<1>28. CASE CrashRestart
    BY <1>28, CrashedIsExposed DEF CrashRestart, Exposed
<1>29. CASE UNCHANGED vars
    BY <1>29, UnchangedFile DEF vars, lobbyVars
<1> QED BY KillerIsNoThread, <1>1, <1>2, <1>3, <1>4, <1>5, <1>6, <1>7, <1>8,
       <1>9, <1>10, <1>11, <1>12, <1>13, <1>14, <1>15, <1>16, <1>17, <1>18,
       <1>19, <1>20, <1>21, <1>22, <1>23, <1>24, <1>25, <1>26, <1>27, <1>28,
       <1>29
       DEF Next, KillerStep, ThreadStep, Creating, Session, Destroying

\* Whatever sessions, killer, providers, clients and crashes do, records and
\* servers agree, but for the servers a failure put in loose.
THEOREM TrackedHolds == Spec => []Tracked
<1>1. BasicInv /\ [Next]_vars => BasicInv'
    BY NextBasicInv
<1>2. LobbyInv /\ [Next]_vars => LobbyInv'
    BY <1>1, NextTrackInv DEF LobbyInv
<1>3. LobbyInv => Tracked
    BY DEF LobbyInv, TrackInv
<1> QED BY <1>2, <1>3, InitLobbyInv, PTL DEF Spec

\* A record that is new was being written by the creator of its server.
LEMMA NewRecordWasCreated ==
    ASSUME LobbyInv, [Next]_vars, NEW s \in Server, s \in records', s \notin records
    PROVE  BeingCreated(s)
<1> USE DEF LobbyInv, BasicInv
<1>1. PICK a \in Actor : pc[a] = "recording" /\ a \in Thread /\ EndUpdate(a, {meta[a]}, {})
    <2>1. ~UNCHANGED dbVars
        BY UnchangedFile
    <2>2. ~Crash
        BY CrashedIsExposed
    <2>3. ASSUME NEW b \in Actor PROVE ~LoadServers(b) /\ ~ForgetServers(b) /\ ~BeginUpdate(b)
        BY LoadedIsRecorded, ForgottenIsSubset, BegunIsLocked
    <2>4. ASSUME NEW b \in Actor PROVE ~EndUpdate(b, {}, {meta[b]})
        BY EndedIsMerged DEF Merged
    <2> QED BY <2>1, <2>2, <2>3, <2>4, FileSteps
<1>2. s = meta[a]
    BY <1>1, EndedIsMerged DEF Merged
<1> QED BY <1>1, <1>2 DEF BeingCreated

\* No step brings back the record of a server that is not running.
THEOREM NoResurrectionHolds == Spec => NoResurrection
<1>1. LobbyInv /\ [Next]_vars => LobbyInv'
    BY NextBasicInv, NextTrackInv DEF LobbyInv
<1>2. ASSUME LobbyInv, [Next]_vars, NEW s \in Server, s \in records', s \notin records
      PROVE  vm[s] = "up"
    BY <1>2, NewRecordWasCreated DEF LobbyInv, TrackInv, OnlyCreatorKnows, CreatePlaces,
       BeingCreated
<1>3. LobbyInv /\ [Next]_vars =>
        [\A s \in Server : s \in records' /\ s \notin records => vm[s] = "up"]_vars
    BY <1>2
<1> QED BY <1>1, <1>3, InitLobbyInv, PTL DEF Spec, NoResurrection

\* The holder of the lock is inside its own update, with no guard left to wait for.
HolderMayEnd ==
    db_lock # NoOne =>
        /\ pc[db_lock] \in {"recording", "deleting"}
        /\ meta[db_lock] \in Server
        /\ local_servers[db_lock] # None

\* Nobody keeps the lock of the servers file, whatever sessions, killer and
\* crashes do.  This is the part of SessionsEnd that is about one state.
THEOREM LockIsGivenBack == Spec => []HolderMayEnd
<1>1. LobbyInv /\ [Next]_vars => LobbyInv'
    BY NextBasicInv, NextTrackInv DEF LobbyInv
<1>2. LobbyInv => HolderMayEnd
    BY DEF LobbyInv, BasicInv, TrackInv, LockPlaces, HasServer, ServerPlaces, DestroyPlaces,
           DBInv, DBTypeOK, OneWriter, HolderMayEnd
<1> QED BY <1>1, <1>2, InitLobbyInv, PTL DEF Spec

-----------------------------------------------------------------------------
(* The life of each server.                                                *)

\* What one step may do to a server at its provider, and to its creation.
ServerMovesOn(s) ==
    /\ \/ vm'[s] = vm[s]
       \/ vm[s] = "none" /\ vm'[s] = "up" /\ BeingCreated(s)'
       \/ vm[s] = "up" /\ vm'[s] = "gone"
    /\ BeingCreated(s)' => BeingCreated(s) \/ vm[s] = "none"

\* Servers are made by their creator, which nobody becomes later, and a server
\* that is gone does not come back.
LEMMA ServersMoveOn ==
    ASSUME BasicInv, [Next]_vars, NEW s \in Server PROVE ServerMovesOn(s)
<1> USE KillerIsNoThread
    DEF BasicInv, LobbyTypeOK, HasServer, ServerPlaces, DestroyPlaces,
        ServerMovesOn, BeingCreated, Go
<1>1. ASSUME NEW a \in Actor, Destroying(a) PROVE ServerMovesOn(s)
    <2>1. \A t \in Thread : pc'[t] \in CreatePlaces => pc'[t] = pc[t]
        BY <1>1 DEF Destroying, DestroyServer, DestroyUnheard, DestroyRaises, Raise, End,
                    DestroyReturnsFalse, BeginDelete, EndDelete, CreatePlaces
    <2>2. vm'[s] = vm[s] \/ (vm[s] = "up" /\ vm'[s] = "gone")
        BY <1>1 DEF Destroying, DestroyServer, DestroyUnheard, DestroyRaises,
                    DestroyReturnsFalse, BeginDelete, EndDelete
    <2>3. UNCHANGED meta
        BY <1>1 DEF Destroying, DestroyServer, DestroyUnheard, DestroyRaises,
                    DestroyReturnsFalse, BeginDelete, EndDelete
    <2> QED BY <2>1, <2>2, <2>3 DEF CreatePlaces
<1>2. CASE KillerLoad \/ KillerSleeps \/ \E r \in Server : KillerCheck(r)
    BY <1>2 DEF KillerLoad, KillerSleeps, KillerCheck, Raise, End
<1>3. ASSUME NEW t \in Thread, NEW r \in Server, Provision(t, r) PROVE ServerMovesOn(s)
    <2>1. \A u \in Thread \ {t} : pc'[u] = pc[u] /\ meta'[u] = meta[u]
        BY <1>3 DEF Provision
    <2>2. pc'[t] = "booting" /\ meta'[t] = r /\ vm[r] = "none" /\ vm'[r] = "up"
        BY <1>3 DEF Provision
    <2>3. s # r => vm'[s] = vm[s]
        BY <1>3 DEF Provision
    <2> QED BY <2>1, <2>2, <2>3
<1>4. ASSUME NEW t \in Thread,
             \/ ProvisionFails(t) \/ BootDone(t) \/ BootAbandoned(t)
             \/ BeginRecord(t) \/ EndRecord(t)
      PROVE  ServerMovesOn(s)
    BY <1>4 DEF ProvisionFails, BootDone, BootAbandoned, BeginRecord, EndRecord, End
<1>5. ASSUME NEW t \in Thread, Session(t) PROVE ServerMovesOn(s)
    BY <1>5 DEF Session, Enter, Register, LogOut, LogOutRaises, CheckDestroy, End
<1>6. ASSUME NEW t \in Thread,
             \/ Connect(t) \/ ClientDrops(t) \/ SendRaises(t) \/ ChooseServer(t)
             \/ PickCreate(t) \/ Cancel(t) \/ \E r \in Server : PickServer(t, r)
      PROVE  ServerMovesOn(s)
    BY <1>6 DEF Connect, ClientDrops, SendRaises, ChooseServer, NextPlace,
                PickCreate, Cancel, PickServer, End
<1>7. CASE CrashRestart
    BY <1>7 DEF CrashRestart
<1>8. CASE UNCHANGED vars
    BY <1>8 DEF vars, lobbyVars
<1> QED BY <1>1, <1>2, <1>3, <1>4, <1>5, <1>6, <1>7, <1>8
       DEF Next, KillerStep, ThreadStep, Creating

\* Sessions, killer and crashes implement the life of a server.
THEOREM LobbyImplementsServerLife == Spec => ImplementsServerLife
<1>1. ASSUME Init PROVE L!Init
    BY <1>1 DEF Init, DBInit, L!Init, life, records, BeingCreated, Thread
<1>2. LobbyInv /\ [Next]_vars => LobbyInv'
    BY NextBasicInv, NextTrackInv DEF LobbyInv
<1>3. ASSUME LobbyInv, [Next]_vars PROVE [L!Next]_life
    <2>1. life' \in [Server -> DOMAIN L!After]
        BY <1>2, <1>3 DEF life, L!After, LobbyInv, BasicInv, LobbyTypeOK
    <2>2. ASSUME NEW s \in Server PROVE life'[s] = life[s] \/ life'[s] \in L!After[life[s]]
        <3>1. ServerMovesOn(s)
            BY <1>3, ServersMoveOn DEF LobbyInv
        <3>2. s \in records' /\ s \notin records => BeingCreated(s)
            BY <1>3, NewRecordWasCreated
        <3>3. vm[s] = "none" => s \notin records /\ ~BeingCreated(s)
            BY <1>3, KillerIsNoThread DEF LobbyInv, TrackInv, UnbornIsUnknown, BeingCreated
        <3>4. BeingCreated(s) => s \notin records
            BY <1>3 DEF LobbyInv, TrackInv, OnlyCreatorKnows, CreatePlaces, BeingCreated
        <3>5. vm[s] \in {"none", "up", "gone"}
            BY <1>3 DEF LobbyInv, BasicInv, LobbyTypeOK
        <3>6. life[s] = IF vm[s] # "up" THEN vm[s]
                        ELSE IF s \in records THEN "listed"
                        ELSE IF BeingCreated(s) THEN "made" ELSE "lost"
            BY DEF life
        <3>7. life'[s] = IF vm'[s] # "up" THEN vm'[s]
                         ELSE IF s \in records' THEN "listed"
                         ELSE IF BeingCreated(s)' THEN "made" ELSE "lost"
            BY DEF life
        <3> QED BY <3>1, <3>2, <3>3, <3>4, <3>5, <3>6, <3>7 DEF ServerMovesOn, L!After
    <2> QED BY <2>1, <2>2 DEF L!Next
<1> QED BY <1>1, <1>2, <1>3, InitLobbyInv, PTL DEF Spec, ImplementsServerLife, L!Spec

-----------------------------------------------------------------------------
(* Servers destroyed under their users, and servers destroyed twice.       *)

\* A server is condemned by its last session or by the killer, and only when
\* its list is empty.
LEMMA CondemnedWhenIdle ==
    ASSUME BasicInv, [Next]_vars, NEW s \in Server, Condemned(s)', ~Condemned(s)
    PROVE  active_session[s] = {}
<1> USE KillerIsNoThread, NoServerAssumption
    DEF BasicInv, LobbyTypeOK, HasServer, ServerPlaces, DestroyPlaces, Condemned, Go
<1>1. ASSUME NEW t \in Thread, CheckDestroy(t) PROVE active_session[s] = {}
    BY <1>1 DEF CheckDestroy, NeedDestroy, End
<1>2. ASSUME NEW r \in Server, KillerCheck(r) PROVE active_session[s] = {}
    BY <1>2 DEF KillerCheck, NeedDestroy, Raise, End
<1>3. ASSUME NEW a \in Actor, Destroying(a) PROVE FALSE
    BY <1>3 DEF Destroying, DestroyServer, DestroyUnheard, DestroyRaises, Raise, End,
                DestroyReturnsFalse, CallsProvider, BeginDelete, EndDelete
<1>4. CASE KillerLoad \/ KillerSleeps
    BY <1>4 DEF KillerLoad, KillerSleeps
<1>5. ASSUME NEW t \in Thread, Creating(t) PROVE FALSE
    BY <1>5 DEF Creating, Provision, ProvisionFails, BootDone, BootAbandoned,
                BeginRecord, EndRecord, End
<1>6. ASSUME NEW t \in Thread, Session(t), ~CheckDestroy(t) PROVE FALSE
    BY <1>6 DEF Session, Enter, Register, LogOut, LogOutRaises, End
<1>7. ASSUME NEW t \in Thread,
             \/ Connect(t) \/ ClientDrops(t) \/ SendRaises(t) \/ ChooseServer(t)
             \/ PickCreate(t) \/ Cancel(t) \/ \E r \in Server : PickServer(t, r)
      PROVE  FALSE
    BY <1>7 DEF Connect, ClientDrops, SendRaises, ChooseServer, NextPlace,
                PickCreate, Cancel, PickServer, End
<1>8. CASE CrashRestart
    BY <1>8 DEF CrashRestart
<1>9. CASE UNCHANGED vars
    BY <1>9 DEF vars, lobbyVars
<1> QED BY <1>1, <1>2, <1>3, <1>4, <1>5, <1>6, <1>7, <1>8, <1>9
       DEF Next, KillerStep, ThreadStep

\* A server in use is not condemned, whatever sessions and killer read and when.
THEOREM InUseKeptHolds == Spec => InUseKept
<1>1. ASSUME BasicInv, [Next]_vars, NEW s \in Server, InUse(s), Condemned(s)'
      PROVE  Condemned(s)
    <2>1. active_session[s] # {}
        BY <1>1 DEF InUse, BasicInv, SessionsListed
    <2> QED BY <1>1, <2>1, CondemnedWhenIdle
<1>2. BasicInv /\ [Next]_vars =>
        [\A s \in Server : InUse(s) /\ Condemned(s)' => Condemned(s)]_vars
    BY <1>1
<1> QED BY <1>2, SpecBasicInv, PTL DEF Spec, InUseKept

\* Somebody else than the killer answers for the end of a server.
Answered(s) == s \in loose \/ SessionAnswers(s)

\* The servers the killer still has before it in its round are not of its own
\* destroying; those it has dealt with it does not meet again.  The one it goes
\* to destroy is managed.
RoundInv ==
    /\ pc[Killer] \in DestroyPlaces => meta[Killer] \in visited
    /\ pc[Killer] = "destroy" => meta[Killer] \notin Unmanaged
    /\ \A s \in metas[Killer] \ visited : vm[s] = "gone" => Answered(s)
    /\ KillerNotTwice

\* Who answers for a server keeps answering for it, but for a crash.
LEMMA StillAnswered ==
    ASSUME BasicInv, [Next]_vars, ~CrashRestart, NEW s \in Server, Answered(s)
    PROVE  Answered(s)'
<1> DEFINE Over(t) == pc[t] \in {"delete", "deleting", "done"}
<1> DEFINE Stays(t) == Over(t) => Over(t)' /\ meta'[t] = meta[t]
<1> SUFFICES (\A t \in Thread : Stays(t)) /\ loose \subseteq loose'
    BY DEF Answered, SessionAnswers
<1> USE KillerIsNoThread DEF BasicInv, LobbyTypeOK, Go
<1>1. ASSUME NEW a \in Actor, Destroying(a)
      PROVE  (\A t \in Thread : Stays(t)) /\ loose \subseteq loose'
    BY <1>1 DEF Destroying, DestroyServer, DestroyUnheard, DestroyRaises, Raise, End,
                DestroyReturnsFalse, BeginDelete, EndDelete
<1>2. CASE KillerLoad \/ KillerSleeps \/ \E r \in Server : KillerCheck(r)
    BY <1>2 DEF KillerLoad, KillerSleeps, KillerCheck, Raise
<1>3. ASSUME NEW u \in Thread, Creating(u)
      PROVE  (\A t \in Thread : Stays(t)) /\ loose \subseteq loose'
    BY <1>3 DEF Creating, Provision, ProvisionFails, BootDone, BootAbandoned,
                BeginRecord, EndRecord, End
<1>4. ASSUME NEW u \in Thread, Session(u)
      PROVE  (\A t \in Thread : Stays(t)) /\ loose \subseteq loose'
    BY <1>4 DEF Session, Enter, Register, LogOut, LogOutRaises, CheckDestroy, End
<1>5. ASSUME NEW u \in Thread,
             \/ Connect(u) \/ ClientDrops(u) \/ SendRaises(u) \/ ChooseServer(u)
             \/ PickCreate(u) \/ Cancel(u) \/ \E r \in Server : PickServer(u, r)
      PROVE  (\A t \in Thread : Stays(t)) /\ loose \subseteq loose'
    BY <1>5 DEF Connect, ClientDrops, SendRaises, ChooseServer, NextPlace,
                PickCreate, Cancel, PickServer, End
<1>6. CASE UNCHANGED vars
    BY <1>6 DEF vars, lobbyVars
<1> HIDE DEF Stays
<1> QED BY <1>1, <1>2, <1>3, <1>4, <1>5, <1>6 DEF Next, KillerStep, ThreadStep

\* A session that takes a step answers for the server it destroys, and leaves
\* the killer alone.
LEMMA ThreadBesideKiller ==
    ASSUME BasicInv, NEW t \in Thread, Connect(t) \/ ClientDrops(t) \/ ThreadStep(t)
    PROVE  /\ pc'[Killer] = pc[Killer] /\ meta'[Killer] = meta[Killer]
           /\ metas'[Killer] = metas[Killer] /\ visited' = visited
           /\ \A s \in Server : vm'[s] = "gone" => vm[s] = "gone" \/ Answered(s)'
<1> USE KillerIsNoThread DEF BasicInv, LobbyTypeOK, HasServer, ServerPlaces,
                             DestroyPlaces, Go, DBInv, DBTypeOK, dbVars
<1>1. CASE Destroying(t)
    <2>1. pc'[Killer] = pc[Killer] /\ UNCHANGED <<meta, visited>> /\ metas' = metas
        BY <1>1 DEF Destroying, DestroyServer, DestroyUnheard, DestroyRaises, Raise, End,
                    DestroyReturnsFalse, BeginDelete, BeginUpdate, EndDelete, EndUpdate
    <2>2. \/ vm' = vm
          \/ /\ pc'[t] \in {"delete", "done"}
             /\ vm' = [vm EXCEPT ![meta[t]] = "gone"]
        BY <1>1 DEF Destroying, DestroyServer, DestroyUnheard, DestroyRaises, Raise, End,
                    DestroyReturnsFalse, BeginDelete, EndDelete
    <2> QED BY <2>1, <2>2 DEF Answered, SessionAnswers
<1>2. CASE Creating(t)
    <2>1. pc'[Killer] = pc[Killer] /\ meta'[Killer] = meta[Killer] /\ visited' = visited
        BY <1>2 DEF Creating, Provision, ProvisionFails, BootDone, BootAbandoned,
                    BeginRecord, EndRecord, End
    <2>2. metas' = metas
        BY <1>2 DEF Creating, Provision, ProvisionFails, BootDone, BootAbandoned,
                    BeginRecord, BeginUpdate, EndRecord, EndUpdate
    <2>3. vm' = vm \/ \E s \in Server : vm' = [vm EXCEPT ![s] = "up"]
        BY <1>2 DEF Creating, Provision, ProvisionFails, BootDone, BootAbandoned,
                    BeginRecord, EndRecord
    <2> QED BY <2>1, <2>2, <2>3
<1>3. CASE Session(t)
    BY <1>3 DEF Session, Enter, Register, LogOut, LogOutRaises, CheckDestroy, End
<1>4. CASE \/ Connect(t) \/ ClientDrops(t) \/ SendRaises(t) \/ ChooseServer(t)
           \/ PickCreate(t) \/ Cancel(t) \/ \E r \in Server : PickServer(t, r)
    BY <1>4 DEF Connect, ClientDrops, SendRaises, ChooseServer, NextPlace, LoadServers,
                PickCreate, Cancel, PickServer, ForgetServers, End
<1> QED BY <1>1, <1>2, <1>3, <1>4 DEF ThreadStep

\* Every step keeps RoundInv.  A round begins with what the file holds: a
\* server that is gone but has a record there is being deleted by a session, or
\* loose.
LEMMA NextRoundInv == LobbyInv /\ RoundInv /\ [Next]_vars => RoundInv'
<1> SUFFICES ASSUME LobbyInv, RoundInv, [Next]_vars PROVE RoundInv'
    OBVIOUS
<1>0. BasicInv /\ \A s \in Server : Answered(s) /\ ~CrashRestart => Answered(s)'
    BY StillAnswered DEF LobbyInv
<1>t. KillerNotTwice <=>
        \A s \in Server : pc[Killer] = "destroy" /\ meta[Killer] = s /\ vm[s] = "gone" => Answered(s)
    BY <1>0, KillerIsNoThread
       DEF KillerNotTwice, Answered, SessionAnswers, BasicInv, HasServer, ServerPlaces, DestroyPlaces
<1>u. KillerNotTwice' <=>
        \A s \in Server : pc'[Killer] = "destroy" /\ meta'[Killer] = s /\ vm'[s] = "gone" => Answered(s)'
    BY <1>0, NextBasicInv, KillerIsNoThread
       DEF LobbyInv, KillerNotTwice, Answered, SessionAnswers, BasicInv, HasServer, ServerPlaces, DestroyPlaces
<1>v. /\ metas[Killer] \subseteq Server /\ visited \subseteq Server
      /\ pc[Killer] \in DestroyPlaces => meta[Killer] \in Server
    BY <1>0, KillerIsNoThread
       DEF BasicInv, DBInv, DBTypeOK, LobbyTypeOK, HasServer, ServerPlaces
<1> USE <1>t, <1>u, <1>v, KillerIsNoThread DEF RoundInv, DestroyPlaces, Go
<1>1. ASSUME NEW t \in Thread, Connect(t) \/ ClientDrops(t) \/ ThreadStep(t)
      PROVE  RoundInv'
    <2>1. ~CrashRestart \/ RoundInv'
        BY DEF CrashRestart, Crash, BasicInv, DBInv, DBTypeOK
    <2>2. /\ pc'[Killer] = pc[Killer] /\ meta'[Killer] = meta[Killer]
          /\ metas'[Killer] = metas[Killer] /\ visited' = visited
          /\ \A s \in Server : vm'[s] = "gone" => vm[s] = "gone" \/ Answered(s)'
        BY <1>0, <1>1, ThreadBesideKiller
    <2> QED BY <1>0, <2>1, <2>2
<1>2. CASE CrashRestart
    BY <1>2 DEF CrashRestart, Crash
<1>3. CASE KillerLoad
    <2>1. /\ pc'[Killer] = "patrol" /\ metas'[Killer] = servers_db
          /\ UNCHANGED <<vm, meta, loose>>
          /\ \A t \in Thread : pc'[t] = pc[t]
        BY <1>0, <1>3
           DEF KillerLoad, LoadServers, load_local_servers, BasicInv, LobbyTypeOK, DBInv, DBTypeOK
    <2>2. servers_db \subseteq records
        BY <1>0 DEF records, BasicInv, DBInv, OneWriter
    <2>3. ASSUME NEW s \in servers_db, vm[s] = "gone" PROVE Answered(s)'
        <3>1. s \in Server
            BY <1>0 DEF BasicInv, DBInv, DBTypeOK
        <3>2. s \in loose \/ BeingDeleted(s)
            BY <2>2, <2>3, <3>1 DEF LobbyInv, TrackInv, Tracked
        <3>3. pc[Killer] = "sleep"
            BY <1>3 DEF KillerLoad
        <3> QED BY <2>1, <3>2, <3>3 DEF BeingDeleted, Answered, SessionAnswers, Thread
    <2> QED BY <2>1, <2>3
<1>4. ASSUME NEW r \in Server, KillerCheck(r) PROVE RoundInv'
    <2>1. /\ r \in metas[Killer] \ visited /\ visited' = visited \cup {r}
          /\ UNCHANGED <<vm, metas, loose>>
        BY <1>4 DEF KillerCheck, dbVars
    <2>2. /\ \/ pc'[Killer] = "destroy" /\ meta'[Killer] = r /\ r \notin Unmanaged
             \/ pc'[Killer] \in {"patrol", "dead"} /\ meta' = meta
          /\ \A t \in Thread : pc'[t] = pc[t] /\ meta'[t] = meta[t]
        BY <1>0, <1>4 DEF KillerCheck, NeedDestroy, Raise, BasicInv, LobbyTypeOK
    <2>3. \A s \in Server : Answered(s) => Answered(s)'
        BY <2>1, <2>2 DEF Answered, SessionAnswers
    <2> QED BY <2>1, <2>2, <2>3
<1>5. CASE KillerSleeps
    <2>1. pc'[Killer] = "sleep" /\ metas'[Killer] = {}
        BY <1>0, <1>5 DEF KillerSleeps, ForgetServers, BasicInv, LobbyTypeOK, DBInv, DBTypeOK
    <2> QED BY <2>1
<1>6. CASE Destroying(Killer)
    <2>1. /\ pc'[Killer] \in {"delete", "deleting", "patrol", "dead"}
          /\ pc'[Killer] \in DestroyPlaces => pc[Killer] \in DestroyPlaces
          /\ UNCHANGED <<meta, visited, metas>>
        BY <1>0, <1>6 DEF Destroying, DestroyServer, DestroyUnheard, DestroyRaises, Raise,
                    DestroyReturnsFalse, CallsProvider, BeginDelete, BeginUpdate,
                    EndDelete, EndUpdate, dbVars, BasicInv, LobbyTypeOK
    <2>2. \A s \in Server \ visited : vm'[s] = vm[s]
        BY <1>0, <1>6 DEF Destroying, DestroyServer, DestroyUnheard, DestroyRaises,
                    DestroyReturnsFalse, CallsProvider, BeginDelete, EndDelete,
                    BasicInv, LobbyTypeOK
    <2>3. ~CrashRestart
        BY <2>1, <1>6 DEF CrashRestart, BasicInv, LobbyTypeOK
    <2> QED BY <1>0, <2>1, <2>2, <2>3
<1>7. CASE UNCHANGED vars
    BY <1>7 DEF vars, lobbyVars, dbVars, Answered, SessionAnswers
<1> QED BY <1>1, <1>2, <1>3, <1>4, <1>5, <1>6, <1>7 DEF Next, KillerStep

\* RoundInv holds when lobbyboy starts: the killer sleeps.
LEMMA InitRoundInv == Init => RoundInv
BY KillerIsNoThread DEF Init, DBInit, RoundInv, KillerNotTwice, DestroyPlaces

\* Both invariants and RoundInv hold at all times.
LEMMA SpecRoundInv == Spec => [](LobbyInv /\ RoundInv)
<1>1. LobbyInv /\ [Next]_vars => LobbyInv'
    BY NextBasicInv, NextTrackInv DEF LobbyInv
<1> QED BY <1>1, InitLobbyInv, InitRoundInv, NextRoundInv, PTL DEF Spec

\* The killer finds a server destroyed only by another's doing or after a
\* failure: alone it destroys no server twice.
THEOREM KillerNotTwiceHolds == Spec => []KillerNotTwice
<1>1. RoundInv => KillerNotTwice
    BY DEF RoundInv
<1> QED BY <1>1, SpecRoundInv, PTL

\* What ends the killer: a record it can not deal with, or a destroy that fails
\* for a reason of its own.  Neither an unmanaged server, nor one in use, nor
\* one it has destroyed itself is such a reason.
THEOREM KillerDiesForAReasonHolds == Spec => KillerDiesForAReason
<1>1. ASSUME LobbyInv, RoundInv, [Next]_vars, pc[Killer] # "dead", pc'[Killer] = "dead"
      PROVE  LoopMayRaise \/ DestroyKillsKiller
    <2> USE KillerIsNoThread DEF LobbyInv, BasicInv, LobbyTypeOK, Go
    <2>1. ASSUME NEW s \in Server, KillerCheck(s) PROVE LoopMayRaise
        BY <1>1, <2>1, BillingAssumption DEF KillerCheck, NeedDestroy, LoopMayRaise
    <2>2. CASE Destroying(Killer)
        <3>1. DestroyUnheard(Killer) \/ DestroyRaises(Killer)
            BY <1>1, <2>2 DEF Destroying, DestroyServer, DestroyReturnsFalse,
                              BeginDelete, EndDelete
        <3>2. pc[Killer] = "destroy" /\ meta[Killer] \notin Unmanaged
            BY <1>1, <3>1 DEF DestroyUnheard, DestroyRaises, CallsProvider, RoundInv
        <3>3. ProviderMayFail \/ vm[meta[Killer]] = "gone"
            BY <3>1, <3>2 DEF DestroyUnheard, AnswerMayBeLost, DestroyRaises,
                              DestroyMayRaise, DestroyMayFail
        <3> QED BY <1>1, <3>2, <3>3 DEF RoundInv, KillerNotTwice, DestroyKillsKiller
    <2>3. CASE KillerLoad \/ KillerSleeps \/ CrashRestart
        BY <1>1, <2>3 DEF KillerLoad, KillerSleeps, CrashRestart
    <2>4. ASSUME NEW t \in Thread, Connect(t) \/ ClientDrops(t) \/ ThreadStep(t)
          PROVE  FALSE
        BY <1>1, <2>4, ThreadBesideKiller
    <2>5. CASE UNCHANGED vars
        BY <1>1, <2>5 DEF vars, lobbyVars
    <2> QED BY <1>1, <2>1, <2>2, <2>3, <2>4, <2>5 DEF Next, KillerStep
<1>2. LobbyInv /\ RoundInv /\ [Next]_vars =>
        [pc[Killer] # "dead" /\ pc'[Killer] = "dead" =>
            LoopMayRaise \/ DestroyKillsKiller]_vars
    BY <1>1
<1> QED BY <1>2, SpecRoundInv, PTL DEF Spec, KillerDiesForAReason
=============================================================================
