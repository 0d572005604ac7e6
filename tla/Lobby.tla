------------------------------- MODULE Lobby -------------------------------
(***************************************************************************)
(* The life of the servers lobbyboy provisions: the session threads        *)
(* (socket_handle.py), the killer thread (server_killer.py), the servers   *)
(* file they share (ServerDB), the active_session map they share, and the  *)
(* providers behind them.                                                  *)
(*                                                                         *)
(* A thread handles one ssh connection.  It shows the menu of servers, or  *)
(* creates one, proxies the client to it, and when the proxied ssh ends it *)
(* may destroy the server.  The killer destroys servers on its own.        *)
(* Neither takes a lock across a decision and the action it leads to.      *)
(***************************************************************************)
EXTENDS ServerDB

CONSTANTS
    Killer,          \* the thread that runs ServerKiller.patrol
    Unmanaged,       \* servers whose record says manage = false
    Foreign,         \* servers whose record names a provider not configured
    FailureStyle,    \* how a provider reports a failed destroy
    ProviderMayFail, \* whether calls on a healthy server may fail
    ClientMayDrop,   \* whether connections may break
    BillingAnswers   \* what the clock and the bill may answer (see Billing)

Thread == Actor \ {Killer}

ASSUME KillerAssumption == Killer \in Actor
ASSUME ServerKindsAssumption == Unmanaged \subseteq Server /\ Foreign \subseteq Server
ASSUME StyleAssumption == FailureStyle \subseteq {"raise", "false"}
ASSUME BillingAssumption == BillingAnswers \subseteq {"destroy", "keep", "error"}
ASSUME SwitchAssumption == ProviderMayFail \in BOOLEAN /\ ClientMayDrop \in BOOLEAN

VARIABLES
    vm,             \* what exists at the provider: "none", "up" or "gone"
    active_session, \* per server, the threads whose transport is listed
    pc,             \* where each thread is
    meta,           \* the server each thread is dealing with
    transport,      \* per thread, its ssh transport
    visited,        \* the servers the killer has dealt with in this round
    loose           \* history: servers whose record and vm went out of step

lobbyVars == <<vm, active_session, pc, meta, transport, visited, loose>>
vars == <<dbVars, lobbyVars>>

\* Where a thread stands.  The killer uses "patrol" and "sleep" as well.
DestroyPlaces == {"destroy", "delete", "deleting"}
KillerPlaces == {"sleep", "patrol", "dead"} \cup DestroyPlaces
ThreadPlaces == {"idle", "choose_server", "menu", "create_server", "booting",
                 "record", "recording", "enter", "spawned", "using", "check",
                 "done"} \cup DestroyPlaces

-----------------------------------------------------------------------------

Init ==
    /\ DBInit
    /\ vm = [s \in Server |-> IF s \in servers_db THEN "up" ELSE "none"]
    /\ active_session = [s \in Server |-> {}]
    /\ pc = [a \in Actor |-> IF a = Killer THEN "sleep" ELSE "idle"]
    /\ meta = [a \in Actor |-> NoServer]
    /\ transport = [t \in Thread |-> "none"]
    /\ visited = {}
    /\ loose = {}

Go(a, place) == pc' = [pc EXCEPT ![a] = place]

\* The thread is over: cleanup closes the transport, if it is still there.
CloseTransport(t) ==
    transport' = [transport EXCEPT ![t] = IF @ = "open" THEN "closed" ELSE @]

End(t) == Go(t, "done") /\ CloseTransport(t)

\* An exception: nothing in patrol catches one, so the killer thread dies;
\* run catches it in a session thread and calls cleanup(t) without a meta.
Raise(a) ==
    IF a = Killer
    THEN Go(a, "dead") /\ UNCHANGED transport
    ELSE End(a)

-----------------------------------------------------------------------------
(* The connection.                                                         *)

\* runserver accepts, the thread starts, and a shell was asked for.
Connect(t) ==
    /\ pc[t] = "idle"
    /\ Go(t, "choose_server")
    /\ transport' = [transport EXCEPT ![t] = "open"]
    /\ UNCHANGED <<dbVars, vm, active_session, meta, visited, loose>>

\* The connection breaks.  The transport's own thread closes the socket; the
\* session thread finds out only when it next uses it.
ClientDrops(t) ==
    /\ ClientMayDrop
    /\ transport[t] = "open"
    /\ transport' = [transport EXCEPT ![t] = "lost"]
    /\ UNCHANGED <<dbVars, vm, active_session, pc, meta, visited, loose>>

\* A message to a client that is gone raises.  These are the places where the
\* thread sends one and no session, new server or lock is in its hands.
SendRaises(t) ==
    /\ pc[t] \in {"choose_server", "create_server", "enter", "check", "destroy"}
    /\ transport[t] = "lost"
    /\ End(t)
    /\ UNCHANGED <<dbVars, vm, active_session, meta, visited, loose>>

-----------------------------------------------------------------------------
(* choose_server: the menu is built from an unlocked load.                 *)

NextPlace(available_servers) ==
    IF available_servers = {} THEN "create_server" ELSE "menu"

ChooseServer(t) ==
    /\ pc[t] = "choose_server"
    /\ LoadServers(t)
    /\ Go(t, NextPlace(load_local_servers))
    /\ UNCHANGED <<vm, active_session, meta, transport, visited, loose>>

PickServer(t, s) ==
    /\ pc[t] = "menu"
    /\ transport[t] = "open"
    /\ s \in metas[t]
    /\ meta' = [meta EXCEPT ![t] = s]
    /\ Go(t, "enter")
    /\ ForgetServers(t)
    /\ UNCHANGED <<vm, active_session, transport, visited, loose>>

PickCreate(t) ==
    /\ pc[t] = "menu"
    /\ transport[t] = "open"
    /\ Go(t, "create_server")
    /\ ForgetServers(t)
    /\ UNCHANGED <<vm, active_session, meta, transport, visited, loose>>

\* Ctrl-C or Ctrl-D at a prompt: UserCancelException.
Cancel(t) ==
    /\ pc[t] \in {"menu", "create_server"}
    /\ transport[t] = "open"
    /\ End(t)
    /\ ForgetServers(t)
    /\ UNCHANGED <<vm, active_session, meta, visited, loose>>

-----------------------------------------------------------------------------
(* create_server: the provider makes the server, waits until it answers,   *)
(* and only then does lobbyboy write its record.                           *)

\* The client has answered the prompts, so it was there when this began; the
\* provider then makes the server, whatever happens to the client.
Provision(t, s) ==
    /\ pc[t] = "create_server"
    /\ transport[t] = "open"
    /\ s \notin Foreign \cup Unmanaged
    /\ vm[s] = "none"
    /\ vm' = [vm EXCEPT ![s] = "up"]
    /\ meta' = [meta EXCEPT ![t] = s]
    /\ Go(t, "booting")
    /\ UNCHANGED <<dbVars, active_session, transport, visited, loose>>

\* The provider refuses before anything exists.
ProvisionFails(t) ==
    /\ pc[t] = "create_server"
    /\ ProviderMayFail
    /\ End(t)
    /\ UNCHANGED <<dbVars, vm, active_session, meta, visited, loose>>

BootDone(t) ==
    /\ pc[t] = "booting"
    /\ Go(t, "record")
    /\ UNCHANGED <<dbVars, vm, active_session, meta, transport, visited, loose>>

\* The server exists, but the "." of time_process_action finds no client, or
\* a call of the provider fails: create_server raises and nobody records it.
BootAbandoned(t) ==
    /\ pc[t] = "booting"
    /\ transport[t] = "lost" \/ ProviderMayFail
    /\ End(t)
    /\ loose' = loose \cup {meta[t]}
    /\ UNCHANGED <<dbVars, vm, active_session, meta, visited>>

BeginRecord(t) ==
    /\ pc[t] = "record"
    /\ BeginUpdate(t)
    /\ Go(t, "recording")
    /\ UNCHANGED <<vm, active_session, meta, transport, visited, loose>>

EndRecord(t) ==
    /\ pc[t] = "recording"
    /\ EndUpdate(t, {meta[t]}, {})
    /\ Go(t, "enter")
    /\ UNCHANGED <<vm, active_session, meta, transport, visited, loose>>

-----------------------------------------------------------------------------
(* The proxied session.                                                    *)

\* Popen starts the ssh command; active_session is not yet told.
Enter(t) ==
    /\ pc[t] = "enter"
    /\ transport[t] = "open"
    /\ IF meta[t] \in Foreign
       THEN End(t)
       ELSE Go(t, "spawned") /\ UNCHANGED transport
    /\ UNCHANGED <<dbVars, vm, active_session, meta, visited, loose>>

Listed(sessions, t) == sessions \cup {t}

Register(t) ==
    /\ pc[t] = "spawned"
    /\ active_session' =
         [active_session EXCEPT ![meta[t]] = Listed(active_session[meta[t]], t)]
    /\ Go(t, "using")
    /\ UNCHANGED <<dbVars, vm, meta, transport, visited, loose>>

\* getpeername answers only while the socket is there, and remove_server_session
\* asks it of every transport in the list before it drops any.
PeersKnown(s) == \A u \in active_session[s] : transport[u] = "open"

\* The whole list dropped with the first session that leaves.
UnlistedAll(sessions, t) == {}

\* A session dropped only when it is the last one.
UnlistedLast(sessions, t) == IF sessions = {t} THEN {} ELSE sessions

\* A session never dropped.
UnlistedNever(sessions, t) == sessions

Unlisted(sessions, t) == sessions \ {t}

\* The proxied ssh has ended: the session leaves the list.
LogOut(t) ==
    /\ pc[t] = "using"
    /\ transport[t] = "open"
    /\ PeersKnown(meta[t])
    /\ active_session' =
         [active_session EXCEPT ![meta[t]] = Unlisted(active_session[meta[t]], t)]
    /\ Go(t, "check")
    /\ UNCHANGED <<dbVars, vm, meta, transport, visited, loose>>

\* The goodbye message or a getpeername raises: cleanup(t) runs without a
\* meta, and the list keeps the session of a thread that is over.
LogOutRaises(t) ==
    /\ pc[t] = "using"
    /\ transport[t] = "lost" \/ ~PeersKnown(meta[t])
    /\ End(t)
    /\ UNCHANGED <<dbVars, vm, active_session, meta, visited, loose>>

-----------------------------------------------------------------------------
(* Destruction, by the killer and by the thread of the last session.       *)

\* The manage flag not looked at.
NeedDestroyUnmanaged(s) ==
    IF active_session[s] # {} THEN {"keep"} ELSE BillingAnswers

\* need_destroy reads active_session and manage; the rest is the bill.
NeedDestroy(s) ==
    IF active_session[s] # {} \/ s \in Unmanaged THEN {"keep"} ELSE BillingAnswers

CheckDestroy(t) ==
    /\ pc[t] = "check"
    /\ transport[t] = "open"
    /\ \/ "destroy" \in NeedDestroy(meta[t]) /\ Go(t, "destroy") /\ UNCHANGED transport
       \/ NeedDestroy(meta[t]) \cap {"keep", "error"} # {} /\ End(t)
    /\ UNCHANGED <<dbVars, vm, active_session, meta, visited, loose>>

\* destroy has a check of its own: the provider is called for managed servers.
CallsProvider(a) == pc[a] = "destroy" /\ meta[a] \notin Unmanaged

\* provider.destroy_server succeeds.
DestroyServer(a) ==
    /\ CallsProvider(a)
    /\ vm[meta[a]] = "up"
    /\ vm' = [vm EXCEPT ![meta[a]] = "gone"]
    /\ Go(a, "delete")
    /\ UNCHANGED <<dbVars, active_session, meta, transport, visited, loose>>

\* A call on a server that is gone fails; one on a server that runs may.
DestroyMayFail(s) == vm[s] = "gone" \/ ProviderMayFail

\* The server is destroyed and the call raises all the same: the answer of the
\* provider is lost, or the "done" message finds the client gone.
AnswerMayBeLost(a) ==
    \/ "raise" \in FailureStyle /\ ProviderMayFail
    \/ a \in Thread /\ transport[a] = "lost"

DestroyUnheard(a) ==
    /\ CallsProvider(a)
    /\ vm[meta[a]] = "up"
    /\ AnswerMayBeLost(a)
    /\ vm' = [vm EXCEPT ![meta[a]] = "gone"]
    /\ loose' = loose \cup {meta[a]}
    /\ Raise(a)
    /\ UNCHANGED <<dbVars, active_session, meta, visited>>

\* destroy refuses an unmanaged server; for any other one the call may raise.
DestroyMayRaise(s) ==
    s \in Unmanaged \/ ("raise" \in FailureStyle /\ DestroyMayFail(s))

DestroyRaises(a) ==
    /\ pc[a] = "destroy"
    /\ DestroyMayRaise(meta[a])
    /\ Raise(a)
    /\ UNCHANGED <<dbVars, vm, active_session, meta, visited, loose>>

\* destroy_server returns False.  Its caller does not look.
DestroyReturnsFalse(a) ==
    /\ CallsProvider(a)
    /\ "false" \in FailureStyle
    /\ DestroyMayFail(meta[a])
    /\ Go(a, "delete")
    /\ loose' = IF vm[meta[a]] = "up" THEN loose \cup {meta[a]} ELSE loose
    /\ UNCHANGED <<dbVars, vm, active_session, meta, transport, visited>>

BeginDelete(a) ==
    /\ pc[a] = "delete"
    /\ BeginUpdate(a)
    /\ Go(a, "deleting")
    /\ UNCHANGED <<vm, active_session, meta, transport, visited, loose>>

\* Every server of the snapshot deleted instead of the one destroyed.
EndDeleteSnapshot(a) ==
    /\ pc[a] = "deleting"
    /\ EndUpdate(a, {}, metas[a])
    /\ IF a = Killer THEN Go(a, "patrol") /\ UNCHANGED transport ELSE End(a)
    /\ UNCHANGED <<vm, active_session, meta, visited, loose>>

EndDelete(a) ==
    /\ pc[a] = "deleting"
    /\ EndUpdate(a, {}, {meta[a]})
    /\ IF a = Killer THEN Go(a, "patrol") /\ UNCHANGED transport ELSE End(a)
    /\ UNCHANGED <<vm, active_session, meta, visited, loose>>

-----------------------------------------------------------------------------
(* The killer.                                                             *)

KillerLoad ==
    /\ pc[Killer] = "sleep"
    /\ LoadServers(Killer)
    /\ visited' = {}
    /\ Go(Killer, "patrol")
    /\ UNCHANGED <<vm, active_session, meta, transport, loose>>

\* One turn of the loop over the records that were loaded.
KillerCheck(s) ==
    /\ pc[Killer] = "patrol"
    /\ s \in metas[Killer] \ visited
    /\ visited' = visited \cup {s}
    /\ IF s \in Foreign
       THEN Raise(Killer) /\ UNCHANGED meta
       ELSE \/ "destroy" \in NeedDestroy(s)
               /\ meta' = [meta EXCEPT ![Killer] = s]
               /\ Go(Killer, "destroy")
               /\ UNCHANGED transport
            \/ "keep" \in NeedDestroy(s) /\ UNCHANGED <<pc, meta, transport>>
            \/ "error" \in NeedDestroy(s) /\ Raise(Killer) /\ UNCHANGED meta
    /\ UNCHANGED <<dbVars, vm, active_session, loose>>

KillerSleeps ==
    /\ pc[Killer] = "patrol"
    /\ metas[Killer] \subseteq visited
    /\ Go(Killer, "sleep")
    /\ ForgetServers(Killer)
    /\ UNCHANGED <<vm, active_session, meta, transport, visited, loose>>

-----------------------------------------------------------------------------
(* systemd restarts lobbyboy after a crash: every thread and the map of    *)
(* sessions are lost, servers and file stay.                               *)

\* Servers whose record a crash of this instant puts out of step: those that
\* are being created, those destroyed and not yet deleted, and every record
\* if the file is being written.
Exposed ==
    {meta[a] : a \in {b \in Actor : pc[b] \in {"booting", "record", "recording",
                                               "delete", "deleting"}}}
    \cup (IF db_lock = NoOne THEN {} ELSE records)

CrashRestart ==
    /\ Crash
    /\ active_session' = [s \in Server |-> {}]
    /\ pc' = [a \in Actor |-> IF a = Killer THEN "sleep"
                              ELSE IF pc[a] = "idle" THEN "idle" ELSE "done"]
    /\ meta' = [a \in Actor |-> NoServer]
    /\ transport' = [t \in Thread |-> IF transport[t] = "open" THEN "closed" ELSE transport[t]]
    /\ visited' = {}
    /\ loose' = loose \cup Exposed
    /\ UNCHANGED vm

-----------------------------------------------------------------------------

Destroying(a) ==
    \/ DestroyServer(a)
    \/ DestroyUnheard(a)
    \/ DestroyRaises(a)
    \/ DestroyReturnsFalse(a)
    \/ BeginDelete(a)
    \/ EndDelete(a)

Creating(t) ==
    \/ \E s \in Server : Provision(t, s)
    \/ ProvisionFails(t)
    \/ BootDone(t)
    \/ BootAbandoned(t)
    \/ BeginRecord(t)
    \/ EndRecord(t)

Session(t) ==
    \/ Enter(t)
    \/ Register(t)
    \/ LogOut(t)
    \/ LogOutRaises(t)
    \/ CheckDestroy(t)

ThreadStep(t) ==
    \/ SendRaises(t)
    \/ ChooseServer(t)
    \/ \E s \in Server : PickServer(t, s)
    \/ PickCreate(t)
    \/ Cancel(t)
    \/ Creating(t)
    \/ Session(t)
    \/ Destroying(t)

KillerStep ==
    \/ KillerLoad
    \/ \E s \in Server : KillerCheck(s)
    \/ KillerSleeps
    \/ Destroying(Killer)

Next ==
    \/ CrashRestart
    \/ KillerStep
    \/ \E t \in Thread : Connect(t) \/ ClientDrops(t) \/ ThreadStep(t)

Spec == Init /\ [][Next]_vars

\* The process lives, its threads are scheduled, providers answer, and users
\* do not stay for ever: they answer the menu and end their proxied session.
\* Nothing is assumed of new connections, broken ones or crashes.
Fairness ==
    /\ WF_vars(KillerStep)
    /\ \A t \in Thread : WF_vars(ThreadStep(t))

FairSpec == Spec /\ Fairness

-----------------------------------------------------------------------------

TypeOK ==
    /\ DBTypeOK
    /\ vm \in [Server -> {"none", "up", "gone"}]
    /\ active_session \in [Server -> SUBSET Thread]
    /\ pc \in [Actor -> KillerPlaces \cup ThreadPlaces]
    /\ pc[Killer] \in KillerPlaces
    /\ \A t \in Thread : pc[t] \in ThreadPlaces
    /\ meta \in [Actor -> Server \cup {NoServer}]
    /\ transport \in [Thread -> {"none", "open", "lost", "closed"}]
    /\ visited \in SUBSET Server
    /\ loose \in SUBSET Server

\* Every session in use is in the list the killer reads, and a list holds only
\* sessions of its own server, in use or over.  It is about the bookkeeping of
\* active_session from _create_proxy_process to remove_server_session: a
\* session missing from the list loses its server under its feet, one in the
\* list of another server keeps that one alive.
SessionsListed ==
    /\ \A t \in Thread : pc[t] = "using" => t \in active_session[meta[t]]
    /\ \A s \in Server : \A t \in active_session[s] :
         meta[t] = s /\ pc[t] \in {"using", "done"}

\* A list keeps the session of a thread that is over only if a client of that
\* same server broke its connection.  It is about cleanup and the getpeername
\* calls of remove_server_session: as long as every client of a server leaves
\* in an orderly way, no interleaving of their logouts leaves an entry behind.
LeakNeedsDrop ==
    \A s \in Server :
        (\E t \in active_session[s] : pc[t] = "done")
          => \E u \in active_session[s] : transport[u] = "lost"

BeingCreated(s) ==
    \E t \in Thread : meta[t] = s /\ pc[t] \in {"booting", "record", "recording"}

BeingDeleted(s) == \E a \in Actor : meta[a] = s /\ pc[a] \in {"delete", "deleting"}

\* The records and the provider agree about every server, except while a
\* thread is between the two, and except for the servers a failure put in
\* loose: a creation that raised after the server existed, a destroy that
\* returned False or raised after the server was gone, a crash between two
\* steps.  It is about the order of provider calls and file updates in
\* _ask_user_to_create_server and destroy: no interleaving of sessions and
\* killer alone orphans a server or leaves a ghost record.
Tracked ==
    \A s \in Server \ loose :
        /\ vm[s] = "up" => s \in records \/ BeingCreated(s)
        /\ vm[s] = "gone" /\ s \in records => BeingDeleted(s)
        /\ vm[s] = "none" => s \notin records

\* A record enters the file only for a server that runs: two updates of two
\* threads never bring back the record of a server that was destroyed.
NoResurrection ==
    [][\A s \in Server : s \in records' /\ s \notin records => vm[s] = "up"]_vars

\* About to be destroyed by somebody, or destroyed.
Condemned(s) == vm[s] = "gone" \/ \E a \in Actor : pc[a] = "destroy" /\ meta[a] = s

InUse(s) == \E t \in Thread : pc[t] = "using" /\ meta[t] = s

\* Nobody decides to destroy a server while a session is listed for it: one that
\* is destroyed under a user had been condemned before that user was listed.
\* It is about need_destroy, which reads active_session without its lock, and
\* about the lists, from which several sessions of one server are taken out one
\* by one.
InUseKept == [][\A s \in Server : InUse(s) /\ Condemned(s)' => Condemned(s)]_vars

\* A session of server s is past its own destroy, or over.
SessionAnswers(s) ==
    \E t \in Thread : meta[t] = s /\ pc[t] \in {"delete", "deleting", "done"}

\* The killer goes to destroy a server that is gone already, which may end it,
\* only if a failure had put that server in loose, or a session of the server
\* is past its own destroy or over.  It is about check_all_live_servers, which
\* works through what it loaded at the start of its round: a killer without
\* sessions beside it never meets a server it has destroyed itself.
KillerNotTwice ==
    pc[Killer] = "destroy" /\ vm[meta[Killer]] = "gone" =>
        meta[Killer] \in loose \/ SessionAnswers(meta[Killer])

\* In the loop over its records the killer dies only of one whose provider is
\* unknown, or of a managed server nobody uses, whose bill can not be computed.
LoopMayRaise ==
    /\ pc[Killer] = "patrol"
    /\ \E s \in metas[Killer] \ visited :
         s \in Foreign \/ (s \notin Unmanaged /\ active_session[s] = {})

\* In destroy it dies only for a managed server: of a call that fails, or of a
\* server that a session, or a failure before, has destroyed.
DestroyKillsKiller ==
    /\ pc[Killer] = "destroy"
    /\ meta[Killer] \notin Unmanaged
    /\ ProviderMayFail \/ meta[Killer] \in loose \/ SessionAnswers(meta[Killer])

\* The killer thread, which nothing restarts, dies for one of these reasons and
\* no other.  An unmanaged server and a server in use are never among them,
\* however often they are patrolled, and as long as providers answer, neither
\* is a server that only the killer has dealt with: the check of manage in
\* need_destroy keeps the one in destroy, which raises, from ending patrol, and
\* the round of check_all_live_servers meets no server it has destroyed.
KillerDiesForAReason ==
    [][pc[Killer] # "dead" /\ pc'[Killer] = "dead" =>
        LoopMayRaise \/ DestroyKillsKiller]_vars

\* With "0s" to live, every managed server that runs is destroyed and its record
\* is deleted once its users have left, as long as the killer lives.  It is about
\* the two callers of need_destroy: a server the last session could not destroy,
\* or that was never entered, is found by a later patrol.
Reclaimed ==
    \A s \in Server \ (Unmanaged \cup Foreign) :
        vm[s] = "up" ~> (vm[s] = "gone" /\ s \notin records) \/ pc[Killer] = "dead"

\* The thread of a session comes to its end, whatever the provider answers and
\* even if the killer dies: nobody keeps the lock of the servers file.
SessionsEnd == \A t \in Thread : pc[t] = "using" ~> pc[t] = "done"

\* The refinement for the composed system: what all threads together do to
\* the servers file is a behaviour of ServerDB, and hence of the registry.
ImplementsServerDB == DBSpec

\* The life of each server, as ServerLife has it.
life == [s \in Server |->
    IF vm[s] # "up" THEN vm[s]
    ELSE IF s \in records THEN "listed"
    ELSE IF BeingCreated(s) THEN "made"
    ELSE "lost"]

L == INSTANCE ServerLife

\* The refinement for the servers: whatever sessions, killer and crashes do at
\* once, each server is made once and listed at most once, and one that lost
\* its record is never listed again, though others may hold its meta.
ImplementsServerLife == L!Spec

\* What lobbyboy_config.toml:28-31 states, "lobbyboy will destroy the server
\* for you when: 1. there is no active session": at the moment a server is
\* destroyed, no session is listed for it.
DestroyOnlyIdle ==
    [][\A s \in Server : vm[s] = "up" /\ vm'[s] = "gone" => active_session[s] = {}]_vars

\* What lobbyboy_config.toml:41-42 states, "the server will be destroy
\* immediately after everyone logout": with "0s" to live, a server that has a
\* record is destroyed in the end.
RecordedReclaimed == \A s \in Server : vm[s] = "up" /\ s \in records ~> vm[s] = "gone"
=============================================================================
