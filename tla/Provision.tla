----------------------------- MODULE Provision -----------------------------
(***************************************************************************)
(* create_server of the seven providers (contrib/provider): the name, the  *)
(* launch, time_process_action against a launch that goes its own way, the *)
(* files a provider keeps, the record, the ssh command, and destroy_server *)
(* as the killer calls it.                                                 *)
(*                                                                         *)
(* A thread stands for one creation and for the server it makes.  The      *)
(* cloud providers launch by an API call, the local ones by a process that *)
(* is polled.  The servers file is one step here: ServerDB and Lobby have  *)
(* its lock.                                                               *)
(***************************************************************************)
EXTENDS ServerNames

CONSTANTS
    Kind,            \* per provider, which class it is
    MaxCheck,        \* how often time_process_action checks: 20 in the code
    NoThread,        \* the creation an unset attribute points to
    ProviderMayFail, \* whether calls of an API may fail, and launches
    ClientMayDrop,   \* whether connections may break
    MaxCrashes       \* bound: how often the process is killed and restarted

Cloud == {"digitalocean", "linode", "vultr"}
Local == {"multipass", "ignite", "footloose"}

ASSUME KindAssumption ==
    /\ Kind \in [Provider -> Cloud \cup Local \cup {"vagrant"}]
    /\ Vagrant = {p \in Provider : Kind[p] = "vagrant"}
ASSUME ProvisionAssumption ==
    /\ NoThread \notin Thread /\ MaxCheck \in Nat /\ MaxCrashes \in Nat
    /\ ProviderMayFail \in BOOLEAN /\ ClientMayDrop \in BOOLEAN

VARIABLES
    pc,          \* where each creation is
    machine,     \* per thread, its server: "none", "starting", "up", "gone"
    launch,      \* per thread, the launch: "none", "running", "ok", "failed"
    returncode,  \* per thread, what poll has seen of it: "None", "ok", "failed"
    tries,       \* per thread, try_times
    saved,       \* the threads whose server has its server.json
    recorded,    \* the threads whose server has its record
    ssh_config,  \* per provider, whose file _tmp_ssh_config_file is
    config_used, \* per thread, whose ssh_config its ssh command names
    killer,      \* whether the killer thread lives
    excused,     \* history: creations that met a failure not their own
    crashes      \* how often the process has crashed

machineVars == <<machine, launch>>
fileVars == <<saved, recorded, ssh_config>>
vars == <<nameVars, pc, machineVars, returncode, tries, fileVars,
          config_used, killer, excused, crashes>>

KindOf(t) == Kind[prov[t]]

WaitPlaces == {"wait", "check", "answered", "boot_wait", "boot_check", "boot_answered"}
CreatePlaces == {"called", "waited", "ssh_config", "record"} \cup WaitPlaces
Places == {"idle", "naming", "mkdir", "launch", "enter", "done"} \cup CreatePlaces

-----------------------------------------------------------------------------

Init ==
    /\ NamesInit
    /\ pc = [t \in Thread |-> "idle"]
    /\ machine = [t \in Thread |-> "none"]
    /\ launch = [t \in Thread |-> "none"]
    /\ returncode = [t \in Thread |-> "None"]
    /\ tries = [t \in Thread |-> 0]
    /\ saved = {}
    /\ recorded = {}
    /\ ssh_config = [p \in Provider |-> NoThread]
    /\ config_used = [t \in Thread |-> NoThread]
    /\ killer = TRUE
    /\ excused = {}
    /\ crashes = 0

Go(t, place) == pc' = [pc EXCEPT ![t] = place]

\* create_server raises, and the session is over.
Raise(t) == Go(t, "done")

\* The same for a failure of somebody else.
RaiseExcused(t) == Raise(t) /\ excused' = excused \cup {t}

-----------------------------------------------------------------------------
(* The client and the machines.                                            *)

\* Where the next thing a thread does is to send a message.
SendPlaces == {"launch", "wait", "answered", "boot_wait", "boot_answered"}

Sends(t) ==
    pc[t] \in SendPlaces \/ (pc[t] = "waited" /\ KindOf(t) \notin Local)

\* A message to a client that has gone raises.  When the client goes does not
\* matter otherwise, so it may be gone at any message.
SendRaises(t) ==
    /\ ClientMayDrop
    /\ Sends(t)
    /\ RaiseExcused(t)
    /\ UNCHANGED <<nameVars, machineVars, returncode, tries, fileVars,
                   config_used, killer, crashes>>

MachineBoots(t) ==
    /\ machine[t] = "starting"
    /\ machine' = [machine EXCEPT ![t] = "up"]
    /\ UNCHANGED <<nameVars, pc, launch, returncode, tries, fileVars,
                   config_used, killer, excused, crashes>>

\* The process of a local launch exits.  One that fails may leave a machine.
LaunchExits(t) ==
    /\ launch[t] = "running"
    /\ KindOf(t) \notin Cloud
    /\ \/ /\ launch' = [launch EXCEPT ![t] = "ok"]
          /\ machine[t] = "up"
          /\ UNCHANGED machine
       \/ /\ ProviderMayFail
          /\ launch' = [launch EXCEPT ![t] = "failed"]
          /\ machine' \in {machine, [machine EXCEPT ![t] = "gone"]}
    /\ UNCHANGED <<nameVars, pc, returncode, tries, fileVars,
                   config_used, killer, excused, crashes>>

-----------------------------------------------------------------------------
(* The creation, up to the launch.                                         *)

ChooseProviders(t) ==
    /\ pc[t] = "idle"
    /\ \E p \in Provider : ChooseProvider(t, p)
    /\ Go(t, "naming")
    /\ UNCHANGED <<machineVars, returncode, tries, fileVars,
                   config_used, killer, excused, crashes>>

GenerateName(t) ==
    /\ pc[t] = "naming"
    /\ \/ PickName(t) /\ Go(t, "mkdir")
       \/ NoAvailableName(t) /\ Raise(t)
    /\ UNCHANGED <<machineVars, returncode, tries, fileVars,
                   config_used, killer, excused, crashes>>

MakeWorkspace(t) ==
    /\ pc[t] = "mkdir"
    /\ \/ MakeDir(t) /\ Go(t, "launch")
       \/ DirExists(t) /\ Raise(t)
    /\ UNCHANGED <<machineVars, returncode, tries, fileVars,
                   config_used, killer, excused, crashes>>

\* The API call or the process makes the machine, at its own pace.
Launch(t) ==
    /\ pc[t] = "launch"
    /\ machine' = [machine EXCEPT ![t] = "starting"]
    /\ launch' = [launch EXCEPT ![t] = "running"]
    /\ Go(t, "called")
    /\ UNCHANGED <<nameVars, returncode, tries, fileVars,
                   config_used, killer, excused, crashes>>

\* The API refuses, or there is no such command: no machine.
LaunchRefused(t) ==
    /\ pc[t] = "launch"
    /\ ProviderMayFail
    /\ RaiseExcused(t)
    /\ UNCHANGED <<nameVars, machineVars, returncode, tries, fileVars,
                   config_used, killer, crashes>>

\* The call returns, or it has made the machine and fails all the same.
LaunchReturns(t) ==
    /\ pc[t] = "called"
    /\ \/ Go(t, "wait") /\ tries' = [tries EXCEPT ![t] = 1] /\ UNCHANGED excused
       \/ ProviderMayFail /\ KindOf(t) \in Cloud /\ RaiseExcused(t) /\ UNCHANGED tries
    /\ UNCHANGED <<nameVars, machineVars, returncode, fileVars,
                   config_used, killer, crashes>>

-----------------------------------------------------------------------------
(* time_process_action, which create_server runs up to twice.  Nobody      *)
(* looks at what it returns.                                               *)

\* What a failed call of an API adds to the answers of a check.
OrRaise == IF ProviderMayFail THEN {"raise"} ELSE {}
OrNo == IF ProviderMayFail THEN {"no"} ELSE {}

\* The check of each provider.  linode_is_up compares node.stats, which is no
\* string.  Once its launch has exited, multipass asks for its state, and the
\* call raises when there is no machine.
Answers(t) ==
    LET is_up == IF machine[t] = "up" THEN {"yes"} ELSE {"no"}
        exited == IF launch[t] # "running" THEN {"yes"} ELSE {"no"}
    IN [digitalocean |-> is_up \cup OrRaise,
        linode       |-> {"no"},
        vultr        |-> is_up \cup OrNo,
        multipass    |-> IF launch[t] = "running" THEN {"no"}
                         ELSE IF machine[t] = "gone" THEN {"raise"} ELSE is_up \cup OrRaise,
        ignite       |-> exited,
        footloose    |-> exited,
        vagrant      |-> IF launch[t] = "ok" THEN {"yes"} ELSE {"no"}][KindOf(t)]

\* port_is_open; a droplet that is not up may have no address to try.
BootAnswers(t) ==
    IF machine[t] = "up" THEN {"yes", "no"}
    ELSE {"no"} \cup (IF KindOf(t) = "digitalocean" THEN {"raise"} ELSE {})

\* The process is looked at by its pid, without poll.
NotPolled(t) == "None"

\* The returncode of a local launch after poll.
Polled(t) == IF launch[t] \in {"ok", "failed"} THEN launch[t] ELSE "None"

Dot(t, wait, check) ==
    /\ pc[t] = wait
    /\ tries[t] <= MaxCheck
    /\ Go(t, check)
    /\ UNCHANGED <<nameVars, machineVars, returncode, tries, fileVars,
                   config_used, killer, excused, crashes>>

\* A check that is not counted.
NotCounted(n) == n

\* try_times += 1
Counted(n) == n + 1

Check(t, wait, check, answered, answers) ==
    /\ pc[t] = check
    /\ returncode' = [returncode EXCEPT
                        ![t] = IF KindOf(t) \in Cloud THEN @ ELSE Polled(t)]
    /\ \/ "yes" \in answers /\ Go(t, answered) /\ UNCHANGED <<tries, excused>>
       \/ /\ "no" \in answers
          /\ Go(t, wait)
          /\ tries' = [tries EXCEPT ![t] = Counted(@)]
          /\ UNCHANGED excused
       \/ "raise" \in answers /\ RaiseExcused(t) /\ UNCHANGED tries
    /\ UNCHANGED <<nameVars, machineVars, fileVars, config_used,
                   killer, crashes>>

GiveUp(t, wait, after) ==
    /\ pc[t] = wait
    /\ tries[t] > MaxCheck
    /\ Go(t, after)
    /\ UNCHANGED <<nameVars, machineVars, returncode, tries, fileVars,
                   config_used, killer, excused, crashes>>

\* The message that it took so long, and after a boot that it is done.
Told(t, answered, after) ==
    /\ pc[t] = answered
    /\ Go(t, after)
    /\ UNCHANGED <<nameVars, machineVars, returncode, tries, fileVars,
                   config_used, killer, excused, crashes>>

TimeProcessAction(t) ==
    \/ Dot(t, "wait", "check")
    \/ Check(t, "wait", "check", "answered", Answers(t))
    \/ GiveUp(t, "wait", "waited")
    \/ Told(t, "answered", "waited")

WaitForBoot(t) ==
    \/ Dot(t, "boot_wait", "boot_check")
    \/ Check(t, "boot_wait", "boot_check", "boot_answered", BootAnswers(t))
    \/ GiveUp(t, "boot_wait", "boot_answered")
    \/ Told(t, "boot_answered", "record")

-----------------------------------------------------------------------------
(* What is left to do when the wait is over, for each kind of provider.    *)

\* prepare_after_server_created: server.json is saved before the port is
\* waited for.
CloudPrepares(t) ==
    /\ pc[t] = "waited"
    /\ KindOf(t) \in Cloud
    /\ saved' = saved \cup {t}
    /\ tries' = [tries EXCEPT ![t] = 1]
    /\ Go(t, "boot_wait")
    /\ UNCHANGED <<nameVars, machineVars, returncode, recorded, ssh_config,
                   config_used, killer, excused, crashes>>

\* droplet.load and client.instance.get
LoadRaises(t) ==
    /\ pc[t] = "waited"
    /\ KindOf(t) \in {"digitalocean", "vultr"}
    /\ ProviderMayFail
    /\ RaiseExcused(t)
    /\ UNCHANGED <<nameVars, machineVars, returncode, tries, fileVars,
                   config_used, killer, crashes>>

\* The returncode is not looked at.
LaunchAssumed(t) == TRUE

\* A launch that poll has not seen to end has the returncode None.
LaunchSeen(t) == returncode[t] = "ok"

LocalReturns(t) ==
    /\ pc[t] = "waited"
    /\ KindOf(t) \in Local
    /\ Go(t, IF LaunchSeen(t) THEN "record" ELSE "done")
    /\ UNCHANGED <<nameVars, machineVars, returncode, tries, fileVars,
                   config_used, killer, excused, crashes>>

\* The attribute set before the wait.
VagrantConfiguresEarly(t) ==
    /\ pc[t] \in {"wait", "waited"}
    /\ KindOf(t) = "vagrant"
    /\ \/ /\ pc[t] = "wait"
          /\ ssh_config' = [ssh_config EXCEPT ![prov[t]] = t]
          /\ UNCHANGED pc
       \/ /\ pc[t] = "waited"
          /\ Go(t, "ssh_config")
          /\ UNCHANGED ssh_config
    /\ UNCHANGED <<nameVars, machineVars, returncode, tries, saved, recorded,
                   config_used, killer, excused, crashes>>

\* _tmp_ssh_config_file belongs to the provider, not to the server.
VagrantConfigures(t) ==
    /\ pc[t] = "waited"
    /\ KindOf(t) = "vagrant"
    /\ ssh_config' = [ssh_config EXCEPT ![prov[t]] = t]
    /\ Go(t, "ssh_config")
    /\ UNCHANGED <<nameVars, machineVars, returncode, tries, saved, recorded,
                   config_used, killer, excused, crashes>>

\* "vagrant ssh-config" fails unless the machine is up.
VagrantExports(t) ==
    /\ pc[t] = "ssh_config"
    /\ \/ machine[t] = "up" /\ Go(t, "record") /\ UNCHANGED excused
       \/ machine[t] # "up" /\ Raise(t) /\ UNCHANGED excused
       \/ ProviderMayFail /\ RaiseExcused(t)
    /\ UNCHANGED <<nameVars, machineVars, returncode, tries, fileVars,
                   config_used, killer, crashes>>

\* update_local_servers: records are keyed by the name alone.
Record(t) ==
    /\ pc[t] = "record"
    /\ recorded' = {u \in recorded : name[u] # name[t]} \cup {t}
    /\ Go(t, "enter")
    /\ UNCHANGED <<nameVars, machineVars, returncode, tries, saved, ssh_config,
                   config_used, killer, excused, crashes>>

\* The record written again when its server is entered.
EnterRecordsAgain(t) ==
    /\ pc[t] = "enter"
    /\ recorded' = recorded \cup {t}
    /\ config_used' = [config_used EXCEPT ![t] = t]
    /\ Go(t, "done")
    /\ UNCHANGED <<nameVars, machineVars, returncode, tries, saved, ssh_config,
                   killer, excused, crashes>>

\* ssh_server_command: all but vagrant find their way by the workspace.
SshCommand(t) == IF KindOf(t) = "vagrant" THEN ssh_config[prov[t]] ELSE t

Enter(t) ==
    /\ pc[t] = "enter"
    /\ config_used' = [config_used EXCEPT ![t] = SshCommand(t)]
    /\ Go(t, "done")
    /\ UNCHANGED <<nameVars, machineVars, returncode, tries, fileVars,
                   killer, excused, crashes>>

\* Somebody picks the server from the menu.  After a restart the attribute is
\* unset, and Popen raises on the None in the command.
EnterAgain(t) ==
    /\ t \in recorded
    /\ config_used' = [config_used EXCEPT ![t] = SshCommand(t)]
    /\ UNCHANGED <<nameVars, pc, machineVars, returncode, tries, fileVars,
                   killer, excused, crashes>>

-----------------------------------------------------------------------------
(* destroy_server, called by the killer for a server that has a record.    *)

Due(t) == killer /\ t \in recorded /\ pc[t] \in {"enter", "done"}

Destroyed(t) ==
    /\ Due(t)
    /\ KindOf(t) # "vagrant"
    /\ KindOf(t) \in Cloud => t \in saved
    /\ machine[t] \in {"starting", "up"}
    /\ machine' = [machine EXCEPT ![t] = "gone"]
    /\ recorded' = recorded \ {t}
    /\ UNCHANGED <<nameVars, pc, launch, returncode, tries, saved, ssh_config,
                   config_used, killer, excused, crashes>>

\* No server.json, or the API fails: the killer dies.  So it does for every
\* vagrant box: _get_vagrant_machine_id decodes what is decoded already.
DestroyRaises(t) ==
    /\ Due(t)
    /\ \/ KindOf(t) = "vagrant"
       \/ KindOf(t) \in Cloud /\ (t \notin saved \/ machine[t] = "gone" \/ ProviderMayFail)
    /\ killer' = FALSE
    /\ UNCHANGED <<nameVars, pc, machineVars, returncode, tries, fileVars,
                   config_used, excused, crashes>>

\* The command of a local provider fails, or the API says so: False, and the
\* record is deleted.
DestroyFails(t) ==
    /\ Due(t)
    /\ \/ KindOf(t) \in Local /\ (machine[t] = "gone" \/ ProviderMayFail)
       \/ KindOf(t) \in Cloud /\ t \in saved /\ ProviderMayFail
    /\ recorded' = recorded \ {t}
    /\ excused' = excused \cup {t}
    /\ UNCHANGED <<nameVars, pc, machineVars, returncode, tries, saved, ssh_config,
                   config_used, killer, crashes>>

-----------------------------------------------------------------------------

\* systemd starts lobbyboy again; launches go on without it.
CrashRestart ==
    /\ crashes < MaxCrashes
    /\ crashes' = crashes + 1
    /\ pc' = [t \in Thread |-> IF pc[t] = "idle" THEN "idle" ELSE "done"]
    /\ excused' = excused \cup {t \in Thread : pc[t] \in CreatePlaces}
    /\ ssh_config' = [p \in Provider |-> NoThread]
    /\ killer' = TRUE
    /\ UNCHANGED <<nameVars, machineVars, returncode, tries, saved, recorded,
                   config_used>>

CreateStep(t) ==
    \/ SendRaises(t)
    \/ GenerateName(t)
    \/ MakeWorkspace(t)
    \/ Launch(t)
    \/ LaunchRefused(t)
    \/ LaunchReturns(t)
    \/ TimeProcessAction(t)
    \/ CloudPrepares(t)
    \/ LoadRaises(t)
    \/ LocalReturns(t)
    \/ VagrantConfigures(t)
    \/ VagrantExports(t)
    \/ WaitForBoot(t)
    \/ Record(t)
    \/ Enter(t)

DestroyStep(t) ==
    \/ Destroyed(t)
    \/ DestroyRaises(t)
    \/ DestroyFails(t)

World(t) ==
    \/ ChooseProviders(t)
    \/ MachineBoots(t)
    \/ LaunchExits(t)
    \/ EnterAgain(t)

Clock ==
    /\ Tick
    /\ UNCHANGED <<pc, machineVars, returncode, tries, fileVars,
                   config_used, killer, excused, crashes>>

Next ==
    \/ Clock
    \/ CrashRestart
    \/ \E t \in Thread : World(t) \/ CreateStep(t) \/ DestroyStep(t)

Spec == Init /\ [][Next]_vars

\* Threads are scheduled and calls return.  Nothing is assumed of machines and
\* launches, which may hang, nor of clients.
Fairness ==
    \A t \in Thread : WF_vars(CreateStep(t)) /\ WF_vars(DestroyStep(t))

FairSpec == Spec /\ Fairness

-----------------------------------------------------------------------------

TypeOK ==
    /\ NamesTypeOK
    /\ pc \in [Thread -> Places]
    /\ machine \in [Thread -> {"none", "starting", "up", "gone"}]
    /\ launch \in [Thread -> {"none", "running", "ok", "failed"}]
    /\ returncode \in [Thread -> {"None", "ok", "failed"}]
    /\ tries \in [Thread -> 0..(MaxCheck + 1)]
    /\ saved \subseteq Thread
    /\ recorded \subseteq Thread
    /\ ssh_config \in [Provider -> Thread \cup {NoThread}]
    /\ config_used \in [Thread -> Thread \cup {NoThread}]
    /\ killer \in BOOLEAN
    /\ excused \subseteq Thread
    /\ crashes \in 0..MaxCrashes

\* Past the making of the workspace, a creation has its name and directory to
\* itself, among those of its provider; only two vagrant boxes can share one.
\* It is about the test for the directory and its making, which other sessions
\* may come between.
OwnWorkspace ==
    \A t, u \in Thread :
        t # u /\ prov[t] = prov[u] /\ name[t] = name[u] /\ prov[t] \notin Vagrant
        /\ launch[t] # "none" => launch[u] = "none"

\* A record is pushed out by another one only if two providers have the same
\* prefix, or both servers are vagrant boxes: within one provider of any other
\* kind two sessions in the same minute never overwrite each other's record.
RecordKept ==
    [][\A t, u \in Thread :
         t \in recorded /\ t \notin recorded' /\ u \in recorded' /\ u \notin recorded
           => \/ prov[t] # prov[u] /\ Prefix[prov[t]] = Prefix[prov[u]]
              \/ prov[t] \in Vagrant /\ prov[u] \in Vagrant]_vars

\* A record is of use to those who read it: a cloud server has the server.json
\* its destruction needs, a local one was seen to be launched, a box has been up,
\* whatever the waits have shown and whenever they gave up.  It is about the end
\* of create_server, which does not look at the answer of time_process_action:
\* a cloud server may still be starting, the others may not.
RecordIsUsable ==
    \A t \in recorded :
        /\ KindOf(t) \in Cloud => t \in saved
        /\ KindOf(t) \in Local => launch[t] = "ok"
        /\ KindOf(t) = "vagrant" => machine[t] \in {"up", "gone"}

Creating(t) == pc[t] \in CreatePlaces

\* A machine that nobody records has a reason: a failure of its client, its API
\* or its process, a launch that failed, one that took longer than all checks
\* of time_process_action, or a later record of the same name.
AbandonedForAReason ==
    \A t \in Thread \ (recorded \cup excused) :
        machine[t] \in {"starting", "up"} /\ ~Creating(t)
          => \/ launch[t] = "failed"
             \/ tries[t] > MaxCheck
             \/ \E u \in Thread \ {t} : name[u] = name[t]

\* The ssh command of a server never names the configuration of another server,
\* but for a vagrant box whose provider has come to the end of its wait for that
\* other box: the attribute is written by one thread and read by all, by the one
\* that creates a box and by those that enter it again, and no thread spoils it
\* while its own box is awaited.
OwnSshConfig ==
    \A t \in Thread : \A u \in Thread \ {t} : config_used[t] = u =>
        /\ KindOf(t) = "vagrant" /\ prov[u] = prov[t]
        /\ launch[u] = "ok" \/ tries[u] > MaxCheck

\* How far a creation is from its end at most.
LoopLength == 2 * MaxCheck + 3
ChecksLeft(t) == 2 * (MaxCheck + 1 - tries[t])

Left(t) == [idle |-> 0, done |-> 1, enter |-> 2, record |-> 3,
            boot_answered |-> 4, ssh_config |-> 4,
            boot_check |-> 4 + ChecksLeft(t), boot_wait |-> 5 + ChecksLeft(t),
            waited |-> LoopLength + 4, answered |-> LoopLength + 5,
            check |-> LoopLength + 5 + ChecksLeft(t),
            wait |-> LoopLength + 6 + ChecksLeft(t),
            called |-> 2 * LoopLength + 8, launch |-> 2 * LoopLength + 9,
            mkdir |-> 2 * LoopLength + 10, naming |-> 2 * LoopLength + 11][pc[t]]

\* Every creation comes to an end, although launches may take for ever, machines
\* never boot and checks never succeed: each step of its thread brings it nearer.
\* It is about the two loops of time_process_action, whose checks are counted.
CreationEnds ==
    [][\A t \in Thread : pc[t] # "idle" /\ pc'[t] # pc[t] => Left(t)' < Left(t)]_vars

\* The life of each server, as ServerLife has it.
life == [t \in Thread |->
    IF machine[t] \in {"none", "gone"} THEN machine[t]
    ELSE IF t \in recorded THEN "listed"
    ELSE IF Creating(t) THEN "made"
    ELSE "lost"]

L == INSTANCE ServerLife WITH Server <- Thread

\* Refinement: whatever happens during a creation, each server is made once and
\* listed at most once, and a lost one is never found again.
ImplementsServerLife == L!Spec

\* What readme.md:193-194 states of the vagrant provider: it "can help you to
\* create a new Vagrant instance when you login to Lobbyboy, and destroy the
\* server when you no longer use it".
UnusedDestroyed ==
    \A t \in Thread : t \in recorded /\ KindOf(t) = "vagrant" ~> machine[t] = "gone"
=============================================================================
