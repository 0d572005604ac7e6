--------------------------- MODULE ProvisionProofs ---------------------------
(***************************************************************************)
(* Proofs about creations, for any number of them, any providers, prefixes *)
(* and numbers of names and checks.  ThreadInv says of one creation what   *)
(* has been done by the time it is where it is; Apart says that creations  *)
(* of one provider have directories of their own, once they have one.      *)
(***************************************************************************)
EXTENDS Provision, TLAPS

\* The launch is not behind it yet.
EarlyPlaces == {"idle", "naming", "mkdir", "launch"}

\* A creation that has its directory.
HasDir(t) == pc[t] = "launch" \/ launch[t] # "none"

\* What has been made by the time a creation is where it is.
Equipped(t) ==
    /\ pc[t] # "idle" => prov[t] \in Provider
    /\ pc[t] \in {"idle", "naming"} => name[t] = NoName
    /\ pc[t] \in EarlyPlaces => launch[t] = "none"
    /\ pc[t] \in CreatePlaces \cup {"enter"} => launch[t] # "none"
    /\ launch[t] = "none" <=> machine[t] = "none"
    /\ t \in recorded => pc[t] \in {"enter", "done"} /\ launch[t] # "none"
    /\ pc[t] = "mkdir" \/ HasDir(t) => name[t] \in Name /\ name[t][1] = Prefix[prov[t]]
    /\ HasDir(t) => name[t] \in dirs[prov[t]]

\* Which way a creation has come, and what its wait has shown.
Waited(t) ==
    /\ pc[t] \in {"check", "boot_check"} => tries[t] <= MaxCheck
    /\ pc[t] \in {"boot_wait", "boot_check", "boot_answered"} =>
         KindOf(t) \in Cloud /\ t \in saved
    /\ pc[t] = "ssh_config" => KindOf(t) = "vagrant"
    /\ returncode[t] = "ok" => launch[t] = "ok"
    /\ pc[t] # "idle" /\ KindOf(t) \notin Cloud /\ launch[t] = "ok" => machine[t] \in {"up", "gone"}
    /\ pc[t] \in {"answered", "waited"} /\ KindOf(t) \in Local =>
         returncode[t] = "ok" \/ launch[t] = "failed" \/ tries[t] > MaxCheck
    /\ pc[t] \in {"answered", "waited", "ssh_config"} /\ KindOf(t) = "vagrant" =>
         launch[t] = "ok" \/ tries[t] > MaxCheck
    /\ pc[t] = "record" =>
         /\ KindOf(t) \in Cloud => t \in saved
         /\ KindOf(t) \in Local => launch[t] = "ok"
         /\ KindOf(t) = "vagrant" => machine[t] \in {"up", "gone"}

\* The creation whose box a configuration belongs to.
Configures(u, p) ==
    /\ prov[u] = p
    /\ KindOf(u) = "vagrant"
    /\ pc[u] \in {"ssh_config", "record", "enter", "done"}
    /\ launch[u] = "ok" \/ tries[u] > MaxCheck

Configured ==
    /\ \A p \in Provider : ssh_config[p] # NoThread => Configures(ssh_config[p], p)
    /\ \A t \in Thread : config_used[t] \notin {t, NoThread} =>
         /\ pc[t] \in {"enter", "done"} /\ KindOf(t) = "vagrant"
         /\ Configures(config_used[t], prov[t])

\* Two creations of one provider that have their directories have two of them.
Apart ==
    \A t, u \in Thread :
        t # u /\ prov[t] = prov[u] /\ prov[t] \notin Vagrant /\ HasDir(t) /\ HasDir(u)
          => name[t] # name[u]

ProvisionInv ==
    /\ TypeOK
    /\ \A t \in Thread : Equipped(t) /\ Waited(t)
    /\ Apart
    /\ Configured
    /\ RecordIsUsable
    /\ AbandonedForAReason

\* The n-th name of a minute is a name, and begins with the prefix.
LEMMA NameOfIsName ==
    ASSUME NEW p \in Provider, NEW m \in 0..MaxMinute, NEW n \in 1..MaxSuffix
    PROVE  NameOf(p, m, n) \in Name /\ NameOf(p, m, n)[1] = Prefix[p]
BY DEF Name, NameOf

LEMMA InitProvisionInv == Init => ProvisionInv
<1> SUFFICES ASSUME Init PROVE ProvisionInv
    OBVIOUS
<1> USE NamesAssumption, KindAssumption, ProvisionAssumption DEF Init, NamesInit
<1>1. dirs \in [Provider -> SUBSET Name]
    <2>1. \A p \in Provider : \A n \in 1..Before :
            NameOf(p, IF p \in Vagrant THEN BoxMinute ELSE 1, n) \in Name
        BY NameOfIsName DEF BoxMinute
    <2> QED BY <2>1
<1>2. NamesTypeOK
    BY <1>1 DEF NamesTypeOK
<1>3. TypeOK
    <2>1. pc \in [Thread -> Places] /\ tries \in [Thread -> 0..(MaxCheck + 1)]
        BY DEF Places
    <2>2. crashes \in 0..MaxCrashes
        OBVIOUS
    <2> QED BY <1>2, <2>1, <2>2, Zenon DEF TypeOK
<1>4. ASSUME NEW t \in Thread PROVE Equipped(t) /\ Waited(t)
    BY DEF Equipped, Waited, HasDir, EarlyPlaces, CreatePlaces, WaitPlaces
<1>5. Apart /\ Configured /\ RecordIsUsable /\ AbandonedForAReason
    BY DEF Apart, HasDir, Configured, RecordIsUsable, AbandonedForAReason
<1> QED BY <1>3, <1>4, <1>5 DEF ProvisionInv

\* A name that has been picked is a free one and begins with the prefix.
LEMMA Picked ==
    ASSUME ProvisionInv, NEW t \in Thread, pc[t] = "naming", PickName(t)
    PROVE  \E x \in Name : /\ name' = [name EXCEPT ![t] = x]
                           /\ x[1] = Prefix[prov[t]] /\ x \notin dirs[prov[t]]
<1> USE NamesAssumption
<1>1. prov[t] \in Provider /\ Stamp(t) \in 0..MaxMinute
    BY DEF ProvisionInv, Equipped, TypeOK, NamesTypeOK, Stamp, BoxMinute
<1>2. PICK n \in Free(prov[t], Stamp(t)) :
           name' = [name EXCEPT ![t] = NameOf(prov[t], Stamp(t), n)]
    BY DEF PickName
<1>3. n \in 1..MaxSuffix /\ NameOf(prov[t], Stamp(t), n) \notin dirs[prov[t]]
    BY <1>2 DEF Free
<1> QED BY <1>1, <1>2, <1>3, NameOfIsName

\* A check counts itself and leaves the rest as it is.
LEMMA CheckTyped ==
    ASSUME ProvisionInv, NEW t \in Thread, NEW wait \in Places, NEW answered \in Places,
           NEW check \in {"check", "boot_check"}, NEW answers,
           Check(t, wait, check, answered, answers)
    PROVE  TypeOK'
<1> USE DEF ProvisionInv, TypeOK, Check, RaiseExcused, Raise, Go
<1>1. tries' \in [Thread -> 0..(MaxCheck + 1)]
    <2>1. tries[t] <= MaxCheck
        BY DEF Waited
    <2> QED BY <2>1, ProvisionAssumption DEF Counted
<1>2. returncode' \in [Thread -> {"None", "ok", "failed"}]
    BY DEF Polled
<1>3. pc' \in [Thread -> Places] /\ excused' \subseteq Thread
    BY DEF Places
<1>4. NamesTypeOK'
    BY DEF NamesTypeOK, nameVars
<1> QED BY <1>1, <1>2, <1>3, <1>4 DEF machineVars, fileVars

\* Every step keeps the types: the counter of checks stays within its bound.
LEMMA NextTypeOK == ProvisionInv /\ [Next]_vars => TypeOK'
<1> SUFFICES ASSUME ProvisionInv, [Next]_vars PROVE TypeOK'
    OBVIOUS
<1> USE NamesAssumption, KindAssumption, ProvisionAssumption DEF ProvisionInv
<1> USE DEF TypeOK, NamesTypeOK, Places, CreatePlaces, WaitPlaces, vars,
            nameVars, machineVars, fileVars
<1>1. CASE UNCHANGED vars
    BY <1>1
<1>2. CASE Clock
    BY <1>2 DEF Clock, Tick
<1>3. CASE CrashRestart
    BY <1>3 DEF CrashRestart
<1>4. ASSUME NEW t \in Thread, ChooseProviders(t) PROVE TypeOK'
    BY <1>4 DEF ChooseProviders, ChooseProvider, Go
<1>5. ASSUME NEW t \in Thread, MachineBoots(t) PROVE TypeOK'
    BY <1>5 DEF MachineBoots
<1>6. ASSUME NEW t \in Thread, LaunchExits(t) PROVE TypeOK'
    BY <1>6 DEF LaunchExits
<1>7. ASSUME NEW t \in Thread, SendRaises(t) PROVE TypeOK'
    BY <1>7 DEF SendRaises, Sends, SendPlaces, RaiseExcused, Raise, Go
<1>8. ASSUME NEW t \in Thread, GenerateName(t) PROVE TypeOK'
    <2>1. CASE PickName(t)
        <3>1. PICK x \in Name : name' = [name EXCEPT ![t] = x]
            BY <1>8, <2>1, Picked DEF GenerateName
        <3>2. UNCHANGED <<minute, dirs, prov>> /\ Go(t, "mkdir")
            BY <1>8, <2>1 DEF GenerateName, PickName, NoAvailableName
        <3> QED BY <1>8, <3>1, <3>2 DEF GenerateName, Go
    <2>2. CASE NoAvailableName(t)
        BY <1>8, <2>2 DEF GenerateName, NoAvailableName, Raise, Go
    <2> QED BY <1>8, <2>1, <2>2 DEF GenerateName
<1>9. ASSUME NEW t \in Thread, MakeWorkspace(t) PROVE TypeOK'
    <2>1. dirs' \in [Provider -> SUBSET Name]
        BY <1>9 DEF MakeWorkspace, MakeDir, DirExists, Equipped, TypeOK, NamesTypeOK,
           nameVars
    <2> QED BY <1>9, <2>1 DEF MakeWorkspace, MakeDir, DirExists, Raise, Go
<1>10. ASSUME NEW t \in Thread, Launch(t) PROVE TypeOK'
    BY <1>10 DEF Launch, Go
<1>11. ASSUME NEW t \in Thread, LaunchRefused(t) PROVE TypeOK'
    BY <1>11 DEF LaunchRefused, RaiseExcused, Raise, Go
<1>12. ASSUME NEW t \in Thread, LaunchReturns(t) PROVE TypeOK'
    BY <1>12 DEF LaunchReturns, RaiseExcused, Raise, Go
<1>13. ASSUME NEW t \in Thread, Dot(t, "wait", "check") PROVE TypeOK'
    BY <1>13 DEF Dot, Go
<1>14. ASSUME NEW t \in Thread, Check(t, "wait", "check", "answered", Answers(t))
       PROVE  TypeOK'
    BY <1>14, CheckTyped DEF Places, CreatePlaces, WaitPlaces
<1>15. ASSUME NEW t \in Thread, GiveUp(t, "wait", "waited") PROVE TypeOK'
    BY <1>15 DEF GiveUp, Go
<1>16. ASSUME NEW t \in Thread, Told(t, "answered", "waited") PROVE TypeOK'
    BY <1>16 DEF Told, Go
<1>17. ASSUME NEW t \in Thread, CloudPrepares(t) PROVE TypeOK'
    BY <1>17 DEF CloudPrepares, Go
<1>18. ASSUME NEW t \in Thread, LoadRaises(t) PROVE TypeOK'
    BY <1>18 DEF LoadRaises, RaiseExcused, Raise, Go
<1>19. ASSUME NEW t \in Thread, LocalReturns(t) PROVE TypeOK'
    BY <1>19 DEF LocalReturns, LaunchSeen, Go
<1>20. ASSUME NEW t \in Thread, VagrantConfigures(t) PROVE TypeOK'
    BY <1>20 DEF VagrantConfigures, Go
<1>21. ASSUME NEW t \in Thread, VagrantExports(t) PROVE TypeOK'
    BY <1>21 DEF VagrantExports, RaiseExcused, Raise, Go
<1>22. ASSUME NEW t \in Thread, Dot(t, "boot_wait", "boot_check") PROVE TypeOK'
    BY <1>22 DEF Dot, Go
<1>23. ASSUME NEW t \in Thread, Check(t, "boot_wait", "boot_check", "boot_answered", BootAnswers(t))
       PROVE  TypeOK'
    BY <1>23, CheckTyped DEF Places, CreatePlaces, WaitPlaces
<1>24. ASSUME NEW t \in Thread, GiveUp(t, "boot_wait", "boot_answered")
       PROVE  TypeOK'
    BY <1>24 DEF GiveUp, Go
<1>25. ASSUME NEW t \in Thread, Told(t, "boot_answered", "record") PROVE TypeOK'
    BY <1>25 DEF Told, Go
<1>26. ASSUME NEW t \in Thread, Record(t) PROVE TypeOK'
    BY <1>26 DEF Record, Go
<1>27. ASSUME NEW t \in Thread, Enter(t) PROVE TypeOK'
    <2>1. config_used' \in [Thread -> Thread \cup {NoThread}]
        BY <1>27 DEF Enter, SshCommand, Equipped, TypeOK
    <2> QED BY <1>27, <2>1 DEF Enter, SshCommand, Go
<1>28. ASSUME NEW t \in Thread, Destroyed(t) PROVE TypeOK'
    BY <1>28 DEF Destroyed, Due
<1>29. ASSUME NEW t \in Thread, DestroyRaises(t) PROVE TypeOK'
    BY <1>29 DEF DestroyRaises, Due
<1>30. ASSUME NEW t \in Thread, DestroyFails(t) PROVE TypeOK'
    BY <1>30 DEF DestroyFails, Due
<1>31. ASSUME NEW t \in Thread, EnterAgain(t) PROVE TypeOK'
    <2>1. config_used' \in [Thread -> Thread \cup {NoThread}]
        BY <1>31 DEF EnterAgain, SshCommand, Equipped, TypeOK
    <2> QED BY <1>31, <2>1 DEF EnterAgain
<1> QED
    BY <1>1, <1>2, <1>3, <1>4, <1>5, <1>6, <1>7, <1>8, <1>9, <1>10,
       <1>11, <1>12, <1>13, <1>14, <1>15, <1>16, <1>17, <1>18, <1>19, <1>20,
       <1>21, <1>22, <1>23, <1>24, <1>25, <1>26, <1>27, <1>28, <1>29, <1>30,
       <1>31
       DEF Next, World, CreateStep, DestroyStep, TimeProcessAction, WaitForBoot

\* Every step leaves every creation with what its place requires.
LEMMA NextThread ==
    ProvisionInv /\ [Next]_vars => \A u \in Thread : Equipped(u)' /\ Waited(u)'
<1> SUFFICES ASSUME ProvisionInv, [Next]_vars, NEW u \in Thread
             PROVE  Equipped(u)' /\ Waited(u)'
    OBVIOUS
<1> USE NamesAssumption, KindAssumption, ProvisionAssumption DEF ProvisionInv
<1> USE DEF TypeOK, NamesTypeOK, Places, CreatePlaces, WaitPlaces,
            EarlyPlaces, Equipped, Waited, HasDir, KindOf, Cloud, Local,
            vars, nameVars, machineVars, fileVars
<1>1. CASE UNCHANGED vars
    BY <1>1
<1>2. CASE Clock
    BY <1>2 DEF Clock, Tick
<1>3. CASE CrashRestart
    BY <1>3 DEF CrashRestart
<1>4. ASSUME NEW t \in Thread, ChooseProviders(t)
      PROVE  Equipped(u)' /\ Waited(u)'
    BY <1>4 DEF ChooseProviders, ChooseProvider, Go
<1>5. ASSUME NEW t \in Thread, MachineBoots(t) PROVE Equipped(u)' /\ Waited(u)'
    BY <1>5 DEF MachineBoots
<1>6. ASSUME NEW t \in Thread, LaunchExits(t) PROVE Equipped(u)' /\ Waited(u)'
    BY <1>6 DEF LaunchExits
<1>7. ASSUME NEW t \in Thread, SendRaises(t) PROVE Equipped(u)' /\ Waited(u)'
    BY <1>7 DEF SendRaises, Sends, SendPlaces, RaiseExcused, Raise, Go
<1>8. ASSUME NEW t \in Thread, GenerateName(t) PROVE Equipped(u)' /\ Waited(u)'
    <2>1. CASE PickName(t)
        <3>1. PICK x \in Name : name' = [name EXCEPT ![t] = x] /\ x[1] = Prefix[prov[t]]
            BY <1>8, <2>1, Picked DEF GenerateName
        <3>2. UNCHANGED <<minute, dirs, prov>> /\ Go(t, "mkdir")
            BY <1>8, <2>1 DEF GenerateName, PickName, NoAvailableName
        <3>3. pc[t] = "naming" /\ UNCHANGED <<machineVars, returncode, tries, fileVars>>
            BY <1>8 DEF GenerateName
        <3> QED BY <3>1, <3>2, <3>3 DEF Go
    <2>2. CASE NoAvailableName(t)
        <3>1. UNCHANGED nameVars /\ Go(t, "done")
            BY <1>8, <2>2 DEF GenerateName, NoAvailableName, Raise, PickName
        <3>2. pc[t] = "naming" /\ UNCHANGED <<machineVars, returncode, tries, fileVars>>
            BY <1>8 DEF GenerateName
        <3> QED BY <3>1, <3>2 DEF Go
    <2> QED BY <1>8, <2>1, <2>2 DEF GenerateName
<1>9. ASSUME NEW t \in Thread, MakeWorkspace(t) PROVE Equipped(u)' /\ Waited(u)'
    BY <1>9 DEF MakeWorkspace, MakeDir, DirExists, MayMakeDir, Raise, Go
<1>10. ASSUME NEW t \in Thread, Launch(t) PROVE Equipped(u)' /\ Waited(u)'
    BY <1>10 DEF Launch, Go
<1>11. ASSUME NEW t \in Thread, LaunchRefused(t)
       PROVE  Equipped(u)' /\ Waited(u)'
    BY <1>11 DEF LaunchRefused, RaiseExcused, Raise, Go
<1>12. ASSUME NEW t \in Thread, LaunchReturns(t)
       PROVE  Equipped(u)' /\ Waited(u)'
    BY <1>12 DEF LaunchReturns, RaiseExcused, Raise, Go
<1>13. ASSUME NEW t \in Thread, Dot(t, "wait", "check")
       PROVE  Equipped(u)' /\ Waited(u)'
    BY <1>13 DEF Dot, Go
<1>14. ASSUME NEW t \in Thread, Check(t, "wait", "check", "answered", Answers(t))
       PROVE  Equipped(u)' /\ Waited(u)'
    <2> USE <1>14 DEF Check, RaiseExcused, Raise, Go, Polled
    <2>1. CASE u # t
        BY <2>1
    <2>2. CASE u = t /\ pc'[t] = "done"
        BY <2>2
    <2>3. CASE u = t /\ pc'[t] # "done"
        BY <2>3 DEF Counted, Answers
    <2> QED BY <2>1, <2>2, <2>3
<1>15. ASSUME NEW t \in Thread, GiveUp(t, "wait", "waited")
       PROVE  Equipped(u)' /\ Waited(u)'
    BY <1>15 DEF GiveUp, Go
<1>16. ASSUME NEW t \in Thread, Told(t, "answered", "waited")
       PROVE  Equipped(u)' /\ Waited(u)'
    BY <1>16 DEF Told, Go
<1>17. ASSUME NEW t \in Thread, CloudPrepares(t)
       PROVE  Equipped(u)' /\ Waited(u)'
    BY <1>17 DEF CloudPrepares, Go
<1>18. ASSUME NEW t \in Thread, LoadRaises(t) PROVE Equipped(u)' /\ Waited(u)'
    BY <1>18 DEF LoadRaises, RaiseExcused, Raise, Go
<1>19. ASSUME NEW t \in Thread, LocalReturns(t) PROVE Equipped(u)' /\ Waited(u)'
    BY <1>19 DEF LocalReturns, LaunchSeen, Go
<1>20. ASSUME NEW t \in Thread, VagrantConfigures(t)
       PROVE  Equipped(u)' /\ Waited(u)'
    BY <1>20 DEF VagrantConfigures, Go
<1>21. ASSUME NEW t \in Thread, VagrantExports(t)
       PROVE  Equipped(u)' /\ Waited(u)'
    BY <1>21 DEF VagrantExports, RaiseExcused, Raise, Go
<1>22. ASSUME NEW t \in Thread, Dot(t, "boot_wait", "boot_check")
       PROVE  Equipped(u)' /\ Waited(u)'
    BY <1>22 DEF Dot, Go
<1>23. ASSUME NEW t \in Thread, Check(t, "boot_wait", "boot_check", "boot_answered", BootAnswers(t))
       PROVE  Equipped(u)' /\ Waited(u)'
    <2> USE <1>23 DEF Check, RaiseExcused, Raise, Go, Polled
    <2>1. CASE u # t
        BY <2>1
    <2>2. CASE u = t /\ pc'[t] = "done"
        BY <2>2
    <2>3. CASE u = t /\ pc'[t] # "done"
        BY <2>3 DEF Counted, BootAnswers
    <2> QED BY <2>1, <2>2, <2>3
<1>24. ASSUME NEW t \in Thread, GiveUp(t, "boot_wait", "boot_answered")
       PROVE  Equipped(u)' /\ Waited(u)'
    BY <1>24 DEF GiveUp, Go
<1>25. ASSUME NEW t \in Thread, Told(t, "boot_answered", "record")
       PROVE  Equipped(u)' /\ Waited(u)'
    BY <1>25 DEF Told, Go
<1>26. ASSUME NEW t \in Thread, Record(t) PROVE Equipped(u)' /\ Waited(u)'
    BY <1>26 DEF Record, Go
<1>27. ASSUME NEW t \in Thread, Enter(t) PROVE Equipped(u)' /\ Waited(u)'
    BY <1>27 DEF Enter, SshCommand, Go
<1>28. ASSUME NEW t \in Thread, Destroyed(t) PROVE Equipped(u)' /\ Waited(u)'
    BY <1>28 DEF Destroyed, Due
<1>29. ASSUME NEW t \in Thread, DestroyRaises(t)
       PROVE  Equipped(u)' /\ Waited(u)'
    BY <1>29 DEF DestroyRaises, Due
<1>30. ASSUME NEW t \in Thread, DestroyFails(t) PROVE Equipped(u)' /\ Waited(u)'
    BY <1>30 DEF DestroyFails, Due
<1>31. ASSUME NEW t \in Thread, EnterAgain(t) PROVE Equipped(u)' /\ Waited(u)'
    BY <1>31 DEF EnterAgain, SshCommand
<1> QED
    BY <1>1, <1>2, <1>3, <1>4, <1>5, <1>6, <1>7, <1>8, <1>9, <1>10,
       <1>11, <1>12, <1>13, <1>14, <1>15, <1>16, <1>17, <1>18, <1>19, <1>20,
       <1>21, <1>22, <1>23, <1>24, <1>25, <1>26, <1>27, <1>28, <1>29, <1>30,
       <1>31
       DEF Next, World, CreateStep, DestroyStep, TimeProcessAction, WaitForBoot

\* Only the making of a directory gives a creation one, and it was free.
LEMMA NextApart == ProvisionInv /\ [Next]_vars => Apart'
<1> SUFFICES ASSUME ProvisionInv, [Next]_vars PROVE Apart'
    OBVIOUS
<1> USE NamesAssumption, KindAssumption, ProvisionAssumption DEF ProvisionInv
<1> USE DEF TypeOK, NamesTypeOK, Places, CreatePlaces, WaitPlaces,
            EarlyPlaces, Apart, Equipped, HasDir, vars, nameVars,
            machineVars, fileVars
<1>1. CASE UNCHANGED vars
    BY <1>1
<1>2. CASE Clock
    BY <1>2 DEF Clock, Tick
<1>3. CASE CrashRestart
    BY <1>3 DEF CrashRestart
<1>4. ASSUME NEW t \in Thread, ChooseProviders(t) PROVE Apart'
    BY <1>4 DEF ChooseProviders, ChooseProvider, Go
<1>5. ASSUME NEW t \in Thread, MachineBoots(t) PROVE Apart'
    BY <1>5 DEF MachineBoots
<1>6. ASSUME NEW t \in Thread, LaunchExits(t) PROVE Apart'
    BY <1>6 DEF LaunchExits
<1>7. ASSUME NEW t \in Thread, SendRaises(t) PROVE Apart'
    BY <1>7 DEF SendRaises, Sends, SendPlaces, RaiseExcused, Raise, Go
<1>8. ASSUME NEW t \in Thread, GenerateName(t) PROVE Apart'
    BY <1>8 DEF GenerateName, PickName, NoAvailableName, Free, Raise, Go
<1>9. ASSUME NEW t \in Thread, MakeWorkspace(t) PROVE Apart'
    BY <1>9 DEF MakeWorkspace, MakeDir, DirExists, MayMakeDir, Raise, Go
<1>10. ASSUME NEW t \in Thread, Launch(t) PROVE Apart'
    BY <1>10 DEF Launch, Go
<1>11. ASSUME NEW t \in Thread, LaunchRefused(t) PROVE Apart'
    BY <1>11 DEF LaunchRefused, RaiseExcused, Raise, Go
<1>12. ASSUME NEW t \in Thread, LaunchReturns(t) PROVE Apart'
    BY <1>12 DEF LaunchReturns, RaiseExcused, Raise, Go
<1>13. ASSUME NEW t \in Thread, Dot(t, "wait", "check") PROVE Apart'
    BY <1>13 DEF Dot, Go
<1>14. ASSUME NEW t \in Thread, Check(t, "wait", "check", "answered", Answers(t))
       PROVE  Apart'
    BY <1>14 DEF Check, Polled, Counted, RaiseExcused, Raise, Go
<1>15. ASSUME NEW t \in Thread, GiveUp(t, "wait", "waited") PROVE Apart'
    BY <1>15 DEF GiveUp, Go
<1>16. ASSUME NEW t \in Thread, Told(t, "answered", "waited") PROVE Apart'
    BY <1>16 DEF Told, Go
<1>17. ASSUME NEW t \in Thread, CloudPrepares(t) PROVE Apart'
    BY <1>17 DEF CloudPrepares, Go
<1>18. ASSUME NEW t \in Thread, LoadRaises(t) PROVE Apart'
    BY <1>18 DEF LoadRaises, RaiseExcused, Raise, Go
<1>19. ASSUME NEW t \in Thread, LocalReturns(t) PROVE Apart'
    BY <1>19 DEF LocalReturns, LaunchSeen, Go
<1>20. ASSUME NEW t \in Thread, VagrantConfigures(t) PROVE Apart'
    BY <1>20 DEF VagrantConfigures, Go
<1>21. ASSUME NEW t \in Thread, VagrantExports(t) PROVE Apart'
    BY <1>21 DEF VagrantExports, RaiseExcused, Raise, Go
<1>22. ASSUME NEW t \in Thread, Dot(t, "boot_wait", "boot_check") PROVE Apart'
    BY <1>22 DEF Dot, Go
<1>23. ASSUME NEW t \in Thread, Check(t, "boot_wait", "boot_check", "boot_answered", BootAnswers(t))
       PROVE  Apart'
    BY <1>23 DEF Check, Polled, Counted, RaiseExcused, Raise, Go
<1>24. ASSUME NEW t \in Thread, GiveUp(t, "boot_wait", "boot_answered")
       PROVE  Apart'
    BY <1>24 DEF GiveUp, Go
<1>25. ASSUME NEW t \in Thread, Told(t, "boot_answered", "record") PROVE Apart'
    BY <1>25 DEF Told, Go
<1>26. ASSUME NEW t \in Thread, Record(t) PROVE Apart'
    BY <1>26 DEF Record, Go
<1>27. ASSUME NEW t \in Thread, Enter(t) PROVE Apart'
    BY <1>27 DEF Enter, SshCommand, Go
<1>28. ASSUME NEW t \in Thread, Destroyed(t) PROVE Apart'
    BY <1>28 DEF Destroyed, Due
<1>29. ASSUME NEW t \in Thread, DestroyRaises(t) PROVE Apart'
    BY <1>29 DEF DestroyRaises, Due
<1>30. ASSUME NEW t \in Thread, DestroyFails(t) PROVE Apart'
    BY <1>30 DEF DestroyFails, Due
<1>31. ASSUME NEW t \in Thread, EnterAgain(t) PROVE Apart'
    BY <1>31 DEF EnterAgain, SshCommand
<1> QED
    BY <1>1, <1>2, <1>3, <1>4, <1>5, <1>6, <1>7, <1>8, <1>9, <1>10,
       <1>11, <1>12, <1>13, <1>14, <1>15, <1>16, <1>17, <1>18, <1>19, <1>20,
       <1>21, <1>22, <1>23, <1>24, <1>25, <1>26, <1>27, <1>28, <1>29, <1>30,
       <1>31
       DEF Next, World, CreateStep, DestroyStep, TimeProcessAction, WaitForBoot

\* The configuration of a provider is that of a box it has waited for.
LEMMA NextConfigured == ProvisionInv /\ [Next]_vars => Configured'
<1> SUFFICES ASSUME ProvisionInv, [Next]_vars PROVE Configured'
    OBVIOUS
<1> USE NamesAssumption, KindAssumption, ProvisionAssumption DEF ProvisionInv
<1> USE DEF TypeOK, NamesTypeOK, Places, CreatePlaces, WaitPlaces,
            EarlyPlaces, Configured, Configures, Equipped, Waited, KindOf,
            Cloud, Local, vars, nameVars, machineVars, fileVars
<1>1. CASE UNCHANGED vars
    BY <1>1
<1>2. CASE Clock
    BY <1>2 DEF Clock, Tick
<1>3. CASE CrashRestart
    BY <1>3 DEF CrashRestart
<1>4. ASSUME NEW t \in Thread, ChooseProviders(t) PROVE Configured'
    BY <1>4 DEF ChooseProviders, ChooseProvider, Go
<1>5. ASSUME NEW t \in Thread, MachineBoots(t) PROVE Configured'
    BY <1>5 DEF MachineBoots
<1>6. ASSUME NEW t \in Thread, LaunchExits(t) PROVE Configured'
    BY <1>6 DEF LaunchExits
<1>7. ASSUME NEW t \in Thread, SendRaises(t) PROVE Configured'
    BY <1>7 DEF SendRaises, Sends, SendPlaces, RaiseExcused, Raise, Go
<1>8. ASSUME NEW t \in Thread, GenerateName(t) PROVE Configured'
    BY <1>8 DEF GenerateName, PickName, NoAvailableName, Free, Raise, Go
<1>9. ASSUME NEW t \in Thread, MakeWorkspace(t) PROVE Configured'
    BY <1>9 DEF MakeWorkspace, MakeDir, DirExists, MayMakeDir, Raise, Go
<1>10. ASSUME NEW t \in Thread, Launch(t) PROVE Configured'
    BY <1>10 DEF Launch, Go
<1>11. ASSUME NEW t \in Thread, LaunchRefused(t) PROVE Configured'
    BY <1>11 DEF LaunchRefused, RaiseExcused, Raise, Go
<1>12. ASSUME NEW t \in Thread, LaunchReturns(t) PROVE Configured'
    BY <1>12 DEF LaunchReturns, RaiseExcused, Raise, Go
<1>13. ASSUME NEW t \in Thread, Dot(t, "wait", "check") PROVE Configured'
    BY <1>13 DEF Dot, Go
<1>14. ASSUME NEW t \in Thread, Check(t, "wait", "check", "answered", Answers(t))
       PROVE  Configured'
    BY <1>14 DEF Check, Polled, Counted, RaiseExcused, Raise, Go
<1>15. ASSUME NEW t \in Thread, GiveUp(t, "wait", "waited") PROVE Configured'
    BY <1>15 DEF GiveUp, Go
<1>16. ASSUME NEW t \in Thread, Told(t, "answered", "waited") PROVE Configured'
    BY <1>16 DEF Told, Go
<1>17. ASSUME NEW t \in Thread, CloudPrepares(t) PROVE Configured'
    BY <1>17 DEF CloudPrepares, Go
<1>18. ASSUME NEW t \in Thread, LoadRaises(t) PROVE Configured'
    BY <1>18 DEF LoadRaises, RaiseExcused, Raise, Go
<1>19. ASSUME NEW t \in Thread, LocalReturns(t) PROVE Configured'
    BY <1>19 DEF LocalReturns, LaunchSeen, Go
<1>20. ASSUME NEW t \in Thread, VagrantConfigures(t) PROVE Configured'
    BY <1>20 DEF VagrantConfigures, Go
<1>21. ASSUME NEW t \in Thread, VagrantExports(t) PROVE Configured'
    BY <1>21 DEF VagrantExports, RaiseExcused, Raise, Go
<1>22. ASSUME NEW t \in Thread, Dot(t, "boot_wait", "boot_check")
       PROVE  Configured'
    BY <1>22 DEF Dot, Go
<1>23. ASSUME NEW t \in Thread, Check(t, "boot_wait", "boot_check", "boot_answered", BootAnswers(t))
       PROVE  Configured'
    BY <1>23 DEF Check, Polled, Counted, RaiseExcused, Raise, Go
<1>24. ASSUME NEW t \in Thread, GiveUp(t, "boot_wait", "boot_answered")
       PROVE  Configured'
    BY <1>24 DEF GiveUp, Go
<1>25. ASSUME NEW t \in Thread, Told(t, "boot_answered", "record")
       PROVE  Configured'
    BY <1>25 DEF Told, Go
<1>26. ASSUME NEW t \in Thread, Record(t) PROVE Configured'
    BY <1>26 DEF Record, Go
<1>27. ASSUME NEW t \in Thread, Enter(t) PROVE Configured'
    BY <1>27 DEF Enter, SshCommand, Go
<1>28. ASSUME NEW t \in Thread, Destroyed(t) PROVE Configured'
    BY <1>28 DEF Destroyed, Due
<1>29. ASSUME NEW t \in Thread, DestroyRaises(t) PROVE Configured'
    BY <1>29 DEF DestroyRaises, Due
<1>30. ASSUME NEW t \in Thread, DestroyFails(t) PROVE Configured'
    BY <1>30 DEF DestroyFails, Due
<1>31. ASSUME NEW t \in Thread, EnterAgain(t) PROVE Configured'
    BY <1>31 DEF EnterAgain, SshCommand
<1> QED
    BY <1>1, <1>2, <1>3, <1>4, <1>5, <1>6, <1>7, <1>8, <1>9, <1>10,
       <1>11, <1>12, <1>13, <1>14, <1>15, <1>16, <1>17, <1>18, <1>19, <1>20,
       <1>21, <1>22, <1>23, <1>24, <1>25, <1>26, <1>27, <1>28, <1>29, <1>30,
       <1>31
       DEF Next, World, CreateStep, DestroyStep, TimeProcessAction, WaitForBoot

\* A record is written only where the wait has shown what the record needs.
LEMMA NextUsable == ProvisionInv /\ [Next]_vars => RecordIsUsable'
<1> SUFFICES ASSUME ProvisionInv, [Next]_vars PROVE RecordIsUsable'
    OBVIOUS
<1> USE NamesAssumption, KindAssumption, ProvisionAssumption DEF ProvisionInv
<1> USE DEF TypeOK, NamesTypeOK, Places, CreatePlaces, WaitPlaces,
            EarlyPlaces, RecordIsUsable, Equipped, Waited, KindOf, Cloud,
            Local, vars, nameVars, machineVars, fileVars
<1>1. CASE UNCHANGED vars
    BY <1>1
<1>2. CASE Clock
    BY <1>2 DEF Clock, Tick
<1>3. CASE CrashRestart
    BY <1>3 DEF CrashRestart
<1>4. ASSUME NEW t \in Thread, ChooseProviders(t) PROVE RecordIsUsable'
    BY <1>4 DEF ChooseProviders, ChooseProvider, Go
<1>5. ASSUME NEW t \in Thread, MachineBoots(t) PROVE RecordIsUsable'
    BY <1>5 DEF MachineBoots
<1>6. ASSUME NEW t \in Thread, LaunchExits(t) PROVE RecordIsUsable'
    BY <1>6 DEF LaunchExits
<1>7. ASSUME NEW t \in Thread, SendRaises(t) PROVE RecordIsUsable'
    BY <1>7 DEF SendRaises, Sends, SendPlaces, RaiseExcused, Raise, Go
<1>8. ASSUME NEW t \in Thread, GenerateName(t) PROVE RecordIsUsable'
    BY <1>8 DEF GenerateName, PickName, NoAvailableName, Free, Raise, Go
<1>9. ASSUME NEW t \in Thread, MakeWorkspace(t) PROVE RecordIsUsable'
    BY <1>9 DEF MakeWorkspace, MakeDir, DirExists, MayMakeDir, Raise, Go
<1>10. ASSUME NEW t \in Thread, Launch(t) PROVE RecordIsUsable'
    BY <1>10 DEF Launch, Go
<1>11. ASSUME NEW t \in Thread, LaunchRefused(t) PROVE RecordIsUsable'
    BY <1>11 DEF LaunchRefused, RaiseExcused, Raise, Go
<1>12. ASSUME NEW t \in Thread, LaunchReturns(t) PROVE RecordIsUsable'
    BY <1>12 DEF LaunchReturns, RaiseExcused, Raise, Go
<1>13. ASSUME NEW t \in Thread, Dot(t, "wait", "check") PROVE RecordIsUsable'
    BY <1>13 DEF Dot, Go
<1>14. ASSUME NEW t \in Thread, Check(t, "wait", "check", "answered", Answers(t))
       PROVE  RecordIsUsable'
    BY <1>14 DEF Check, Polled, Counted, RaiseExcused, Raise, Go
<1>15. ASSUME NEW t \in Thread, GiveUp(t, "wait", "waited")
       PROVE  RecordIsUsable'
    BY <1>15 DEF GiveUp, Go
<1>16. ASSUME NEW t \in Thread, Told(t, "answered", "waited")
       PROVE  RecordIsUsable'
    BY <1>16 DEF Told, Go
<1>17. ASSUME NEW t \in Thread, CloudPrepares(t) PROVE RecordIsUsable'
    BY <1>17 DEF CloudPrepares, Go
<1>18. ASSUME NEW t \in Thread, LoadRaises(t) PROVE RecordIsUsable'
    BY <1>18 DEF LoadRaises, RaiseExcused, Raise, Go
<1>19. ASSUME NEW t \in Thread, LocalReturns(t) PROVE RecordIsUsable'
    BY <1>19 DEF LocalReturns, LaunchSeen, Go
<1>20. ASSUME NEW t \in Thread, VagrantConfigures(t) PROVE RecordIsUsable'
    BY <1>20 DEF VagrantConfigures, Go
<1>21. ASSUME NEW t \in Thread, VagrantExports(t) PROVE RecordIsUsable'
    BY <1>21 DEF VagrantExports, RaiseExcused, Raise, Go
<1>22. ASSUME NEW t \in Thread, Dot(t, "boot_wait", "boot_check")
       PROVE  RecordIsUsable'
    BY <1>22 DEF Dot, Go
<1>23. ASSUME NEW t \in Thread, Check(t, "boot_wait", "boot_check", "boot_answered", BootAnswers(t))
       PROVE  RecordIsUsable'
    BY <1>23 DEF Check, Polled, Counted, RaiseExcused, Raise, Go
<1>24. ASSUME NEW t \in Thread, GiveUp(t, "boot_wait", "boot_answered")
       PROVE  RecordIsUsable'
    BY <1>24 DEF GiveUp, Go
<1>25. ASSUME NEW t \in Thread, Told(t, "boot_answered", "record")
       PROVE  RecordIsUsable'
    BY <1>25 DEF Told, Go
<1>26. ASSUME NEW t \in Thread, Record(t) PROVE RecordIsUsable'
    BY <1>26 DEF Record, Go
<1>27. ASSUME NEW t \in Thread, Enter(t) PROVE RecordIsUsable'
    BY <1>27 DEF Enter, SshCommand, Go
<1>28. ASSUME NEW t \in Thread, Destroyed(t) PROVE RecordIsUsable'
    BY <1>28 DEF Destroyed, Due
<1>29. ASSUME NEW t \in Thread, DestroyRaises(t) PROVE RecordIsUsable'
    BY <1>29 DEF DestroyRaises, Due
<1>30. ASSUME NEW t \in Thread, DestroyFails(t) PROVE RecordIsUsable'
    BY <1>30 DEF DestroyFails, Due
<1>31. ASSUME NEW t \in Thread, EnterAgain(t) PROVE RecordIsUsable'
    BY <1>31 DEF EnterAgain, SshCommand
<1> QED
    BY <1>1, <1>2, <1>3, <1>4, <1>5, <1>6, <1>7, <1>8, <1>9, <1>10,
       <1>11, <1>12, <1>13, <1>14, <1>15, <1>16, <1>17, <1>18, <1>19, <1>20,
       <1>21, <1>22, <1>23, <1>24, <1>25, <1>26, <1>27, <1>28, <1>29, <1>30,
       <1>31
       DEF Next, World, CreateStep, DestroyStep, TimeProcessAction, WaitForBoot

\* A creation that leaves its machine has the reason when it leaves.
LEMMA NextAbandoned == ProvisionInv /\ [Next]_vars => AbandonedForAReason'
<1> SUFFICES ASSUME ProvisionInv, [Next]_vars PROVE AbandonedForAReason'
    OBVIOUS
<1> USE NamesAssumption, KindAssumption, ProvisionAssumption DEF ProvisionInv
<1> USE DEF TypeOK, NamesTypeOK, Places, CreatePlaces, WaitPlaces,
            EarlyPlaces, AbandonedForAReason, Creating, Equipped, HasDir,
            Waited, KindOf, Cloud, Local, vars, nameVars, machineVars,
            fileVars
<1>1. CASE UNCHANGED vars
    BY <1>1
<1>2. CASE Clock
    BY <1>2 DEF Clock, Tick
<1>3. CASE CrashRestart
    BY <1>3 DEF CrashRestart
<1>4. ASSUME NEW t \in Thread, ChooseProviders(t) PROVE AbandonedForAReason'
    BY <1>4 DEF ChooseProviders, ChooseProvider, Go
<1>5. ASSUME NEW t \in Thread, MachineBoots(t) PROVE AbandonedForAReason'
    BY <1>5 DEF MachineBoots
<1>6. ASSUME NEW t \in Thread, LaunchExits(t) PROVE AbandonedForAReason'
    BY <1>6 DEF LaunchExits
<1>7. ASSUME NEW t \in Thread, SendRaises(t) PROVE AbandonedForAReason'
    BY <1>7 DEF SendRaises, Sends, SendPlaces, RaiseExcused, Raise, Go
<1>8. ASSUME NEW t \in Thread, GenerateName(t) PROVE AbandonedForAReason'
    <2>1. name[t] = NoName /\ machine[t] = "none" /\ ~Creating(t)
        BY <1>8 DEF GenerateName, Equipped, HasDir, EarlyPlaces, Creating,
           CreatePlaces, WaitPlaces
    <2>2. \A v \in Thread : machine[v] # "none" => name[v] # NoName
        BY NoNameAssumption DEF Equipped, HasDir
    <2>3. \A v \in Thread \ {t} : name'[v] = name[v] /\ pc'[v] = pc[v]
        BY <1>8 DEF GenerateName, PickName, NoAvailableName, nameVars, Raise, Go,
           TypeOK, NamesTypeOK
    <2>4. UNCHANGED <<machine, launch, tries, recorded, excused>>
        BY <1>8 DEF GenerateName, machineVars, fileVars
    <2>5. ASSUME NEW v \in Thread \ (recorded \cup excused),
                 machine[v] \in {"starting", "up"}, ~Creating(v)'
          PROVE  \/ launch[v] = "failed" \/ tries[v] > MaxCheck
                 \/ \E w \in Thread \ {v} : name'[w] = name'[v]
        <3>1. v # t /\ ~Creating(v) /\ name[v] # NoName
            BY <2>1, <2>2, <2>3, <2>5 DEF Creating
        <3>2. \/ launch[v] = "failed" \/ tries[v] > MaxCheck
              \/ \E w \in Thread \ {v} : name[w] = name[v]
            BY <2>5, <3>1 DEF AbandonedForAReason
        <3> QED BY <2>1, <2>3, <3>1, <3>2
    <2> QED BY <2>4, <2>5 DEF AbandonedForAReason
<1>9. ASSUME NEW t \in Thread, MakeWorkspace(t) PROVE AbandonedForAReason'
    BY <1>9 DEF MakeWorkspace, MakeDir, DirExists, MayMakeDir, Raise, Go
<1>10. ASSUME NEW t \in Thread, Launch(t) PROVE AbandonedForAReason'
    BY <1>10 DEF Launch, Go
<1>11. ASSUME NEW t \in Thread, LaunchRefused(t) PROVE AbandonedForAReason'
    BY <1>11 DEF LaunchRefused, RaiseExcused, Raise, Go
<1>12. ASSUME NEW t \in Thread, LaunchReturns(t) PROVE AbandonedForAReason'
    BY <1>12 DEF LaunchReturns, RaiseExcused, Raise, Go
<1>13. ASSUME NEW t \in Thread, Dot(t, "wait", "check")
       PROVE  AbandonedForAReason'
    BY <1>13 DEF Dot, Go
<1>14. ASSUME NEW t \in Thread, Check(t, "wait", "check", "answered", Answers(t))
       PROVE  AbandonedForAReason'
    BY <1>14 DEF Check, Polled, Counted, RaiseExcused, Raise, Go
<1>15. ASSUME NEW t \in Thread, GiveUp(t, "wait", "waited")
       PROVE  AbandonedForAReason'
    BY <1>15 DEF GiveUp, Go
<1>16. ASSUME NEW t \in Thread, Told(t, "answered", "waited")
       PROVE  AbandonedForAReason'
    BY <1>16 DEF Told, Go
<1>17. ASSUME NEW t \in Thread, CloudPrepares(t) PROVE AbandonedForAReason'
    BY <1>17 DEF CloudPrepares, Go
<1>18. ASSUME NEW t \in Thread, LoadRaises(t) PROVE AbandonedForAReason'
    BY <1>18 DEF LoadRaises, RaiseExcused, Raise, Go
<1>19. ASSUME NEW t \in Thread, LocalReturns(t) PROVE AbandonedForAReason'
    BY <1>19 DEF LocalReturns, LaunchSeen, Go
<1>20. ASSUME NEW t \in Thread, VagrantConfigures(t) PROVE AbandonedForAReason'
    BY <1>20 DEF VagrantConfigures, Go
<1>21. ASSUME NEW t \in Thread, VagrantExports(t) PROVE AbandonedForAReason'
    BY <1>21 DEF VagrantExports, RaiseExcused, Raise, Go
<1>22. ASSUME NEW t \in Thread, Dot(t, "boot_wait", "boot_check")
       PROVE  AbandonedForAReason'
    BY <1>22 DEF Dot, Go
<1>23. ASSUME NEW t \in Thread, Check(t, "boot_wait", "boot_check", "boot_answered", BootAnswers(t))
       PROVE  AbandonedForAReason'
    BY <1>23 DEF Check, Polled, Counted, RaiseExcused, Raise, Go
<1>24. ASSUME NEW t \in Thread, GiveUp(t, "boot_wait", "boot_answered")
       PROVE  AbandonedForAReason'
    BY <1>24 DEF GiveUp, Go
<1>25. ASSUME NEW t \in Thread, Told(t, "boot_answered", "record")
       PROVE  AbandonedForAReason'
    BY <1>25 DEF Told, Go
<1>26. ASSUME NEW t \in Thread, Record(t) PROVE AbandonedForAReason'
    BY <1>26 DEF Record, Go
<1>27. ASSUME NEW t \in Thread, Enter(t) PROVE AbandonedForAReason'
    BY <1>27 DEF Enter, SshCommand, Go
<1>28. ASSUME NEW t \in Thread, Destroyed(t) PROVE AbandonedForAReason'
    BY <1>28 DEF Destroyed, Due
<1>29. ASSUME NEW t \in Thread, DestroyRaises(t) PROVE AbandonedForAReason'
    BY <1>29 DEF DestroyRaises, Due
<1>30. ASSUME NEW t \in Thread, DestroyFails(t) PROVE AbandonedForAReason'
    BY <1>30 DEF DestroyFails, Due
<1>31. ASSUME NEW t \in Thread, EnterAgain(t) PROVE AbandonedForAReason'
    BY <1>31 DEF EnterAgain, SshCommand
<1> QED
    BY <1>1, <1>2, <1>3, <1>4, <1>5, <1>6, <1>7, <1>8, <1>9, <1>10,
       <1>11, <1>12, <1>13, <1>14, <1>15, <1>16, <1>17, <1>18, <1>19, <1>20,
       <1>21, <1>22, <1>23, <1>24, <1>25, <1>26, <1>27, <1>28, <1>29, <1>30,
       <1>31
       DEF Next, World, CreateStep, DestroyStep, TimeProcessAction, WaitForBoot

\* All parts together.
LEMMA NextProvisionInv == ProvisionInv /\ [Next]_vars => ProvisionInv'
<1> SUFFICES ASSUME ProvisionInv, [Next]_vars PROVE ProvisionInv'
    OBVIOUS
<1>1. TypeOK'
    BY NextTypeOK
<1>2. \A t \in Thread : Equipped(t)' /\ Waited(t)'
    BY NextThread
<1>3. Apart' /\ Configured' /\ RecordIsUsable' /\ AbandonedForAReason'
    BY NextApart, NextConfigured, NextUsable, NextAbandoned
<1> QED BY <1>1, <1>2, <1>3 DEF ProvisionInv

\* The inductive invariant holds in every behaviour.
THEOREM ProvisionInvHolds == Spec => []ProvisionInv
BY InitProvisionInv, NextProvisionInv, PTL DEF Spec

-----------------------------------------------------------------------------

\* The state of every creation has its type, and checks are counted within bounds.
THEOREM ProvisionTyped == Spec => []TypeOK
<1>1. ProvisionInv => TypeOK
    BY DEF ProvisionInv
<1> QED BY <1>1, ProvisionInvHolds, PTL

\* Sessions that make servers in one minute have directories of their own
\* (provider.py:29-40), for any number of them.
THEOREM OwnWorkspaceHolds == Spec => []OwnWorkspace
<1>1. ProvisionInv => OwnWorkspace
    BY DEF ProvisionInv, OwnWorkspace, Apart, HasDir
<1> QED BY <1>1, ProvisionInvHolds, PTL

\* A record can be used by those who read it, although nobody looks at what
\* time_process_action returns: the server.json is there, the local launch was
\* seen to succeed, the box has been up.
THEOREM RecordIsUsableHolds == Spec => []RecordIsUsable
<1>1. ProvisionInv => RecordIsUsable
    BY DEF ProvisionInv
<1> QED BY <1>1, ProvisionInvHolds, PTL

\* A machine without a record has a reason to be one.
THEOREM AbandonedForAReasonHolds == Spec => []AbandonedForAReason
<1>1. ProvisionInv => AbandonedForAReason
    BY DEF ProvisionInv
<1> QED BY <1>1, ProvisionInvHolds, PTL

\* The ssh command of a server, new or entered again, names its own configuration
\* but for vagrant (vagrant.py:62).
THEOREM OwnSshConfigHolds == Spec => []OwnSshConfig
<1>1. ProvisionInv => OwnSshConfig
    BY ProvisionAssumption DEF ProvisionInv, OwnSshConfig, Configured, Configures
<1> QED BY <1>1, ProvisionInvHolds, PTL

-----------------------------------------------------------------------------

\* A record comes by update_local_servers only.
LEMMA OnlyRecordAdds ==
    ASSUME [Next]_vars, NEW u, u \in recorded', u \notin recorded
    PROVE  u \in Thread /\ Record(u)
<1> USE DEF vars, machineVars, fileVars
<1>1. ~UNCHANGED vars /\ ~Clock /\ ~CrashRestart
    BY DEF Clock, CrashRestart
<1>2. PICK t \in Thread : World(t) \/ CreateStep(t) \/ DestroyStep(t)
    BY <1>1 DEF Next
<1>3. ~World(t)
    BY DEF World, ChooseProviders, MachineBoots, LaunchExits, EnterAgain
<1>4. ~DestroyStep(t)
    BY DEF DestroyStep, Destroyed, DestroyRaises, DestroyFails
<1>5. CreateStep(t) => Record(t)
    BY DEF CreateStep, SendRaises, GenerateName, MakeWorkspace, Launch, LaunchRefused,
           LaunchReturns, TimeProcessAction, WaitForBoot, Dot, Check, GiveUp, Told,
           CloudPrepares, LoadRaises, LocalReturns, VagrantConfigures, VagrantExports,
           Enter
<1> QED BY <1>2, <1>3, <1>4, <1>5 DEF Record

\* Records push each other out only across providers of one prefix, or among boxes.
THEOREM RecordKeptHolds == Spec => RecordKept
<1> DEFINE Kept(t, u) ==
        t \in recorded /\ t \notin recorded' /\ u \in recorded' /\ u \notin recorded
          => \/ prov[t] # prov[u] /\ Prefix[prov[t]] = Prefix[prov[u]]
             \/ prov[t] \in Vagrant /\ prov[u] \in Vagrant
<1>1. ASSUME ProvisionInv, [Next]_vars, NEW t \in Thread, NEW u \in Thread
      PROVE  Kept(t, u)
    <2> SUFFICES ASSUME t \in recorded, t \notin recorded', u \in recorded', u \notin recorded
                 PROVE  \/ prov[t] # prov[u] /\ Prefix[prov[t]] = Prefix[prov[u]]
                        \/ prov[t] \in Vagrant /\ prov[u] \in Vagrant
        OBVIOUS
    <2>1. Record(u)
        BY <1>1, OnlyRecordAdds
    <2>2. t # u /\ name[t] = name[u]
        BY <2>1 DEF Record
    <2>3. HasDir(t) /\ HasDir(u)
        BY <1>1, <2>1 DEF ProvisionInv, Equipped, Record, HasDir, CreatePlaces
    <2>4. name[t][1] = Prefix[prov[t]] /\ name[u][1] = Prefix[prov[u]]
        BY <1>1, <2>3 DEF ProvisionInv, Equipped
    <2> QED BY <1>1, <2>2, <2>3, <2>4 DEF ProvisionInv, Apart
<1>2. ASSUME ProvisionInv, [Next]_vars
      PROVE  [\A t, u \in Thread : Kept(t, u)]_vars
    BY <1>1, <1>2
<1> QED BY <1>2, ProvisionInvHolds, PTL DEF Spec, RecordKept

-----------------------------------------------------------------------------

\* A step of a thread takes it nearer to its end, whatever the others do.
LEMMA StepNearsEnd ==
    ASSUME ProvisionInv, [Next]_vars, NEW u \in Thread, pc[u] # "idle", pc'[u] # pc[u]
    PROVE  Left(u)' < Left(u)
<1> USE ProvisionAssumption DEF ProvisionInv
<1> USE DEF TypeOK, Places, CreatePlaces, WaitPlaces, Left, ChecksLeft,
            LoopLength, Waited, vars, nameVars, machineVars, fileVars
<1>1. CASE UNCHANGED vars
    BY <1>1
<1>2. CASE Clock
    BY <1>2 DEF Clock, Tick
<1>3. CASE CrashRestart
    BY <1>3 DEF CrashRestart
<1>4. ASSUME NEW t \in Thread, ChooseProviders(t) PROVE Left(u)' < Left(u)
    BY <1>4 DEF ChooseProviders, ChooseProvider, Go
<1>5. ASSUME NEW t \in Thread, MachineBoots(t) PROVE Left(u)' < Left(u)
    BY <1>5 DEF MachineBoots
<1>6. ASSUME NEW t \in Thread, LaunchExits(t) PROVE Left(u)' < Left(u)
    BY <1>6 DEF LaunchExits
<1>7. ASSUME NEW t \in Thread, SendRaises(t) PROVE Left(u)' < Left(u)
    BY <1>7 DEF SendRaises, Sends, SendPlaces, RaiseExcused, Raise, Go
<1>8. ASSUME NEW t \in Thread, GenerateName(t) PROVE Left(u)' < Left(u)
    BY <1>8 DEF GenerateName, PickName, NoAvailableName, Free, Raise, Go
<1>9. ASSUME NEW t \in Thread, MakeWorkspace(t) PROVE Left(u)' < Left(u)
    BY <1>9 DEF MakeWorkspace, MakeDir, DirExists, MayMakeDir, Raise, Go
<1>10. ASSUME NEW t \in Thread, Launch(t) PROVE Left(u)' < Left(u)
    BY <1>10 DEF Launch, Go
<1>11. ASSUME NEW t \in Thread, LaunchRefused(t) PROVE Left(u)' < Left(u)
    BY <1>11 DEF LaunchRefused, RaiseExcused, Raise, Go
<1>12. ASSUME NEW t \in Thread, LaunchReturns(t) PROVE Left(u)' < Left(u)
    BY <1>12 DEF LaunchReturns, RaiseExcused, Raise, Go
<1>13. ASSUME NEW t \in Thread, Dot(t, "wait", "check") PROVE Left(u)' < Left(u)
    BY <1>13 DEF Dot, Go
<1>14. ASSUME NEW t \in Thread, Check(t, "wait", "check", "answered", Answers(t))
       PROVE  Left(u)' < Left(u)
    BY <1>14 DEF Check, Polled, Counted, RaiseExcused, Raise, Go
<1>15. ASSUME NEW t \in Thread, GiveUp(t, "wait", "waited")
       PROVE  Left(u)' < Left(u)
    BY <1>15 DEF GiveUp, Go
<1>16. ASSUME NEW t \in Thread, Told(t, "answered", "waited")
       PROVE  Left(u)' < Left(u)
    BY <1>16 DEF Told, Go
<1>17. ASSUME NEW t \in Thread, CloudPrepares(t) PROVE Left(u)' < Left(u)
    BY <1>17 DEF CloudPrepares, Go
<1>18. ASSUME NEW t \in Thread, LoadRaises(t) PROVE Left(u)' < Left(u)
    BY <1>18 DEF LoadRaises, RaiseExcused, Raise, Go
<1>19. ASSUME NEW t \in Thread, LocalReturns(t) PROVE Left(u)' < Left(u)
    BY <1>19 DEF LocalReturns, LaunchSeen, Go
<1>20. ASSUME NEW t \in Thread, VagrantConfigures(t) PROVE Left(u)' < Left(u)
    BY <1>20 DEF VagrantConfigures, Go
<1>21. ASSUME NEW t \in Thread, VagrantExports(t) PROVE Left(u)' < Left(u)
    BY <1>21 DEF VagrantExports, RaiseExcused, Raise, Go
<1>22. ASSUME NEW t \in Thread, Dot(t, "boot_wait", "boot_check")
       PROVE  Left(u)' < Left(u)
    BY <1>22 DEF Dot, Go
<1>23. ASSUME NEW t \in Thread, Check(t, "boot_wait", "boot_check", "boot_answered", BootAnswers(t))
       PROVE  Left(u)' < Left(u)
    BY <1>23 DEF Check, Polled, Counted, RaiseExcused, Raise, Go
<1>24. ASSUME NEW t \in Thread, GiveUp(t, "boot_wait", "boot_answered")
       PROVE  Left(u)' < Left(u)
    BY <1>24 DEF GiveUp, Go
<1>25. ASSUME NEW t \in Thread, Told(t, "boot_answered", "record")
       PROVE  Left(u)' < Left(u)
    BY <1>25 DEF Told, Go
<1>26. ASSUME NEW t \in Thread, Record(t) PROVE Left(u)' < Left(u)
    BY <1>26 DEF Record, Go
<1>27. ASSUME NEW t \in Thread, Enter(t) PROVE Left(u)' < Left(u)
    BY <1>27 DEF Enter, SshCommand, Go
<1>28. ASSUME NEW t \in Thread, Destroyed(t) PROVE Left(u)' < Left(u)
    BY <1>28 DEF Destroyed, Due
<1>29. ASSUME NEW t \in Thread, DestroyRaises(t) PROVE Left(u)' < Left(u)
    BY <1>29 DEF DestroyRaises, Due
<1>30. ASSUME NEW t \in Thread, DestroyFails(t) PROVE Left(u)' < Left(u)
    BY <1>30 DEF DestroyFails, Due
<1>31. ASSUME NEW t \in Thread, EnterAgain(t) PROVE Left(u)' < Left(u)
    BY <1>31 DEF EnterAgain, SshCommand
<1> QED
    BY <1>1, <1>2, <1>3, <1>4, <1>5, <1>6, <1>7, <1>8, <1>9, <1>10,
       <1>11, <1>12, <1>13, <1>14, <1>15, <1>16, <1>17, <1>18, <1>19, <1>20,
       <1>21, <1>22, <1>23, <1>24, <1>25, <1>26, <1>27, <1>28, <1>29, <1>30,
       <1>31
       DEF Next, World, CreateStep, DestroyStep, TimeProcessAction, WaitForBoot

\* Each step of a creation brings it nearer to its end: Left decreases.
THEOREM CreationEndsHolds == Spec => CreationEnds
<1>1. ASSUME ProvisionInv, [Next]_vars
      PROVE  [\A t \in Thread : pc[t] # "idle" /\ pc'[t] # pc[t] => Left(t)' < Left(t)]_vars
    BY <1>1, StepNearsEnd
<1> QED BY <1>1, ProvisionInvHolds, PTL DEF Spec, CreationEnds

-----------------------------------------------------------------------------

\* One step moves the life of each server on as ServerLife has it.
LEMMA LifeMovesOn ==
    ASSUME ProvisionInv, [Next]_vars, NEW u \in Thread
    PROVE  life'[u] = life[u] \/ life'[u] \in L!After[life[u]]
<1> USE DEF ProvisionInv
<1>0. L!After = [none |-> {"made"}, made |-> {"listed", "lost", "gone"},
                 listed |-> {"lost", "gone"}, lost |-> {"gone"}, gone |-> {}]
    BY DEF L!After
<1> USE DEF life, Creating, TypeOK, Places, CreatePlaces, WaitPlaces,
            EarlyPlaces, Equipped, vars, nameVars, machineVars, fileVars
<1>1. CASE UNCHANGED vars
    BY <1>1, <1>0
<1>2. CASE Clock
    BY <1>2, <1>0 DEF Clock, Tick
<1>3. CASE CrashRestart
    BY <1>3, <1>0 DEF CrashRestart
<1>4. ASSUME NEW t \in Thread, ChooseProviders(t)
      PROVE  life'[u] = life[u] \/ life'[u] \in L!After[life[u]]
    BY <1>4, <1>0 DEF ChooseProviders, ChooseProvider, Go
<1>5. ASSUME NEW t \in Thread, MachineBoots(t)
      PROVE  life'[u] = life[u] \/ life'[u] \in L!After[life[u]]
    BY <1>5, <1>0 DEF MachineBoots
<1>6. ASSUME NEW t \in Thread, LaunchExits(t)
      PROVE  life'[u] = life[u] \/ life'[u] \in L!After[life[u]]
    BY <1>6, <1>0 DEF LaunchExits
<1>7. ASSUME NEW t \in Thread, SendRaises(t)
      PROVE  life'[u] = life[u] \/ life'[u] \in L!After[life[u]]
    BY <1>7, <1>0 DEF SendRaises, Sends, SendPlaces, RaiseExcused, Raise, Go
<1>8. ASSUME NEW t \in Thread, GenerateName(t)
      PROVE  life'[u] = life[u] \/ life'[u] \in L!After[life[u]]
    BY <1>8, <1>0 DEF GenerateName, PickName, NoAvailableName, Free, Raise, Go
<1>9. ASSUME NEW t \in Thread, MakeWorkspace(t)
      PROVE  life'[u] = life[u] \/ life'[u] \in L!After[life[u]]
    BY <1>9, <1>0 DEF MakeWorkspace, MakeDir, DirExists, MayMakeDir, Raise, Go
<1>10. ASSUME NEW t \in Thread, Launch(t)
       PROVE  life'[u] = life[u] \/ life'[u] \in L!After[life[u]]
    BY <1>10, <1>0 DEF Launch, Go
<1>11. ASSUME NEW t \in Thread, LaunchRefused(t)
       PROVE  life'[u] = life[u] \/ life'[u] \in L!After[life[u]]
    BY <1>11, <1>0 DEF LaunchRefused, RaiseExcused, Raise, Go
<1>12. ASSUME NEW t \in Thread, LaunchReturns(t)
       PROVE  life'[u] = life[u] \/ life'[u] \in L!After[life[u]]
    BY <1>12, <1>0 DEF LaunchReturns, RaiseExcused, Raise, Go
<1>13. ASSUME NEW t \in Thread, Dot(t, "wait", "check")
       PROVE  life'[u] = life[u] \/ life'[u] \in L!After[life[u]]
    BY <1>13, <1>0 DEF Dot, Go
<1>14. ASSUME NEW t \in Thread, Check(t, "wait", "check", "answered", Answers(t))
       PROVE  life'[u] = life[u] \/ life'[u] \in L!After[life[u]]
    BY <1>14, <1>0 DEF Check, Polled, Counted, RaiseExcused, Raise, Go
<1>15. ASSUME NEW t \in Thread, GiveUp(t, "wait", "waited")
       PROVE  life'[u] = life[u] \/ life'[u] \in L!After[life[u]]
    BY <1>15, <1>0 DEF GiveUp, Go
<1>16. ASSUME NEW t \in Thread, Told(t, "answered", "waited")
       PROVE  life'[u] = life[u] \/ life'[u] \in L!After[life[u]]
    BY <1>16, <1>0 DEF Told, Go
<1>17. ASSUME NEW t \in Thread, CloudPrepares(t)
       PROVE  life'[u] = life[u] \/ life'[u] \in L!After[life[u]]
    BY <1>17, <1>0 DEF CloudPrepares, Go
<1>18. ASSUME NEW t \in Thread, LoadRaises(t)
       PROVE  life'[u] = life[u] \/ life'[u] \in L!After[life[u]]
    BY <1>18, <1>0 DEF LoadRaises, RaiseExcused, Raise, Go
<1>19. ASSUME NEW t \in Thread, LocalReturns(t)
       PROVE  life'[u] = life[u] \/ life'[u] \in L!After[life[u]]
    BY <1>19, <1>0 DEF LocalReturns, LaunchSeen, Go
<1>20. ASSUME NEW t \in Thread, VagrantConfigures(t)
       PROVE  life'[u] = life[u] \/ life'[u] \in L!After[life[u]]
    BY <1>20, <1>0 DEF VagrantConfigures, Go
<1>21. ASSUME NEW t \in Thread, VagrantExports(t)
       PROVE  life'[u] = life[u] \/ life'[u] \in L!After[life[u]]
    BY <1>21, <1>0 DEF VagrantExports, RaiseExcused, Raise, Go
<1>22. ASSUME NEW t \in Thread, Dot(t, "boot_wait", "boot_check")
       PROVE  life'[u] = life[u] \/ life'[u] \in L!After[life[u]]
    BY <1>22, <1>0 DEF Dot, Go
<1>23. ASSUME NEW t \in Thread, Check(t, "boot_wait", "boot_check", "boot_answered", BootAnswers(t))
       PROVE  life'[u] = life[u] \/ life'[u] \in L!After[life[u]]
    BY <1>23, <1>0 DEF Check, Polled, Counted, RaiseExcused, Raise, Go
<1>24. ASSUME NEW t \in Thread, GiveUp(t, "boot_wait", "boot_answered")
       PROVE  life'[u] = life[u] \/ life'[u] \in L!After[life[u]]
    BY <1>24, <1>0 DEF GiveUp, Go
<1>25. ASSUME NEW t \in Thread, Told(t, "boot_answered", "record")
       PROVE  life'[u] = life[u] \/ life'[u] \in L!After[life[u]]
    BY <1>25, <1>0 DEF Told, Go
<1>26. ASSUME NEW t \in Thread, Record(t)
       PROVE  life'[u] = life[u] \/ life'[u] \in L!After[life[u]]
    BY <1>26, <1>0 DEF Record, Go
<1>27. ASSUME NEW t \in Thread, Enter(t)
       PROVE  life'[u] = life[u] \/ life'[u] \in L!After[life[u]]
    BY <1>27, <1>0 DEF Enter, SshCommand, Go
<1>28. ASSUME NEW t \in Thread, Destroyed(t)
       PROVE  life'[u] = life[u] \/ life'[u] \in L!After[life[u]]
    BY <1>28, <1>0 DEF Destroyed, Due
<1>29. ASSUME NEW t \in Thread, DestroyRaises(t)
       PROVE  life'[u] = life[u] \/ life'[u] \in L!After[life[u]]
    BY <1>29, <1>0 DEF DestroyRaises, Due
<1>30. ASSUME NEW t \in Thread, DestroyFails(t)
       PROVE  life'[u] = life[u] \/ life'[u] \in L!After[life[u]]
    BY <1>30, <1>0 DEF DestroyFails, Due
<1>31. ASSUME NEW t \in Thread, EnterAgain(t)
       PROVE  life'[u] = life[u] \/ life'[u] \in L!After[life[u]]
    BY <1>31, <1>0 DEF EnterAgain, SshCommand
<1> QED
    BY <1>1, <1>2, <1>3, <1>4, <1>5, <1>6, <1>7, <1>8, <1>9, <1>10,
       <1>11, <1>12, <1>13, <1>14, <1>15, <1>16, <1>17, <1>18, <1>19, <1>20,
       <1>21, <1>22, <1>23, <1>24, <1>25, <1>26, <1>27, <1>28, <1>29, <1>30,
       <1>31
       DEF Next, World, CreateStep, DestroyStep, TimeProcessAction, WaitForBoot

\* create_server and destroy_server implement the life of a server.
THEOREM ProvisionImplementsServerLife == Spec => ImplementsServerLife
<1>1. ASSUME Init PROVE L!Init
    <2>1. life = [t \in Thread |-> "none"]
        BY <1>1 DEF Init, life
    <2> DEFINE listed == {}
    <2>2. listed \in SUBSET Thread
        OBVIOUS
    <2>3. life = [t \in Thread |-> IF t \in listed THEN "listed" ELSE "none"]
        BY <2>1
    <2> HIDE DEF listed
    <2> QED BY <2>2, <2>3 DEF L!Init
<1>2. ASSUME ProvisionInv, [Next]_vars PROVE [L!Next]_life
    <2>1. life' \in [Thread -> DOMAIN L!After]
        BY <1>2, NextTypeOK DEF life, L!After, TypeOK
    <2>2. \A t \in Thread : life'[t] = life[t] \/ life'[t] \in L!After[life[t]]
        BY <1>2, LifeMovesOn
    <2> QED BY <2>1, <2>2 DEF L!Next
<1> QED BY <1>1, <1>2, ProvisionInvHolds, PTL DEF Spec, ImplementsServerLife, L!Spec
=============================================================================
