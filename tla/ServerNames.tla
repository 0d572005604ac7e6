---------------------------- MODULE ServerNames ----------------------------
(***************************************************************************)
(* How a new server gets its name and its workspace, a directory of that   *)
(* name: generate_default_server_name (provider.py), which tests for the   *)
(* directory and then makes it, and generate_server_name (vagrant.py),     *)
(* which tests only.  Several sessions do this at once, without a lock,    *)
(* and no directory is ever removed.                                       *)
(***************************************************************************)
EXTENDS Naturals

CONSTANTS
    Thread,     \* the sessions that create a server, one each
    Provider,   \* the providers that are configured
    Vagrant,    \* those of them that are VagrantProviders
    Prefix,     \* per provider, its server_name_prefix
    MaxSuffix,  \* bound: names of one minute (27 in the code), boxes (98)
    MaxMinute,  \* bound: how long the clock runs
    Before,     \* how many names each provider has used when it all begins
    NoProvider, \* the provider of a thread that has chosen none
    NoName      \* the name of a thread that has none

ASSUME NamesAssumption ==
    /\ Vagrant \subseteq Provider /\ NoProvider \notin Provider
    /\ MaxSuffix \in Nat /\ MaxMinute \in Nat \ {0}
    /\ Before \in 0..MaxSuffix

VARIABLES
    minute,  \* datetime.now() to the minute, from 1
    dirs,    \* per provider, the names of the directories in its workspace
    prov,    \* per thread, the provider it creates a server with
    name     \* per thread, server_name

nameVars == <<minute, dirs, prov, name>>

\* The names of vagrant boxes carry no time.
BoxMinute == 0

\* The n-th name of a minute.
NameOf(p, m, n) == <<Prefix[p], m, n>>

Name == {NameOf(p, m, n) : p \in Provider, m \in 0..MaxMinute, n \in 1..MaxSuffix}

ASSUME NoNameAssumption == NoName \notin Name

-----------------------------------------------------------------------------

\* The providers have made servers in this minute before, and boxes.
NamesInit ==
    /\ minute = 1
    /\ dirs = [p \in Provider |->
                 {NameOf(p, IF p \in Vagrant THEN BoxMinute ELSE 1, n) : n \in 1..Before}]
    /\ prov = [t \in Thread |-> NoProvider]
    /\ name = [t \in Thread |-> NoName]

Tick ==
    /\ minute < MaxMinute
    /\ minute' = minute + 1
    /\ UNCHANGED <<dirs, prov, name>>

ChooseProvider(t, p) ==
    /\ prov' = [prov EXCEPT ![t] = p]
    /\ UNCHANGED <<minute, dirs, name>>

\* One suffix too many.
FreeBeyond(p, m) == {n \in 1..(MaxSuffix + 1) : NameOf(p, m, n) \notin dirs[p]}

\* The numbers of the names that are free now.
Free(p, m) == {n \in 1..MaxSuffix : NameOf(p, m, n) \notin dirs[p]}

\* Which minute the name of a new server carries.
Stamp(t) == IF prov[t] \in Vagrant THEN BoxMinute ELSE minute

\* The loop over the suffixes.  Directories only come, so the first one that
\* is not there can be looked for at once.
PickName(t) ==
    /\ \E n \in Free(prov[t], Stamp(t)) :
         /\ \A k \in Free(prov[t], Stamp(t)) : n <= k
         /\ name' = [name EXCEPT ![t] = NameOf(prov[t], Stamp(t), n)]
    /\ UNCHANGED <<minute, dirs, prov>>

\* NoAvailableNameException
NoAvailableName(t) == Free(prov[t], Stamp(t)) = {} /\ UNCHANGED nameVars

\* mkdir(exist_ok=True) for every provider.
MayMakeAnyDir(t) == TRUE

\* generate_default_server_name makes the directory itself, and only if it is
\* new; a vagrant box shares one that has come meanwhile.
MayMakeDir(t) == prov[t] \in Vagrant \/ name[t] \notin dirs[prov[t]]

MakeDir(t) ==
    /\ MayMakeDir(t)
    /\ dirs' = [dirs EXCEPT ![prov[t]] = @ \cup {name[t]}]
    /\ UNCHANGED <<minute, prov, name>>

\* FileExistsError
DirExists(t) == ~MayMakeDir(t) /\ UNCHANGED nameVars

NamesTypeOK ==
    /\ minute \in 1..MaxMinute
    /\ dirs \in [Provider -> SUBSET Name]
    /\ prov \in [Thread -> Provider \cup {NoProvider}]
    /\ name \in [Thread -> Name \cup {NoName}]
=============================================================================
