------------------------------ MODULE KeyStore ------------------------------
(***************************************************************************)
(* The host key of lobbyboy: two files, written by confirm_ssh_key_pair    *)
(* (utils.py), which main calls once before it listens and every session   *)
(* calls for its own transport.  There is no lock.                         *)
(*                                                                         *)
(* Each file is opened with "w+", which empties it, and reaches the disk   *)
(* when it is closed; the process may be killed anywhere in between and is *)
(* then started again.                                                     *)
(***************************************************************************)
EXTENDS Naturals

CONSTANTS
    Main,        \* the thread of main
    Session,     \* the threads of the connections
    Key,         \* the key pairs that can be generated: bounds how many are
    NoKey,       \* the empty string: what an empty file holds
    Absent,      \* what a file that does not exist holds
    MaxCrashes   \* bound: how often the process is killed and restarted

ASSUME MainAssumption == Main \notin Session
ASSUME KeyAssumption == NoKey \notin Key /\ Absent \notin Key /\ NoKey # Absent
ASSUME CrashesAssumption == MaxCrashes \in Nat

VARIABLES
    pri,      \* the file of the private key
    pub,      \* the file of the public key
    pc,       \* where each thread is
    pri_key,  \* per thread, the variable of that name
    used,     \* the keys generated so far
    crashes   \* how often the process has crashed

vars == <<pri, pub, pc, pri_key, used, crashes>>

Thread == Session \cup {Main}

WritingPlaces == {"open_pri", "write_pri", "open_pub", "write_pub"}
Places == {"idle", "load_pri", "load_pub", "generate", "exists", "ready"}
          \cup WritingPlaces

-----------------------------------------------------------------------------

\* The first start: no key yet.
Init ==
    /\ pri = Absent
    /\ pub = Absent
    /\ pc = [a \in Thread |-> IF a = Main THEN "load_pri" ELSE "idle"]
    /\ pri_key = [a \in Thread |-> NoKey]
    /\ used = {}
    /\ crashes = 0

Go(a, place) == pc' = [pc EXCEPT ![a] = place]

\* A server that listens while main still makes the key.
ListeningEarly == TRUE

\* main calls runserver after confirm_ssh_key_pair has returned.
Listening == pc[Main] = "ready"

\* A connection is accepted: prepare_server asks for the host key.
Connect(s) ==
    /\ Listening
    /\ pc[s] = "idle"
    /\ Go(s, "load_pri")
    /\ UNCHANGED <<pri, pub, pri_key, used, crashes>>

\* The connection is over; another one may take its place.
Leave(s) ==
    /\ pc[s] = "ready"
    /\ Go(s, "idle")
    /\ pri_key' = [pri_key EXCEPT ![s] = NoKey]
    /\ UNCHANGED <<pri, pub, used, crashes>>

\* A file is read without a look whether it is there.
RawContents(file) == file

\* try_load_key_from_file: a file that does not exist reads as "".
Contents(file) == IF file = Absent THEN NoKey ELSE file

LoadPri(a) ==
    /\ pc[a] = "load_pri"
    /\ pri_key' = [pri_key EXCEPT ![a] = Contents(pri)]
    /\ Go(a, "load_pub")
    /\ UNCHANGED <<pri, pub, used, crashes>>

LoadPub(a) ==
    /\ pc[a] = "load_pub"
    /\ Go(a, IF pri_key[a] # NoKey /\ Contents(pub) # NoKey
             THEN "ready" ELSE "generate")
    /\ UNCHANGED <<pri, pub, pri_key, used, crashes>>

\* generate_ssh_key_pair: nobody else has this key.
Generate(a, k) ==
    /\ pc[a] = "generate"
    /\ k \in Key \ used
    /\ pri_key' = [pri_key EXCEPT ![a] = k]
    /\ used' = used \cup {k}
    /\ Go(a, "exists")
    /\ UNCHANGED <<pri, pub, crashes>>

\* The private key alone is looked for.
PriExists == pri # Absent

\* The two calls of exists: files are never removed, so they are one look.
PairExists == pri # Absent /\ pub # Absent

\* write_key_to_file returns the new key, and does not write it, if both exist.
CheckExists(a) ==
    /\ pc[a] = "exists"
    /\ Go(a, IF PairExists THEN "ready" ELSE "open_pri")
    /\ UNCHANGED <<pri, pub, pri_key, used, crashes>>

OpenPri(a) ==
    /\ pc[a] = "open_pri"
    /\ pri' = NoKey
    /\ Go(a, "write_pri")
    /\ UNCHANGED <<pub, pri_key, used, crashes>>

WritePri(a) ==
    /\ pc[a] = "write_pri"
    /\ pri' = pri_key[a]
    /\ Go(a, "open_pub")
    /\ UNCHANGED <<pub, pri_key, used, crashes>>

OpenPub(a) ==
    /\ pc[a] = "open_pub"
    /\ pub' = NoKey
    /\ Go(a, "write_pub")
    /\ UNCHANGED <<pri, pri_key, used, crashes>>

WritePub(a) ==
    /\ pc[a] = "write_pub"
    /\ pub' = pri_key[a]
    /\ Go(a, "ready")
    /\ UNCHANGED <<pri, pri_key, used, crashes>>

\* The process is killed and systemd starts it again: the files stay.
CrashRestart ==
    /\ crashes < MaxCrashes
    /\ crashes' = crashes + 1
    /\ pc' = [a \in Thread |-> IF a = Main THEN "load_pri" ELSE "idle"]
    /\ pri_key' = [a \in Thread |-> NoKey]
    /\ UNCHANGED <<pri, pub, used>>

\* confirm_ssh_key_pair
Confirm(a) ==
    \/ LoadPri(a)
    \/ LoadPub(a)
    \/ \E k \in Key : Generate(a, k)
    \/ CheckExists(a)
    \/ OpenPri(a)
    \/ WritePri(a)
    \/ OpenPub(a)
    \/ WritePub(a)

Next ==
    \/ CrashRestart
    \/ \E s \in Session : Connect(s) \/ Leave(s)
    \/ \E a \in Thread : Confirm(a)

Spec == Init /\ [][Next]_vars

-----------------------------------------------------------------------------

TypeOK ==
    /\ pri \in Key \cup {NoKey, Absent}
    /\ pub \in Key \cup {NoKey, Absent}
    /\ pc \in [Thread -> Places]
    /\ pri_key \in [Thread -> Key \cup {NoKey}]
    /\ used \subseteq Key
    /\ crashes \in 0..MaxCrashes
    /\ \A a \in Thread : pc[a] = "ready" => pri_key[a] \in Key

\* Two files that both hold a key hold the same one, whatever threads do at once
\* and wherever the process was killed.  It is about the order of the writes of
\* write_key_to_file and the test before them.
PairsMatch == pri \in Key /\ pub \in Key => pri = pub

\* The pair was torn: a crash fell between the open and the write of the public
\* key, and both files exist ever after.
Torn == pri # Absent /\ pub = NoKey /\ crashes > 0

\* All connections of lobbyboy show the key that is on disk, unless a crash has
\* torn the pair: then each one makes a key of its own and writes none.  It
\* is about main calling confirm_ssh_key_pair before it listens: a session
\* never loads a file that is being written, nor makes the first key itself.
OneHostKey ==
    \A s \in Session : pc[s] = "ready" => pri_key[s] = pri \/ Torn

\* A pair that is complete is never replaced, not after any crash either; and
\* once lobbyboy listens neither file changes, so that the connections that
\* come at once cannot write over one another.
KeyKept ==
    [][pc[Main] = "ready" \/ (pri \in Key /\ pub \in Key) => UNCHANGED <<pri, pub>>]_vars
=============================================================================
