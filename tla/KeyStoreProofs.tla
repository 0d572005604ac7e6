--------------------------- MODULE KeyStoreProofs ---------------------------
(***************************************************************************)
(* Proofs about the host key, for any number of connections, keys and      *)
(* crashes.  The argument: main confirms the pair before any session runs, *)
(* so main is alone when it writes, and when it is done both files exist;  *)
(* a session that finds no pair therefore finds both files in              *)
(* write_key_to_file, and writes nothing.                                  *)
(***************************************************************************)
EXTENDS KeyStore, TLAPS

\* No session runs before main is done, and none ever writes.
MainFirst ==
    /\ pc[Main] # "ready" => \A s \in Session : pc[s] = "idle"
    /\ \A s \in Session : pc[s] \notin WritingPlaces
    /\ pc[Main] # "idle"

\* The public key is written after the private one, by the one that made both.
PubAfterPri ==
    /\ pub # Absent => pri \in Key
    /\ pub \in Key => pub = pri
    /\ pc[Main] = "ready" => pub # Absent
    /\ pub = NoKey => crashes > 0 \/ pc[Main] = "write_pub"

\* What main knows of the files while it works on them.
MainWrites ==
    /\ pc[Main] \in {"open_pri", "write_pri", "open_pub"} => pub = Absent
    /\ pc[Main] \in {"open_pub", "write_pub"} => pri = pri_key[Main]
    /\ pc[Main] = "write_pub" => pub = NoKey
    /\ pc[Main] \in WritingPlaces \cup {"exists"} => pri_key[Main] \in Key

\* A thread has read the private key that is there, and makes a key of its own
\* only when the pair is not complete.
ReadsWhatIsThere ==
    \A a \in Thread :
        /\ pc[a] = "load_pub" => pri_key[a] = Contents(pri)
        /\ pc[a] \in {"generate", "exists"} => pub \notin Key
        /\ pc[a] = "exists" => pri_key[a] \in Key
        /\ pc[a] = "ready" => pri_key[a] = pri \/ pub = NoKey

KeyInv == TypeOK /\ MainFirst /\ PubAfterPri /\ MainWrites /\ ReadsWhatIsThere

LEMMA InitKeyInv == Init => KeyInv
<1> SUFFICES ASSUME Init PROVE KeyInv
    OBVIOUS
<1> USE MainAssumption, KeyAssumption, CrashesAssumption DEF Init, Thread
<1>1. TypeOK
    <2>1. pc \in [Thread -> Places]
        BY DEF Places
    <2>2. pri_key \in [Thread -> Key \cup {NoKey}]
        OBVIOUS
    <2>3. \A a \in Thread : pc[a] = "ready" => pri_key[a] \in Key
        OBVIOUS
    <2>4. crashes \in 0..MaxCrashes
        OBVIOUS
    <2>5. pri \in Key \cup {NoKey, Absent} /\ pub \in Key \cup {NoKey, Absent}
        OBVIOUS
    <2>6. used \subseteq Key
        OBVIOUS
    <2> QED BY <2>1, <2>2, <2>3, <2>4, <2>5, <2>6, Zenon DEF TypeOK
<1>2. MainFirst /\ PubAfterPri /\ MainWrites
    BY DEF MainFirst, PubAfterPri, MainWrites, WritingPlaces
<1>3. ReadsWhatIsThere
    BY DEF ReadsWhatIsThere
<1> QED BY <1>1, <1>2, <1>3 DEF KeyInv

\* A thread that asks for the key, session or main, preserves KeyInv.
LEMMA ConfirmKeyInv ==
    ASSUME KeyInv, NEW a \in Thread, Confirm(a)
    PROVE  KeyInv'
<1> USE MainAssumption, KeyAssumption, CrashesAssumption
    DEF KeyInv, TypeOK, MainFirst, PubAfterPri, MainWrites, ReadsWhatIsThere,
        Thread, Places, WritingPlaces, Go, Contents
<1>1. CASE LoadPri(a)
    BY <1>1 DEF LoadPri
<1>2. CASE LoadPub(a)
    BY <1>2 DEF LoadPub
<1>3. ASSUME NEW k \in Key, Generate(a, k) PROVE KeyInv'
    BY <1>3 DEF Generate
<1>4. CASE CheckExists(a)
    BY <1>4 DEF CheckExists, PairExists
<1>5. CASE OpenPri(a)
    BY <1>5 DEF OpenPri
<1>6. CASE WritePri(a)
    BY <1>6 DEF WritePri
<1>7. CASE OpenPub(a)
    BY <1>7 DEF OpenPub
<1>8. CASE WritePub(a)
    BY <1>8 DEF WritePub
<1> QED BY <1>1, <1>2, <1>3, <1>4, <1>5, <1>6, <1>7, <1>8 DEF Confirm

LEMMA NextKeyInv == KeyInv /\ [Next]_vars => KeyInv'
<1> SUFFICES ASSUME KeyInv, [Next]_vars PROVE KeyInv'
    OBVIOUS
<1> USE MainAssumption, KeyAssumption, CrashesAssumption
    DEF KeyInv, TypeOK, MainFirst, PubAfterPri, MainWrites, ReadsWhatIsThere,
        Thread, Places, WritingPlaces, Go, Contents
<1>1. CASE CrashRestart
    BY <1>1 DEF CrashRestart
<1>2. ASSUME NEW s \in Session, Connect(s) PROVE KeyInv'
    BY <1>2 DEF Connect, Listening
<1>3. ASSUME NEW s \in Session, Leave(s) PROVE KeyInv'
    BY <1>3 DEF Leave
<1>4. CASE UNCHANGED vars
    BY <1>4 DEF vars
<1> QED BY <1>1, <1>2, <1>3, <1>4, ConfirmKeyInv DEF Next

LEMMA SpecKeyInv == Spec => []KeyInv
BY InitKeyInv, NextKeyInv, PTL DEF Spec

\* A thread that is ready has a key that is none of the empty strings.
THEOREM KeyStoreTyped == Spec => []TypeOK
<1>1. KeyInv => TypeOK
    BY DEF KeyInv
<1> QED BY <1>1, SpecKeyInv, PTL

\* Two files that both hold a key hold the same one.
THEOREM PairsMatchHolds == Spec => []PairsMatch
<1>1. KeyInv => PairsMatch
    BY DEF KeyInv, PubAfterPri, PairsMatch
<1> QED BY <1>1, SpecKeyInv, PTL

\* Every connection shows the key on disk, unless a crash has torn the pair.
THEOREM OneHostKeyHolds == Spec => []OneHostKey
<1>1. ASSUME KeyInv PROVE OneHostKey
    <2> SUFFICES ASSUME NEW s \in Session, pc[s] = "ready"
                 PROVE  pri_key[s] = pri \/ Torn
        BY DEF OneHostKey
    <2>1. pri_key[s] = pri \/ pub = NoKey
        BY <1>1 DEF KeyInv, ReadsWhatIsThere, Thread
    <2>2. pc[Main] = "ready"
        BY <1>1 DEF KeyInv, MainFirst
    <2>3. pub = NoKey => Torn
        BY <1>1, <2>2, KeyAssumption DEF KeyInv, PubAfterPri, Torn
    <2> QED BY <2>1, <2>3
<1> QED BY <1>1, SpecKeyInv, PTL

\* A complete pair is never replaced, and no file changes while lobbyboy listens.
THEOREM KeyKeptHolds == Spec => KeyKept
<1>1. ASSUME KeyInv, [Next]_vars
      PROVE  [pc[Main] = "ready" \/ (pri \in Key /\ pub \in Key)
                => UNCHANGED <<pri, pub>>]_vars
    <2>1. ASSUME NEW a \in Thread, Confirm(a),
                 pc[Main] = "ready" \/ (pri \in Key /\ pub \in Key)
          PROVE  UNCHANGED <<pri, pub>>
        <3>1. pc[a] \in WritingPlaces => a = Main
            BY <1>1 DEF KeyInv, MainFirst, Thread
        <3>2. pc[a] \notin WritingPlaces
            BY <1>1, <2>1, <3>1, KeyAssumption
               DEF KeyInv, MainWrites, WritingPlaces
        <3> QED BY <2>1, <3>2 DEF Confirm, WritingPlaces, LoadPri, LoadPub,
                   Generate, CheckExists, OpenPri, WritePri, OpenPub, WritePub
    <2>2. CrashRestart => UNCHANGED <<pri, pub>>
        BY DEF CrashRestart
    <2>3. \A s \in Session : Connect(s) \/ Leave(s) => UNCHANGED <<pri, pub>>
        BY DEF Connect, Leave
    <2> QED BY <1>1, <2>1, <2>2, <2>3 DEF Next
<1> QED BY <1>1, SpecKeyInv, PTL DEF Spec, KeyKept
=============================================================================
