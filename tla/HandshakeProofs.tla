--------------------------- MODULE HandshakeProofs ---------------------------
(***************************************************************************)
(* Proofs about one connection, for any number of channels and ptys and    *)
(* for any client.  The invariant follows the order of the requests from   *)
(* one thread to the other: a shell is granted after a pty, the session    *)
(* chooses after a shell was granted, and the ssh process starts after     *)
(* that.                                                                   *)
(***************************************************************************)
EXTENDS Handshake, TLAPS

\* Where the session thread is once it has read the pty.
ChosenPlaces == {"asking", "choosing", "provisioning", "prepared", "using", "leaving"}

\* The events tell the truth about what the client has asked for.
EventsAreTrue ==
    /\ (pty_event = TRUE) <=> (master_fd # 0)
    /\ (shell_event = TRUE) => (pty_event = TRUE)
    /\ transport = "waiting_pty" => pty_event = FALSE

\* What the session thread holds by the time it is where it is.
SessionIsEquipped ==
    /\ session \in {"waiting_shell"} \cup ChosenPlaces => channel \in opened
    /\ session \in ChosenPlaces => slave_fd # 0

HandInv == TypeOK /\ EventsAreTrue /\ SessionIsEquipped /\ ProxyHasPty

\* HandInv holds for a socket that was just accepted.
LEMMA InitHandInv == Init => HandInv
<1> SUFFICES ASSUME Init PROVE HandInv
    OBVIOUS
<1>1. TypeOK
    <2>1. 0 \in 0..MaxPty
        BY PtyAssumption
    <2> QED BY <2>1, Zenon DEF Init, TypeOK
<1>2. EventsAreTrue
    BY DEF Init, EventsAreTrue
<1>3. SessionIsEquipped /\ ProxyHasPty
    BY DEF Init, SessionIsEquipped, ChosenPlaces, ProxyHasPty
<1> QED BY <1>1, <1>2, <1>3 DEF HandInv

\* The callbacks of Server, whatever the order of the requests, preserve HandInv.
LEMMA CallbackHandInv == HandInv /\ Callback => HandInv'
<1> SUFFICES ASSUME HandInv, Callback PROVE HandInv'
    OBVIOUS
<1> USE DEF HandInv, TypeOK, EventsAreTrue, SessionIsEquipped, ChosenPlaces,
            ProxyHasPty, sessionVars, clientVars
<1>1. ASSUME NEW c \in Channel, OpenChannel(c) PROVE HandInv'
    BY <1>1 DEF OpenChannel
<1>2. CASE PtyRequest
    BY <1>2, PtyAssumption DEF PtyRequest
<1>3. CASE ShellRequest
    BY <1>3 DEF ShellRequest
<1>4. CASE PtyWaitEnds
    BY <1>4 DEF PtyWaitEnds, Dies
<1>5. CASE WindowChangeRaises
    BY <1>5 DEF WindowChangeRaises, Dies
<1>6. CASE Disconnect
    BY <1>6 DEF Disconnect, Dies
<1>7. CASE Authenticate
    BY <1>7 DEF Authenticate
<1>8. CASE AuthRaises
    BY <1>8 DEF AuthRaises, Dies
<1> QED BY <1>1, <1>2, <1>3, <1>4, <1>5, <1>6, <1>7, <1>8 DEF Callback

\* The session thread preserves HandInv.
LEMMA SessionStepHandInv == HandInv /\ SessionStep => HandInv'
<1> SUFFICES ASSUME HandInv, SessionStep PROVE HandInv'
    OBVIOUS
<1> USE DEF HandInv, TypeOK, EventsAreTrue, SessionIsEquipped, ChosenPlaces,
            ProxyHasPty, transportVars, clientVars
<1>1. ASSUME NEW c \in Channel, Accept(c) PROVE HandInv'
    BY <1>1, ChannelAssumption DEF Accept
<1>2. CASE AcceptTimesOut
    BY <1>2 DEF AcceptTimesOut, SessionOver, Dies
<1>3. CASE ShellSeen
    BY <1>3 DEF ShellSeen
<1>4. CASE StartProxy
    BY <1>4 DEF StartProxy
<1>5. CASE GiveUp
    BY <1>5 DEF GiveUp, SessionOver, Dies
<1>6. CASE StartPump
    BY <1>6 DEF StartPump
<1>7. CASE PollSeesExit
    BY <1>7 DEF PollSeesExit
<1>8. CASE Leave
    BY <1>8 DEF Leave, SessionOver, Dies
<1>9. CASE Ask
    BY <1>9 DEF Ask
<1>10. CASE Answer
    BY <1>10 DEF Answer
<1> QED BY <1>1, <1>2, <1>3, <1>4, <1>5, <1>6, <1>7, <1>8, <1>9, <1>10
       DEF SessionStep

\* HandInv holds at all times.
LEMMA SpecHandInv == Spec => []HandInv
<1>1. HandInv /\ [Next]_vars => HandInv'
    <2> SUFFICES ASSUME HandInv, [Next]_vars PROVE HandInv'
        OBVIOUS
    <2>1. CASE ProxyExits
        BY <2>1 DEF ProxyExits, transportVars, clientVars, sessionVars, HandInv, TypeOK,
           EventsAreTrue, SessionIsEquipped, ChosenPlaces, ProxyHasPty
    <2>2. CASE PumpRaises
        BY <2>2 DEF PumpRaises, transportVars, clientVars, HandInv, TypeOK,
           EventsAreTrue, SessionIsEquipped, ChosenPlaces, ProxyHasPty
    <2>3. CASE UNCHANGED vars
        BY <2>3 DEF vars, transportVars, clientVars, sessionVars, HandInv, TypeOK,
           EventsAreTrue, SessionIsEquipped, ChosenPlaces, ProxyHasPty
    <2> QED BY <2>1, <2>2, <2>3, CallbackHandInv, SessionStepHandInv DEF Next
<1> QED BY <1>1, InitHandInv, PTL DEF Spec

\* A connection is well typed, whatever its client sends.
THEOREM HandshakeTyped == Spec => []TypeOK
<1>1. HandInv => TypeOK
    BY DEF HandInv
<1> QED BY <1>1, SpecHandInv, PTL

\* Whatever a client sends and in whatever order, Popen gets a pty and never
\* lobbyboy's own input and output.
THEOREM ProxyHasPtyHolds == Spec => []ProxyHasPty
<1>1. HandInv => ProxyHasPty
    BY DEF HandInv
<1> QED BY <1>1, SpecHandInv, PTL

\* The ten seconds of check_channel_shell_request are never rewarded: while the
\* thread of the transport waits for the pty it cannot handle the request for it.
THEOREM PtyWaitIsInVainHolds == Spec => []PtyWaitIsInVain
<1>1. HandInv => PtyWaitIsInVain
    BY DEF HandInv, EventsAreTrue, PtyWaitIsInVain
<1> QED BY <1>1, SpecHandInv, PTL
=============================================================================
