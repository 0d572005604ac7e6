------------------------------ MODULE Handshake ------------------------------
(***************************************************************************)
(* One ssh connection, from the accepted socket to the proxied shell: the  *)
(* callbacks of server.py, which paramiko runs in the thread of the        *)
(* transport, against the session thread of socket_handle.py, which waits  *)
(* for their events and reads the attributes they set.                     *)
(*                                                                         *)
(* The thread of the transport handles one request at a time, in whatever  *)
(* order the client sends them.  One connection may carry several          *)
(* channels; all of them share one Server object.                          *)
(***************************************************************************)
EXTENDS Naturals

CONSTANTS
    Channel,    \* the channels the client may open
    NoChannel,  \* the channel of a session that has accepted none
    MaxPty      \* bound: how many ptys the client asks for

ASSUME ChannelAssumption == NoChannel \notin Channel
ASSUME PtyAssumption == MaxPty \in Nat

VARIABLES
    polite,      \* whether the client asks for a pty first, and stays
    authed,      \* whether the client is authenticated
    transport,   \* its thread: "serving", "waiting_pty" or "dead"
    opened,      \* the channels that are open
    pty_event,   \* Server.pty_event
    shell_event, \* Server.shell_event
    master_fd,   \* Server.master_fd: the number of the last pty, 0 for None
    pid,         \* whether Server.proxy_subprocess_pid is set
    session,     \* where the session thread is
    channel,     \* SocketHandlerThread.channel
    slave_fd,    \* the pty the session thread has read for the ssh process
    proxy,       \* the ssh process: "none", "running", "zombie" or "reaped"
    pumped       \* the pty user_using copies from and to

clientVars == <<polite, authed>>
transportVars == <<clientVars, transport, opened, pty_event, shell_event, master_fd>>
sessionVars == <<pid, session, channel, slave_fd, pumped>>
vars == <<transportVars, sessionVars, proxy>>

-----------------------------------------------------------------------------

Init ==
    /\ polite \in BOOLEAN
    /\ authed = FALSE
    /\ transport = "serving"
    /\ opened = {}
    /\ pty_event = FALSE
    /\ shell_event = FALSE
    /\ master_fd = 0
    /\ pid = FALSE
    /\ session = "accepting"
    /\ channel = NoChannel
    /\ slave_fd = 0
    /\ proxy = "none"
    /\ pumped = 0

-----------------------------------------------------------------------------
(* The thread of the transport.                                            *)

\* An exception in a callback ends the thread and with it the connection.
Dies == transport' = "dead"

\* check_auth_password, check_auth_publickey and the two of gssapi: paramiko
\* opens nothing until one of them says AUTH_SUCCESSFUL.  AUTH_FAILED changes
\* nothing.
Authenticate ==
    /\ transport = "serving"
    /\ ~authed
    /\ authed' = TRUE
    /\ UNCHANGED <<polite, transport, opened, pty_event, shell_event, master_fd,
                   sessionVars, proxy>>

\* Each attempt loads the configuration again, which raises while the file is
\* no valid one; so do an unknown user and an unknown type with a public key.
AuthRaises ==
    /\ transport = "serving"
    /\ ~authed
    /\ Dies
    /\ UNCHANGED <<clientVars, opened, pty_event, shell_event, master_fd,
                   sessionVars, proxy>>

\* check_channel_request says yes to a session.
OpenChannel(c) ==
    /\ transport = "serving"
    /\ authed
    /\ c \notin opened
    /\ opened' = opened \cup {c}
    /\ UNCHANGED <<clientVars, transport, pty_event, shell_event, master_fd,
                   sessionVars, proxy>>

\* Each request handled in a thread of its own, while another one waits.
PtyRequestThreaded ==
    /\ transport # "dead"
    /\ opened # {}
    /\ master_fd < MaxPty
    /\ master_fd' = master_fd + 1
    /\ pty_event' = TRUE
    /\ UNCHANGED <<clientVars, transport, opened, shell_event, sessionVars, proxy>>

\* A new pty calls for a new shell.
PtyRequestClearsShell ==
    /\ transport = "serving"
    /\ opened # {}
    /\ master_fd < MaxPty
    /\ master_fd' = master_fd + 1
    /\ pty_event' = TRUE
    /\ shell_event' = FALSE
    /\ UNCHANGED <<clientVars, transport, opened, sessionVars, proxy>>

\* check_channel_pty_request: the new pty replaces the one before.
PtyRequest ==
    /\ transport = "serving"
    /\ opened # {}
    /\ master_fd < MaxPty
    /\ master_fd' = master_fd + 1
    /\ pty_event' = TRUE
    /\ UNCHANGED <<clientVars, transport, opened, shell_event, sessionVars, proxy>>

\* A shell is granted without a look at pty_event.
ShellRequestUnchecked ==
    /\ transport = "serving"
    /\ opened # {}
    /\ polite => pty_event
    /\ shell_event' = TRUE
    /\ UNCHANGED <<clientVars, transport, opened, pty_event, master_fd, sessionVars, proxy>>

\* check_channel_shell_request: it waits for pty_event where it is.
ShellRequest ==
    /\ transport = "serving"
    /\ opened # {}
    /\ polite => pty_event
    /\ IF pty_event
       THEN shell_event' = TRUE /\ UNCHANGED transport
       ELSE transport' = "waiting_pty" /\ UNCHANGED shell_event
    /\ UNCHANGED <<clientVars, opened, pty_event, master_fd, sessionVars, proxy>>

\* The wait is over after ten seconds.
PtyWaitEnds ==
    /\ transport = "waiting_pty"
    /\ IF pty_event
       THEN shell_event' = TRUE /\ transport' = "serving"
       ELSE Dies /\ UNCHANGED shell_event
    /\ UNCHANGED <<clientVars, opened, pty_event, master_fd, sessionVars, proxy>>

\* check_channel_window_change_request: harmless, but for a pty that is not
\* there yet and a process that is not there any more.
WindowChangeRaises ==
    /\ transport = "serving"
    /\ opened # {}
    /\ \/ master_fd = 0 /\ ~polite
       \/ master_fd # 0 /\ pid /\ proxy = "reaped"
    /\ Dies
    /\ UNCHANGED <<clientVars, opened, pty_event, shell_event, master_fd,
                   sessionVars, proxy>>

\* The client closes the connection, or it breaks.
Disconnect ==
    /\ transport = "serving"
    /\ ~polite
    /\ Dies
    /\ UNCHANGED <<clientVars, opened, pty_event, shell_event, master_fd,
                   sessionVars, proxy>>

-----------------------------------------------------------------------------
(* The session thread.                                                     *)

\* cleanup closes the transport.
SessionOver == session' = "done" /\ Dies

\* The session keeps all the channels that are open, not the accepted one.
AcceptAll(c) ==
    /\ session = "accepting"
    /\ c \in opened
    /\ channel' = opened
    /\ session' = "waiting_shell"
    /\ UNCHANGED <<transportVars, pid, slave_fd, pumped, proxy>>

\* t.accept returns a channel.
Accept(c) ==
    /\ session = "accepting"
    /\ c \in opened
    /\ channel' = c
    /\ session' = "waiting_shell"
    /\ UNCHANGED <<transportVars, pid, slave_fd, pumped, proxy>>

\* t.accept returns None after twenty seconds.
AcceptTimesOut ==
    /\ session = "accepting"
    /\ opened = {}
    /\ SessionOver
    /\ UNCHANGED <<clientVars, opened, pty_event, shell_event, master_fd,
                   pid, channel, slave_fd, pumped, proxy>>

\* shell_event.wait() is over.  getpeername raises when the transport is gone;
\* otherwise server.slave_fd is read, once, before choose_server begins.
ShellSeen ==
    /\ session = "waiting_shell"
    /\ shell_event
    /\ IF transport = "dead"
       THEN session' = "done" /\ UNCHANGED slave_fd
       ELSE session' = "asking" /\ slave_fd' = master_fd
    /\ UNCHANGED <<transportVars, pid, channel, pumped, proxy>>

\* choose_server and choose_option send the menu, and then they read.
Ask ==
    /\ session = "asking"
    /\ session' = IF transport = "dead" THEN "done" ELSE "choosing"
    /\ UNCHANGED <<transportVars, pid, channel, slave_fd, pumped, proxy>>

\* A client that goes while its server is made is waited for.
StartProxyUnheard ==
    /\ session = "provisioning"
    /\ transport # "dead"
    /\ session' = "prepared"
    /\ pid' = TRUE
    /\ proxy' = "running"
    /\ UNCHANGED <<transportVars, channel, slave_fd, pumped>>

\* The user has answered all there is to answer.  A client that goes while a
\* prompt reads is not noticed: recv returns an empty string, its echo is an
\* empty message, and read_user_input_line reads again, for ever.
Answer ==
    /\ session = "choosing"
    /\ transport # "dead"
    /\ session' = "provisioning"
    /\ UNCHANGED <<transportVars, pid, channel, slave_fd, pumped, proxy>>

\* The server is there, the client is told, and the ssh process starts.
StartProxy ==
    /\ session = "provisioning"
    /\ IF transport = "dead"
       THEN session' = "done" /\ UNCHANGED <<pid, proxy>>
       ELSE session' = "prepared" /\ pid' = TRUE /\ proxy' = "running"
    /\ UNCHANGED <<transportVars, channel, slave_fd, pumped>>

\* Cancelled at a prompt, or the provider raised.
GiveUp ==
    /\ session \in {"choosing", "provisioning"}
    /\ transport # "dead"
    /\ SessionOver
    /\ UNCHANGED <<clientVars, opened, pty_event, shell_event, master_fd,
                   pid, channel, slave_fd, pumped, proxy>>

\* The line of "=" is sent, then user_using reads server.master_fd.
StartPump ==
    /\ session = "prepared"
    /\ IF transport = "dead"
       THEN session' = "done" /\ UNCHANGED pumped
       ELSE session' = "using" /\ pumped' = master_fd
    /\ UNCHANGED <<transportVars, pid, channel, slave_fd, proxy>>

ProxyExits ==
    /\ proxy = "running"
    /\ proxy' = "zombie"
    /\ UNCHANGED <<transportVars, sessionVars>>

\* proxy_subprocess.poll() answers: the process is reaped, its pid stays.
PollSeesExit ==
    /\ session = "using"
    /\ proxy = "zombie"
    /\ proxy' = "reaped"
    /\ session' = "leaving"
    /\ UNCHANGED <<transportVars, pid, channel, slave_fd, pumped>>

\* Output for a client that is gone.
PumpRaises ==
    /\ session = "using"
    /\ transport = "dead"
    /\ session' = "done"
    /\ UNCHANGED <<transportVars, pid, channel, slave_fd, pumped, proxy>>

\* The goodbye, the session's list, the server: see Lobby.
Leave ==
    /\ session = "leaving"
    /\ SessionOver
    /\ UNCHANGED <<clientVars, opened, pty_event, shell_event, master_fd,
                   pid, channel, slave_fd, pumped, proxy>>

-----------------------------------------------------------------------------

Callback ==
    \/ Authenticate
    \/ AuthRaises
    \/ \E c \in Channel : OpenChannel(c)
    \/ PtyRequest
    \/ ShellRequest
    \/ PtyWaitEnds
    \/ WindowChangeRaises
    \/ Disconnect

SessionStep ==
    \/ \E c \in Channel : Accept(c)
    \/ AcceptTimesOut
    \/ ShellSeen
    \/ Ask
    \/ Answer
    \/ StartProxy
    \/ GiveUp
    \/ StartPump
    \/ PollSeesExit
    \/ Leave

Next == Callback \/ SessionStep \/ ProxyExits \/ PumpRaises

Spec == Init /\ [][Next]_vars

\* Both threads are scheduled, waits with a timeout end, and users answer
\* prompts.  Nothing is assumed of the requests or of the ssh process: it may
\* run for ever, and it may never print again.
Fairness == WF_vars(SessionStep) /\ WF_vars(PtyWaitEnds)

FairSpec == Spec /\ Fairness

-----------------------------------------------------------------------------

TypeOK ==
    /\ polite \in BOOLEAN
    /\ authed \in BOOLEAN
    /\ transport \in {"serving", "waiting_pty", "dead"}
    /\ opened \subseteq Channel
    /\ pty_event \in BOOLEAN
    /\ shell_event \in BOOLEAN
    /\ master_fd \in 0..MaxPty
    /\ pid \in BOOLEAN
    /\ session \in {"accepting", "waiting_shell", "asking", "choosing",
                    "provisioning", "prepared", "using", "leaving", "done"}
    /\ channel \in Channel \cup {NoChannel}
    /\ slave_fd \in 0..MaxPty
    /\ proxy \in {"none", "running", "zombie", "reaped"}
    /\ pumped \in 0..MaxPty

\* The ssh process has a terminal, and its client a channel.  It is about the
\* chain pty request, pty_event, shell request, shell_event, Popen, which runs
\* through both threads: Popen would take a slave_fd of None without complaint
\* and give the process lobbyboy's own input and output.
ProxyHasPty == proxy # "none" => slave_fd # 0 /\ channel \in opened

\* The wait for pty_event can never succeed: the thread that waits is the one
\* that would set it.  A client that asks for the shell first is disconnected
\* ten seconds later, whatever it sends meanwhile.
PtyWaitIsInVain == transport = "waiting_pty" => ~pty_event /\ ~shell_event

\* A polite client that is granted a shell is served, or the session ends.
Served == polite /\ shell_event ~> session \in {"using", "done"}

\* A session whose client has gone ends, whichever of its steps it was at and
\* whatever the client had asked for, but for the three places that take no
\* notice: the wait for a shell that was never granted (socket_handle.py:161),
\* a prompt that reads (utils.py:199), and a pump whose ssh process is silent.
LostClientNoticed ==
    transport = "dead" ~> \/ session \in {"done", "choosing", "using"}
                          \/ session = "waiting_shell" /\ ~shell_event

\* What socket_handle.py:176 answers to the end of the input, "Got EOF, closing
\* session...": a session whose client is gone during a prompt ends.
EofEnds == session = "choosing" /\ transport = "dead" ~> session = "done"
=============================================================================
