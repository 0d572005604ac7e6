# A TLA+ model of lobbyboy

lobbyboy is an ssh server that creates cloud servers on demand, proxies its
clients to them, and destroys them when they are no longer used and before they
cost another unit of the bill. This directory holds a model of it: modules in
TLA+, runs of the model checker TLC, and proofs checked by TLAPS. Paths below are
relative to `src/lobbyboy` unless they begin with `src/`.

## The system

| part | source | state | operations |
|---|---|---|---|
| start and accept loop | `main.py` | the configuration, one killer, one listening socket | `main`, `runserver`: a thread for each connection |
| session thread | `socket_handle.py` | `channel`, its `Transport`, the chosen server | `prepare_server`, `prepare_shell_env`, `choose_server`, `_ask_user_to_create_server`, `_create_proxy_process`, `user_using`, `cleanup`, `destroy_server_if_needed` |
| ssh callbacks | `server.py` | `pty_event`, `shell_event`, `master_fd`, `slave_fd`, `proxy_subprocess_pid` | `check_auth_*`, `check_channel_*`, run by paramiko in the thread of the transport |
| killer thread | `server_killer.py` | its snapshot of the records | `patrol`, `check_all_live_servers`, `need_destroy`, `destroy` |
| servers file | `config.py` | the records on disk | `load_local_servers`, `update_local_servers` |
| shared memory | `utils.py` | `active_session`, `active_session_lock`, `available_server_db_lock` | read and written by sessions and killer |
| providers | `provider.py`, `contrib/provider/*.py` | what exists in the cloud, a directory for each server | `create_server`, `destroy_server`, `time_process_action`, names |
| prompts | `utils.py` | the line being read | `choose_option`, `read_user_input_line` |
| ssh keys | `utils.py` | two files | `confirm_ssh_key_pair` and what it calls |
| configuration | `config.py` | a toml file | `LBConfig.load`, `reload`, `to_seconds` |

How they interact: `runserver` starts a session thread for each connection;
paramiko runs a second thread for its transport, which calls back into `Server`
and sets the events the session waits for. Sessions and killer meet in three
places: the servers file (written under a lock, read without one),
`active_session` (written under another lock, read without one by
`need_destroy`), and the provider (no lock). systemd restarts the process after
a crash (`src/readme.md:139`); only the file and the cloud survive.

What is hard here: no lock is held from a decision to the action it leads to;
the killer catches no exception; a client may go at any moment, which shows only
when a message is sent to it or its address is asked for; a provider may raise,
return False, or be repeated; and a crash may fall between the cloud and the
file. `PROJECT.json` lists these hazards at their lines.

What makes each part correct:

- servers file: one writer at a time; no update is lost or undone; a crash is
  the only way to lose more than one record.
- sessions and killer: the list of sessions is true; records and cloud agree but
  for named failures; servers nobody uses are destroyed in the end; the killer dies
  for named reasons only, and unmanaged servers are none of them; threads end.
- billing rule: no further unit of the bill for an idle server; no server
  thrown away while it is paid for.
- handshake: the ssh process has a terminal; a client that asks properly is
  served; a client that has gone is noticed.
- host key: the two files match, all clients see the same key, and a restart
  keeps it.
- providers: two creations never share a name, a workspace or a record; a server is
  not entered by the ssh command of another; a creation ends; a machine that nobody
  records has a reason.
- prompts and pump: no byte is lost or read twice on its way from the user to a
  prompt or to ssh, or back; a selection is what was typed; the exit of ssh is
  noticed.

## The modules

| module | models | EXTENDS / INSTANCE |
|---|---|---|
| `Registry` | abstract: a set of records that changes one record at a time | |
| `ServerDB` | the servers file, its lock, its truncation, crashes | `R == INSTANCE Registry` |
| `ServerDBProofs` | proofs | `ServerDB`, `TLAPS` |
| `ServerLife` | abstract: what may become of a server, from made to gone | |
| `Lobby` | session threads, killer, `active_session`, providers | `ServerDB`, `L == INSTANCE ServerLife` |
| `MCLobby` | Lobby for TLC | `Lobby` |
| `LobbyProofs` | proofs | `Lobby`, `ServerDBProofs` |
| `Billing` | `need_destroy`, the sleep of the killer, the last logout, a clock | |
| `MCBilling`, `BillingProofs` | Billing for TLC, and its proofs | `Billing` |
| `Handshake` | one connection: callbacks against session thread | |
| `MCHandshake`, `HandshakeProofs` | Handshake for TLC, and its proofs | `Handshake` |
| `KeyStore` | the two files of the host key: main, connections, crashes | |
| `MCKeyStore`, `KeyStoreProofs` | KeyStore for TLC, and its proofs | `KeyStore` |
| `ServerNames` | names and workspaces of new servers | |
| `Provision` | `create_server` and `destroy_server` of the seven providers | `ServerNames`, `L == INSTANCE ServerLife` |
| `MCProvision`, `ProvisionProofs` | Provision for TLC, and its proofs | `Provision` |
| `Terminal` | the bytes between user, prompts and ssh | |
| `MCTerminal`, `TerminalProofs` | Terminal for TLC, and its proofs | `Terminal` |
| `PromptProofs` | proofs about what the prompts select | `TerminalProofs` |

`Lobby` is the whole; the others enlarge a part of it. `Provision` stands behind its
`Provision` to `EndRecord`, `Billing` behind its `BillingAnswers`, `ServerDB` is its
servers file, `Handshake` and `Terminal` are what one of its threads does with its
client before and while it is in use. `Lobby` and `Provision` implement the same abstract
specification, `ServerLife`.

**ServerDB.** `servers_db` is what the file decodes to, `db_lock` the holder of
`available_server_db_lock`, `local_servers[a]` the variable of that name of a
thread inside `update_local_servers`. `BeginUpdate` is everything up to
`open(.., "w+")`, which empties the file; `EndUpdate` is the merge and the write;
between them any other thread may load. `metas[a]` is the list a thread has loaded,
from `LoadServers` until `ForgetServers`: until the user has chosen, or the round of
the killer is over. An empty file, a missing file and a cut
JSON array all load as no server, so the file while it is being written has one
content worth telling apart. `DBSpec` implements `Registry` under the mapping
`records`: the file, or, during an update, what the update read before it
truncated. A crash in the middle of an update is the abstract `Wipe`.

**Lobby.** `pc[a]` is the place of a thread between two actions other threads can
observe; one action stands for the code from one such point to the next.
`Connect` to `Cancel` are `choose_server`; `Provision` to `EndRecord` are
`create_server` and `_ask_user_to_create_server`; `Enter` and `Register` are
`_create_proxy_process` before and after `Popen`; `LogOut`, `LogOutRaises` and
`CheckDestroy` are `cleanup` and `destroy_server_if_needed`; `DestroyServer` to
`EndDelete` are `ServerKiller.destroy`, which sessions and killer share;
`KillerLoad`, `KillerCheck` and `KillerSleeps` are the loop of `patrol`. `Raise`
is what an exception does: it ends the killer, and in a session it runs
`cleanup(t)` without the server. `vm` is what exists at the provider; a server
is created once and its name is not used again. `transport` tells an open
connection from one the client broke (`lost`) and one lobbyboy closed: the
`getpeername` of both raises. `need_destroy` answers from `active_session`, the
manage flag and `BillingAnswers`, a set that stands for the rule in `Billing`.
`loose` is a history variable: the servers whose record and machine were put out
of step by a failure the code does not handle. It is added to in three places
of the code only (`BootAbandoned`, `DestroyUnheard`, `DestroyReturnsFalse`) and
by a crash, so that `Tracked` says there is no fourth. `loose` never constrains an
action. `destroy` has a check of `manage` of its own, which raises
(`CallsProvider`, `DestroyMayRaise`): what the one in `need_destroy` protects is not the
unmanaged server but the killer, and `KillerDiesForAReason` says so. `DestroyUnheard` is a
destroy that raises after the server is gone, in a session whose client left or
in either caller when the answer of the API is lost. `life` is the refinement mapping to `ServerLife`: a server is `made` while a thread
creates it, `listed` while it has a record, and `lost` when it runs without either.

**Billing.** One server from its creation, in whole seconds, for settings that may
be `Missing` (not in the file) or `Garbled` (`to_seconds` raises). `NeedDestroy`
has the early returns of the code in their order. `wake` counts down to the
moment the killer next looks: its interval and at most `MaxRound`, the time a
round takes. `Due(end)` says that `end` is the end of a unit that should find the
server destroyed: it was idle, and the killer has come round to it past its
minimum life. `NoExtraUnit` says that it is destroyed if the safe time is longer than a
round, run `no_safe_time` that without a safe time it is not.

**Handshake.** `master_fd` counts ptys: its value is the number of the last one.
`transport = "waiting_pty"` is the thread of the transport inside
`pty_event.wait(timeout=10)`, where it can handle nothing else. `slave_fd` and
`pumped` are the two moments at which the session thread reads the pty. `polite`
is chosen at the start: such a client asks for the pty before the shell and does
not disconnect; the other one does anything. `Authenticate` and `AuthRaises` are the
two outcomes of `check_auth_*` that change something; who is let in is not
modelled, that each attempt reads the configuration anew and may raise is.
`Disconnect` and every exception in a callback end the thread of the transport, and
the session thread learns of it at its next message, address or timeout.

**KeyStore.** A file is `Absent`, empty (`NoKey`) or holds a key: `open(.., "w+")` and
the close that writes are two steps, with other threads and crashes in between.
`Key` bounds how many pairs are generated. `Connect` and `Leave` are sessions that come
and go; `Listening` is the order of `main`, which is all that keeps two writers
apart.

**ServerNames, Provision.** A thread stands for one creation and the server it makes.
`PickName` and `MakeDir` are the test for a directory and its making; a name is
a prefix, a minute (none for vagrant) and a suffix. `Kind` says which class a
provider is; what differs between classes are the cases of `Answers` (the check each
passes to `time_process_action`), `BootAnswers` (`port_is_open`), the steps after the
wait (`CloudPrepares`, `LocalReturns`, `VagrantConfigures`, `VagrantExports`) and the three of
destruction. `Dot`, `Check`, `GiveUp` and `Told` are the loop of `time_process_action`; `tries`
is its `try_times`. A launch (`launch`) and its machine (`machine`) go their own way and
may hang; `returncode` is what the last poll saw. `excused` is a history variable:
creations that met a client who had gone, a failing call, or a crash. It never
constrains an action. Destruction is that of the killer; the record is written in
one step, since `ServerDB` and `Lobby` have the lock. `Enter` is the end of the session that
created the server, `EnterAgain` any later one that picks it from the menu, perhaps after
a restart, when the attribute vagrant keeps its file in (`ssh_config`) is unset.

**Terminal.** `typed` is all the user has typed; a byte goes from `inbox`, the buffer of the
channel, to a prompt (`eaten`, `chars`) or through `chunk` and `pty_in` to ssh (`ssh_got`).
Output goes from `pty_out` to `client_got`. Bytes are kept apart as far as `int()`,
`decode()` and `read_user_input_line` do; signs, underscores and the digits of other
scripts, which `int()` takes too, are left out. `attempt` is the depth of the calls of
`choose_option`, which `SelectionsAreRead` never mentions: it reads `eaten` as lines
(`LinePlaces`, `LineEndingAt`) and says which line is the first answer to which menu
(`FirstAnswer`). What a line may answer (`AnswersWith`) and what it must (`MustAnswer`) differ
for an empty line after a wrong answer: `choose_option` calls itself with the prompt,
which offers the default, but without the default (`utils.py:191`), and the property sides
with neither. `Poll`, `CopyOutput`, `ReceiveInput`, `Write` and `NothingToDo` are one turn of
`user_using`. `Write` waits at a full pty, also when ssh is gone: the slave end stays open
in the process itself. A client that goes is `Handshake`'s business.

## The runs

Runs that pass:

| run | question | size |
|---|---|---|
| `faults` | with every fault the model has: are lists, records and servers in step, is a server in use ever condemned, does the killer meet what it destroyed, is the file the registry, and has each server the life it should? | 543 thousand states |
| `reclaim` | with fair threads: of what does the killer die, are managed servers destroyed as long as it lives, and do threads end in any case? | 27 thousand |
| `billing` | for 686 settings: is a server destroyed too late or too early? | 415 thousand |
| `handshake` | whatever the order of the requests: is there a terminal, is a polite client served, is a lost one noticed? | 583 |
| `keystore` | two connections at a time and two crashes: do the files match, and is the key kept? | 261 |
| `provision` | two creations with any of five kinds of provider: what do they share, when do they end, what is left behind? | 1.59 million |
| `terminal` | every four bytes of eight kinds: are they read once, understood, and delivered? | 351 thousand |

Runs that find a violation of what the repository says (each is a finding in
`PROJECT.json`):

| run | what TLC shows |
|---|---|
| `idle` | a session enters a server between the check and the destroy |
| `killer_dies` | the second of two destroys raises and ends the killer; the other server runs for ever |
| `no_safe_time` | with the settings of three sections of the sample configuration, an idle server past its minimum life (the first unit) is kept by line 85 at every look of the second unit and enters the third |
| `eof` | a prompt reads for ever from a client that left |
| `vagrant` | an unused box is never destroyed: its output is decoded twice, and the killer dies |

Four more disagreements have no run of their own, because a property of a
passing run draws the line they cross: the menu may say "There is no available
servers" while the file is being rewritten (`socket_handle.py:76`;
`ImplementsRegistry` holds in spite of such loads because only `records`, not
what a reader sees, is the abstract set); a server whose creator lost its client has no
record (`socket_handle.py:99`; `Tracked` names it in `loose`, `AbandonedForAReason` its
reason); a client that never asks for a shell is not told so, but waited for
(`socket_handle.py:161`; the last disjunct of `LostClientNoticed`); and the prompt
"Please choose a provider to create a new server [default: ...]: " (`socket_handle.py:63`)
is shown again after a wrong answer, when the default it offers is no longer taken
(`utils.py:191`; `MustAnswer` leaves an empty line open there).

**Bounds.** Two connections and the killer: every race above is between at most
two threads that act and one that watches, and `SessionsListed`, `LeakNeedsDrop`
and `Tracked` are also proved for any number. Two servers that can be created
(`faults`) let one thread deal with one while the other deals with the other; in
`reclaim` there is one server of each kind, since the killer loop treats them
one by one. A thread
serves one connection, as in the code; two threads are two connections. One
crash: a second adds nothing a first one does not, for memory is lost
altogether. Starting files are any set of servers. `MaxAge = 12` covers more than
two units of the longest setting (5) with intervals 1 and 2 and rounds of at most
1. Two channels and two ptys are the least that lets a pty be replaced. In `keystore` a
second crash tears what the first restart repaired, and four keys are one more than
two crashes and a main can use before the file is complete. In `provision` the two
creations may be of one provider, of two that share a prefix, or of any others;
there are two names to a minute, one of them taken, so that names run out; two
checks let a wait be answered at once, later or never. `footloose` takes the steps of
`ignite`, and `vultr` those of `digitalocean` with the failing checks of `linode`, so that five of
the seven are run; the proofs are about all. In `terminal` four bytes are a wrong answer, a
right one and what follows; a fifth takes the run beyond five minutes. A pty of
one byte and reads of two make a write that waits and a read that takes all.
`SYMMETRY` is used in `faults`, `keystore` and `provision`, which check no liveness and give
no server, connection, key or creation a role of its own.

`CHECK_DEADLOCK FALSE`: the model stops where the system may. All connections
may be over and the killer dead; the age of a server is bounded; a connection
ends.

**Fairness.** `Lobby!FairSpec` is weak fairness of the killer and of each session
thread: the process lives, the threads are scheduled, a call of a provider
returns or raises, users answer the menu and end their session. Nothing is
assumed of new connections, of broken ones or of crashes; `reclaim` has none of
the latter two, since with a broken connection the list of sessions can keep a
dead entry (hazard at `socket_handle.py:235`) and the server is then kept for
ever. `Reclaimed` makes an exception for a dead killer, because the code does
nothing to prevent it: run `killer_dies` shows that without the exception it
fails. `Handshake!FairSpec` is weak fairness of the session thread and of the end of
the ten second wait; clients and the ssh process are not fair. A lost client
whose prompt is being read enables no step: this is the loop of
`read_user_input_line`, which changes nothing. `PumpRaises`, which needs output of ssh, is
not fair. `Terminal!FairSpec` is weak fairness of the session thread alone: neither
the user nor ssh has to do anything; `MaxPrinted` stands for an output that ends,
without which `TypedArrives` fails, because output goes first. `Provision!FairSpec` is
weak fairness of creations and destructions, not of machines and launches; only
run `vagrant` uses it. That creations end is an action property there, with a
measure that each step decreases, and is proved.

## The proofs

All theorems are proved by TLAPS for any servers, threads, channels, settings
and bounds, from the named assumptions on the constants (`NoOne` is no actor,
`NoServer` no server, bounds are naturals, kinds of servers are servers, an
interval is at least one second).

- `ServerDBProofs`. Inductive invariant `DBInv`: types and `OneWriter`. `OneWriter` is
  what the refinement needs: it makes `records` of a held lock the copy the
  writer will merge into. `DBNextRefines` has one step for each operation.
- `LobbyProofs`. `BasicInv` adds to the types that a thread in certain places has a
  server (`HasServer`) and that a thread that is over has no open transport
  (`OverIsNotOpen`); the second is why a list with a dead entry cannot be emptied,
  and why `LeakNeedsDrop` is inductive. `FileSteps` says what each step does to the
  file; with it `LobbyImplementsServerDB` is a short proof, and with
  `FileImplementsRegistry` the composed system implements the registry.
  `LobbyImplementsServerLife` needs of a step only what `ServersMoveOn` says of the machine
  and its creator, and `NewRecordWasCreated`: a record is new only while its server is
  being created.
  `Tracked` is not inductive: a thread could be creating a server another one
  has in its menu. `TrackInv` excludes it: a server that does not exist is known
  to nobody, one that is being created to its creator only, the lock is held
  exactly where a record is written, and a record being deleted is that of a
  server that is gone or loose. It also says who holds the lock, and with it
  `LockIsGivenBack`, the part of `SessionsEnd` that is about one state.
  `InUseKept` is what remains true where `DestroyOnlyIdle` fails (run `idle`): a server can be
  destroyed under a user who came after the decision, never by a decision taken
  while the user was listed. `CondemnedWhenIdle` shows that only the two callers of
  `need_destroy` condemn a server, on an empty list, and `SessionsListed` that the
  list of a server in use is not empty.
  `KillerNotTwice` is not inductive: the killer works through a list that is older
  than what it destroys. `RoundInv` adds that a server of the list it has not come to
  is gone only if a session or a failure answers for it (`Answered`), and that the
  one it destroys has been ticked off. This is why the merge of an update has to
  drop the deleted record before the next round loads the file. `RoundInv` also says
  that what the killer goes to destroy is managed, and `KillerDiesForAReason` follows: in
  `destroy` only a call that fails is left to end it.
- `BillingProofs`. `NoExtraUnit` is not inductive: it says nothing of a server that
  waits in its safe time. `LookedAtInTime` adds that the killer looks again before
  the unit ends. After a patrol or a logout that keeps the server this is `EndIsFar`: the
  server is young, and a round is left after its minimum life, or it is not in the
  safe time, which is longer than a round. The facts about remainders are lemmas of
  their own.
- `HandshakeProofs`. The invariant follows the chain from one thread to the other:
  pty, `pty_event`, shell, `shell_event`, session, process.
- `KeyStoreProofs`. While main is not ready it is alone, and once it is ready both files
  exist, so that nobody writes; a file in the making holds nothing or the key
  of its one writer.
- `ProvisionProofs`. `ProvisionInv` says for each place what a creation has by then
  (`Equipped`): a name, a directory that was there before anybody else of its provider
  could take it, the number of checks, `server.json`, a launch that was seen. The
  five invariants follow from it, `CreationEnds` from the measure `Left`, which each step of
  a thread decreases, and `LifeMovesOn` gives the refinement.
- `TerminalProofs`. `EveryByteOnce` is nearly inductive: it needs that `chunk` is empty
  except while it is written and that ssh gets nothing before it runs. `LastLook` needs
  that between a poll and the read after it output only grows. `ExitApproaches` needs that
  a chunk holds no more than one read (`ChunkFits`), which makes `StepsLeft` a measure;
  `WriteTakesSome` is why a write that goes on has written something.
- `PromptProofs`. The code reads bytes one at a time into a list and its menus live in the
  frames of its own calls; `SelectionsAreRead` reads the same bytes as lines, all at once.
  `LineStays`, `LineGrows` and `LineOver` say what one more byte does to the lines, and `PromptInv`
  ties the two together: `chars` is the unfinished line, the open menu has no answer
  yet, and `attempt` is 1 exactly while no line has been read since it opened, which is
  when an empty line means the only provider. `SelectedAnswers` says that `choose_option`
  selects only what the line may answer, and whatever it must. What a number is (`Numbers`) stays closed in
  these proofs, but for the empty line: they hold for any reading of the digits.
  A line is a function on its places, not a recursion over bytes; that its n-th
  place exists (`NthIs`) is proved by counting, from the theorems on finite sets.

TLC found each of these invariants true on the runs above before it was proved.

Only model-checked: `Reclaimed`, `SessionsEnd`, `Served`, `LostClientNoticed`, `ExitNoticed` and
`TypedArrives`, which are liveness under fairness and out of the reach of the
prover. Of two of them the part that needs no fairness is proved: `LockIsGivenBack` for
`SessionsEnd`, and `ExitApproaches` for `ExitNoticed`. Every other property of a passing run is
also a theorem; `OneWriter`, `LockIsGivenBack` and `ExitApproaches` are theorems
that no run repeats (without the lock `Tracked`, `NoResurrection` and `ImplementsRegistry` fail
too). The five findings are counterexamples.

## Not modelled

Who is authenticated; the parsing of toml and of authorized keys; the import of
provider classes; the text of messages; the remote APIs beyond the answers their
callers see; the listening socket. Window size is left out: no decision depends
on it. `Popen` failing for want of a shell or of file descriptors is not modelled,
nor is the pipe of a vagrant process. The menus the cloud providers show
for region, size and image are more calls of `choose_option`, before anything
exists, and are left out of `Terminal` and `Provision`. The key pair of a workspace is made by the
operations of `KeyStore`, by one thread in a directory of its own.

Two lines that may raise are left out, since what they lead to is in the model from
other lines: the welcome of `socket_handle.py:252`, which raises for a client that has
just gone (`Handshake!Accept` goes on, and its next message raises), and
`LBServerMeta(**i)` at `config.py:179`, which raises on a record with a field this version
does not know (`ServerDB` only has records that `update_local_servers` has written).

## Plan

1. Done: `Registry`, `ServerDB`, `Lobby`, `Billing`, `Handshake`, `KeyStore`, `ServerNames`, `Provision`,
   `Terminal`, `ServerLife`, with runs and proofs.
2. Done: every invariant and action property of the runs is a theorem.
3. The steps of `Provision` as steps of `Lobby`: the same creation with its places mapped to
   `booting`, `record` and `enter`.
4. Measures like `StepsLeft` for `Served` and `LostClientNoticed`, so that of every liveness property
   only the step to "eventually" is left to TLC.
