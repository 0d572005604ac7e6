------------------------------ MODULE Terminal ------------------------------
(***************************************************************************)
(* What the user types and sees, from the first prompt to the end of ssh:  *)
(* choose_option and read_user_input_line (utils.py), which read the       *)
(* channel byte by byte, and user_using (socket_handle.py), which then     *)
(* copies between the same channel and the pty of the ssh process.  The    *)
(* user may type ahead, while a server is created for instance.            *)
(***************************************************************************)
EXTENDS Integers, SequencesExt

CONSTANTS
    MaxServers,   \* at most so many servers are in the menu
    MaxProviders, \* and so many providers
    Keys,         \* bound: the bytes the user knows
    MaxTyped,     \* bound: how many bytes the user types
    MaxPrinted,   \* bound: how many bytes the ssh process prints
    MaxAttempts,  \* how deep choose_option may call itself: Python's limit
    Chunk,        \* what user_using reads at once: 10240 in the code
    PtySize       \* what a pty holds in each direction

\* The bytes, as far as they differ: int() strips blanks and refuses other
\* characters, decode() refuses a line with bytes that are no UTF-8.
DigitValue == [zero |-> 0, one |-> 1, two |-> 2, three |-> 3, four |-> 4,
               five |-> 5, six |-> 6, seven |-> 7, eight |-> 8, nine |-> 9]
Digit == DOMAIN DigitValue
Key == Digit \cup {"blank", "other", "no_utf8", "enter", "rubout", "cancel"}

ASSUME TerminalAssumption ==
    /\ MaxServers \in Nat /\ MaxProviders \in Nat
    /\ MaxTyped \in Nat /\ MaxPrinted \in Nat
    /\ "other" \in Keys /\ Keys \subseteq Key
    /\ MaxAttempts \in Nat \ {0} /\ Chunk \in Nat \ {0} /\ PtySize \in Nat \ {0}

VARIABLES
    servers,    \* how many servers there are
    providers,  \* how many providers there are
    place,      \* what the session thread does
    prompt,     \* which menu is open: "servers" or "providers"
    attempt,    \* how often it was shown
    chars,      \* the line read so far
    answers,    \* what was selected
    typed,      \* history: all the user has typed
    eaten,      \* history: what the prompts have read of it
    inbox,      \* what the channel holds
    chunk,      \* what user_using has received and not written yet
    pty_in,     \* what the pty holds for ssh
    ssh_got,    \* history: what ssh has read
    ssh,        \* the process: "none", "running" or "exited"
    printed,    \* how much ssh has printed: 1, 2, ...
    pty_out,    \* what the pty holds for the user
    client_got, \* history: what the user was sent
    seen        \* history: printed, when poll last found ssh running

menuVars == <<servers, providers>>
promptVars == <<prompt, attempt, chars, answers, eaten>>
inputVars == <<inbox, chunk, pty_in, ssh_got>>
outputVars == <<ssh, printed, pty_out, client_got, seen>>
vars == <<menuVars, place, promptVars, typed, inputVars, outputVars>>

Places == {"asking", "creating", "polling", "selecting", "writing", "over"}

-----------------------------------------------------------------------------

\* The session asks for the provider, if there is any.
AskProviders == IF providers = 0 THEN "over" ELSE "asking"

Init ==
    /\ servers \in 0..MaxServers
    /\ providers \in 0..MaxProviders
    /\ place = IF servers = 0 THEN AskProviders ELSE "asking"
    /\ prompt = IF servers = 0 THEN "providers" ELSE "servers"
    /\ attempt = 1
    /\ answers = <<>>
    /\ chars = <<>> /\ eaten = <<>>
    /\ typed = <<>> /\ inbox = <<>> /\ chunk = <<>> /\ pty_in = <<>> /\ ssh_got = <<>>
    /\ ssh = "none"
    /\ printed = 0 /\ seen = 0
    /\ pty_out = <<>> /\ client_got = <<>>

\* ssh makes no difference between the bytes.
Type(k) ==
    /\ place # "over"
    /\ ssh # "none" => k = "other"
    /\ Len(typed) < MaxTyped
    /\ typed' = Append(typed, k)
    /\ inbox' = Append(inbox, k)
    /\ UNCHANGED <<menuVars, place, promptVars, chunk, pty_in, ssh_got, outputVars>>

-----------------------------------------------------------------------------
(* The prompts.                                                            *)

\* How many options the menu has: the servers come after "Create a new server".
Options == IF prompt = "servers" THEN servers + 1 ELSE providers

\* "if default" for "if default is not None": the default is 0, which is false.
DefaultIfTrue == FALSE

\* The only provider is the default, but not after a wrong answer.
HasDefault == prompt = "providers" /\ providers = 1 /\ attempt = 1

\* What int() makes of a line: no value, or one.
IsNumber(line) ==
    LET D == {i \in DOMAIN line : line[i] \in Digit}
    IN /\ D # {}
       /\ \A i, j \in D : \A k \in i..j : k \in D
       /\ \A i \in DOMAIN line \ D : line[i] = "blank"
ValueOf(line) ==
    FoldLeft(LAMBDA v, d : 10 * v + DigitValue[d], 0,
             SelectSeq(line, LAMBDA k : k \in Digit))
Numbers(line) == IF IsNumber(line) THEN {ValueOf(line)} ELSE {}

\* The options a line may select: one at most.
Selected(line) ==
    (IF line = <<>> /\ HasDefault THEN {0} ELSE Numbers(line)) \cap 0..(Options - 1)

Take(k) ==
    /\ place = "asking"
    /\ inbox # <<>>
    /\ Head(inbox) = k
    /\ inbox' = Tail(inbox)
    /\ eaten' = Append(eaten, k)
    /\ UNCHANGED <<menuVars, typed, chunk, pty_in, ssh_got, outputVars>>

\* Rubout is a byte like the others.
KeepAll(line, k) == Append(line, k)

\* Rubout takes the last byte from the screen, but not from the line.
Keep(line, k) == IF k = "rubout" THEN line ELSE Append(line, k)

ReadByte(k) ==
    /\ k \notin {"enter", "cancel"}
    /\ Take(k)
    /\ chars' = Keep(chars, k)
    /\ UNCHANGED <<place, prompt, attempt, answers>>

\* UserCancelException
Cancel ==
    /\ Take("cancel")
    /\ place' = "over"
    /\ UNCHANGED <<prompt, attempt, chars, answers>>

Readable == \A i \in DOMAIN chars : chars[i] # "no_utf8"

\* UnicodeDecodeError, which choose_option does not catch.
NotDecoded ==
    /\ ~Readable
    /\ Take("enter")
    /\ place' = "over"
    /\ UNCHANGED <<prompt, attempt, chars, answers>>

Select(n) ==
    /\ Readable
    /\ n \in Selected(chars)
    /\ Take("enter")
    /\ answers' = Append(answers, n)
    /\ chars' = <<>>
    /\ IF prompt = "servers" /\ n = 0
       THEN prompt' = "providers" /\ attempt' = 1 /\ place' = AskProviders
       ELSE place' = "creating" /\ UNCHANGED <<prompt, attempt>>

\* "unknown choice, please choose again", as deep as Python allows.
ChooseAgain ==
    /\ Readable
    /\ Selected(chars) = {}
    /\ Take("enter")
    /\ chars' = <<>>
    /\ IF attempt < MaxAttempts
       THEN attempt' = attempt + 1 /\ UNCHANGED place
       ELSE place' = "over" /\ UNCHANGED attempt
    /\ UNCHANGED <<prompt, answers>>

\* The server is made if need be, see Provision, and ssh is started.
StartProxy ==
    /\ place = "creating"
    /\ place' = "polling"
    /\ ssh' = "running"
    /\ UNCHANGED <<menuVars, promptVars, typed, inputVars, printed, pty_out,
                   client_got, seen>>

\* create_server or ssh_server_command raises.
NoServer ==
    /\ place = "creating"
    /\ place' = "over"
    /\ UNCHANGED <<menuVars, promptVars, typed, inputVars, outputVars>>

-----------------------------------------------------------------------------
(* user_using.                                                             *)

\* The end of ssh would show as the end of its output, but it does not: the
\* slave end of the pty stays open in this process.
PollForgotten ==
    /\ place = "polling"
    /\ place' = "selecting" /\ seen' = printed
    /\ UNCHANGED <<menuVars, promptVars, typed, inputVars, ssh, printed, pty_out,
                   client_got>>

Poll ==
    /\ place = "polling"
    /\ IF ssh = "running"
       THEN place' = "selecting" /\ seen' = printed
       ELSE place' = "over" /\ UNCHANGED seen
    /\ UNCHANGED <<menuVars, promptVars, typed, inputVars, ssh, printed, pty_out,
                   client_got>>

\* The first n bytes, and the rest.
FirstOf(s, n) == SubSeq(s, 1, n)
RestOf(s, n) == SubSeq(s, n + 1, Len(s))
Least(a, b) == IF a < b THEN a ELSE b

\* os.read, and the message to the client.
CopyOutput ==
    /\ place = "selecting"
    /\ pty_out # <<>>
    /\ LET n == Least(Chunk, Len(pty_out))
       IN /\ client_got' = client_got \o FirstOf(pty_out, n)
          /\ pty_out' = RestOf(pty_out, n)
    /\ place' = "polling"
    /\ UNCHANGED <<menuVars, promptVars, typed, inputVars, ssh, printed, seen>>

\* The channel is not in the list for select.
ReceiveForgotten == FALSE /\ UNCHANGED vars

\* Input is looked at whether or not there is output.
ReceiveAnyway ==
    /\ place = "selecting"
    /\ inbox # <<>>
    /\ LET n == Least(Chunk, Len(inbox))
       IN /\ chunk' = FirstOf(inbox, n)
          /\ inbox' = RestOf(inbox, n)
    /\ place' = "writing"
    /\ UNCHANGED <<menuVars, promptVars, typed, pty_in, ssh_got, outputVars>>

\* Input is looked at only if there is no output.
ReceiveInput ==
    /\ place = "selecting"
    /\ pty_out = <<>>
    /\ inbox # <<>>
    /\ LET n == Least(Chunk, Len(inbox))
       IN /\ chunk' = FirstOf(inbox, n)
          /\ inbox' = RestOf(inbox, n)
    /\ place' = "writing"
    /\ UNCHANGED <<menuVars, promptVars, typed, pty_in, ssh_got, outputVars>>

\* select gives up after a tenth of a second.
NothingToDo ==
    /\ place = "selecting"
    /\ pty_out = <<>> /\ inbox = <<>>
    /\ place' = "polling"
    /\ UNCHANGED <<menuVars, promptVars, typed, inputVars, outputVars>>

\* What a write takes that does not wait is all that is written.
WriteSome ==
    /\ place = "writing"
    /\ LET n == Least(PtySize - Len(pty_in), Len(chunk))
       IN pty_in' = pty_in \o FirstOf(chunk, n)
    /\ chunk' = <<>>
    /\ place' = "polling"
    /\ UNCHANGED <<menuVars, promptVars, typed, inbox, ssh_got, outputVars>>

\* os.write: it waits until the pty has taken all.  The slave end is open in
\* this process too, so that it waits even when ssh has gone.
Write ==
    /\ place = "writing"
    /\ Len(pty_in) < PtySize
    /\ LET n == Least(PtySize - Len(pty_in), Len(chunk))
       IN /\ pty_in' = pty_in \o FirstOf(chunk, n)
          /\ chunk' = RestOf(chunk, n)
          /\ place' = IF n = Len(chunk) THEN "polling" ELSE "writing"
    /\ UNCHANGED <<menuVars, promptVars, typed, inbox, ssh_got, outputVars>>

-----------------------------------------------------------------------------
(* The ssh process: it reads, prints and exits when it likes.              *)

SshReads ==
    /\ ssh = "running"
    /\ pty_in # <<>>
    /\ ssh_got' = ssh_got \o pty_in
    /\ pty_in' = <<>>
    /\ UNCHANGED <<menuVars, place, promptVars, typed, inbox, chunk, outputVars>>

SshPrints ==
    /\ ssh = "running"
    /\ printed < MaxPrinted
    /\ Len(pty_out) < PtySize
    /\ printed' = printed + 1
    /\ pty_out' = Append(pty_out, printed + 1)
    /\ UNCHANGED <<menuVars, place, promptVars, typed, inputVars, ssh, client_got, seen>>

SshExits ==
    /\ ssh = "running"
    /\ ssh' = "exited"
    /\ UNCHANGED <<menuVars, place, promptVars, typed, inputVars, printed, pty_out,
                   client_got, seen>>

-----------------------------------------------------------------------------

SessionStep ==
    \/ \E k \in Key : ReadByte(k)
    \/ Cancel
    \/ NotDecoded
    \/ \E n \in 0..(MaxServers + MaxProviders) : Select(n)
    \/ ChooseAgain
    \/ StartProxy
    \/ NoServer
    \/ Poll
    \/ CopyOutput
    \/ ReceiveInput
    \/ NothingToDo
    \/ Write

User == \E k \in Keys : Type(k)

Next == User \/ SessionStep \/ SshReads \/ SshPrints \/ SshExits

Spec == Init /\ [][Next]_vars

\* The session thread is scheduled.  Nothing is assumed of the user or of ssh.
FairSpec == Spec /\ WF_vars(SessionStep)

-----------------------------------------------------------------------------

TypeOK ==
    /\ servers \in 0..MaxServers
    /\ providers \in 0..MaxProviders
    /\ place \in Places
    /\ prompt \in {"servers", "providers"}
    /\ attempt \in 1..MaxAttempts
    /\ chars \in Seq(Key \ {"enter", "cancel", "rubout"})
    /\ answers \in Seq(Nat)
    /\ typed \in Seq(Key) /\ eaten \in Seq(Key) /\ inbox \in Seq(Key)
    /\ chunk \in Seq(Key) /\ pty_in \in Seq(Key) /\ ssh_got \in Seq(Key)
    /\ Len(pty_in) <= PtySize
    /\ ssh \in {"none", "running", "exited"}
    /\ printed \in 0..MaxPrinted /\ seen \in 0..printed
    /\ pty_out \in Seq(1..MaxPrinted) /\ client_got \in Seq(1..MaxPrinted)
    /\ Len(pty_out) <= PtySize

\* Every byte the user types is read once and in order, by a prompt or by ssh,
\* or it is still on its way: none is lost or doubled where the prompts end and
\* ssh begins, nor by a write to a pty that is full.  The same holds for what ssh
\* prints, but for what is in the pty at the end.  It is about the reads byte by
\* byte of read_user_input_line, and the reads and writes of user_using.
EveryByteOnce ==
    /\ typed = eaten \o ssh_got \o pty_in \o chunk \o inbox
    /\ client_got \o pty_out = [i \in 1..printed |-> i]

\* user_using stops as soon as poll sees the exit, and what is in the pty by
\* then is lost.  But one read at least follows every poll that found ssh
\* running: what had been printed by then is lost only if it was more than that
\* read can take.
LastLook ==
    place = "over" /\ ssh = "exited" /\ PtySize <= Chunk => Len(client_got) >= seen

\* The places of "enter" among the bytes s.
Enters(s) == {i \in DOMAIN s : s[i] = "enter"}

\* The places of the line that ends before the place e: those since the last
\* "enter", without the rubouts.
LinePlaces(s, e) ==
    {i \in 1..(e - 1) : s[i] # "rubout" /\ \A j \in i..(e - 1) : s[j] # "enter"}

\* The n-th of a set of places.
Rank(P, i) == Cardinality({j \in P : j <= i})
Nth(P, n) == CHOOSE i \in P : Rank(P, i) = n

\* The bytes at these places, in their order.
LineEndingAt(s, e) ==
    LET P == LinePlaces(s, e)
    IN [n \in 1..Cardinality(P) |-> s[Nth(P, n)]]

\* A menu that opens after the place since.
ServersMenu == [since |-> 0, options |-> servers + 1, default |-> FALSE]
ProvidersMenu(e) == [since |-> e, options |-> providers, default |-> providers = 1]

\* Whether the line ending at i can be taken for the answer v to the menu m: it
\* is this number, or it is empty and the prompt shows a default.
AnswersWith(s, m, i, v) ==
    /\ v < m.options
    /\ \/ v \in Numbers(LineEndingAt(s, i))
       \/ v = 0 /\ LineEndingAt(s, i) = <<>> /\ m.default

\* Whether it has to be: a number, and an empty first line.  The prompt shows the
\* default every time, but the code passes it on to the first call only: what an
\* empty line means after a wrong answer is left open.
MustAnswer(s, m, i, v) ==
    /\ AnswersWith(s, m, i, v)
    /\ \/ LineEndingAt(s, i) # <<>>
       \/ \A j \in Enters(s) : j > m.since => i <= j

\* No line since the menu m opened, and before the place e, has to answer it.
Unanswered(s, m, e) ==
    \A i \in Enters(s) : m.since < i /\ i < e =>
        \A v \in 0..(m.options - 1) : ~MustAnswer(s, m, i, v)

\* The lines that answer the menu m with v, and come before any other has to.
FirstAnswer(s, m, v) ==
    {i \in Enters(s) : i > m.since /\ AnswersWith(s, m, i, v) /\ Unanswered(s, m, i)}

\* The menu is open: no line so far was an answer.
Open(m) == place = "asking" => Unanswered(eaten, m, Len(eaten) + 1)

\* What is selected is what the lines say, read as a whole: the first line that
\* is a number of the first menu answers it, and the next one that is a number
\* of the second menu answers that; an empty line stands for the only provider,
\* surely if it is the first one after that menu was shown; no menu stays open
\* after such a line, and nothing is read after the last answer.  It is about the
\* state choose_option keeps in the frames of its own calls, and
\* read_user_input_line in its list of characters, which "do not support del",
\* as utils.py:195 says of a rubout: what it took from the screen is in the line.
SelectionsAreRead ==
    \/ answers = <<>> /\ Open(IF servers = 0 THEN ProvidersMenu(0) ELSE ServersMenu)
    \/ /\ servers = 0 /\ Len(answers) = 1
       /\ Len(eaten) \in FirstAnswer(eaten, ProvidersMenu(0), answers[1])
    \/ /\ servers > 0 /\ Len(answers) = 1
       /\ place = "asking" => answers[1] = 0
       /\ \E e \in FirstAnswer(eaten, ServersMenu, answers[1]) : Open(ProvidersMenu(e))
    \/ /\ servers > 0 /\ Len(answers) = 2 /\ answers[1] = 0
       /\ \E e \in FirstAnswer(eaten, ServersMenu, 0) :
            Len(eaten) \in FirstAnswer(eaten, ProvidersMenu(e), answers[2])

\* When ssh has exited the session leaves user_using, unless it waits in a write
\* to a pty that nobody reads any more.  Once ssh prints no more, it does so
\* without help from the user or the network.
ExitNoticed ==
    ssh = "exited" ~> \/ place = "over"
                      \/ place = "writing" /\ Len(pty_in) = PtySize

\* What the user types reaches the prompt or the pty, although output goes
\* first, unless the session ends, a server is being made, or the pty is full.
\* It needs ssh to stop printing some day: MaxPrinted stands for that.
TypedArrives ==
    inbox # <<>> ~> \/ inbox = <<>> \/ place = "over"
                    \/ place = "writing" /\ Len(pty_in) = PtySize
=============================================================================
