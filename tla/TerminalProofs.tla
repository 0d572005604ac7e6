--------------------------- MODULE TerminalProofs ---------------------------
(***************************************************************************)
(* Proofs about one session's terminal, for menus, bytes, chunks and ptys  *)
(* of any size: no byte is lost or doubled in either direction, and the    *)
(* last look at the output of ssh.  The invariant adds to the properties   *)
(* where the stations between the user and ssh are empty.                  *)
(***************************************************************************)
EXTENDS Terminal, SequenceTheorems, TLAPS

\* The stations between the prompts and ssh, while there is no ssh and while
\* nothing is being written.
StationsEmpty ==
    /\ place \in {"asking", "creating"} => ssh = "none"
    /\ ssh = "none" => ssh_got = <<>> /\ pty_in = <<>> /\ chunk = <<>> /\ seen = 0
    /\ place \in {"polling", "selecting"} => chunk = <<>>
    /\ place \in {"polling", "selecting", "writing"} => ssh # "none"

\* Whatever the last poll could see has been sent, but for the time between the
\* poll and the read.
Looked ==
    /\ Len(client_got) + Len(pty_out) = printed
    /\ place # "selecting" /\ PtySize <= Chunk => Len(client_got) >= seen

TermInv == TypeOK /\ StationsEmpty /\ EveryByteOnce /\ Looked

-----------------------------------------------------------------------------

\* A sequence is its first n elements and the rest.
LEMMA Split ==
    ASSUME NEW S, NEW s \in Seq(S), NEW n \in 0..Len(s)
    PROVE  /\ FirstOf(s, n) \in Seq(S) /\ Len(FirstOf(s, n)) = n
           /\ RestOf(s, n) \in Seq(S) /\ Len(RestOf(s, n)) = Len(s) - n
           /\ s = FirstOf(s, n) \o RestOf(s, n)
<1>1. Len(s) \in Nat /\ \A i \in 1..Len(s) : s[i] \in S
    BY LenProperties, ElementOfSeq
<1>2. FirstOf(s, n) \in Seq(S) /\ Len(FirstOf(s, n)) = n
    BY <1>1, SubSeqProperties, Z3 DEF FirstOf
<1>3. RestOf(s, n) \in Seq(S) /\ Len(RestOf(s, n)) = Len(s) - n
    BY <1>1, SubSeqProperties, Z3 DEF RestOf
<1>4. SubSeq(s, 1, n) \o SubSeq(s, n + 1, Len(s)) = SubSeq(s, 1, Len(s))
    <2>1. 1 \in 1..(Len(s) + 1) /\ n \in (1 - 1)..Len(s) /\ Len(s) \in n..Len(s)
        BY <1>1
    <2> QED BY <2>1, ConcatAdjacentSubSeq
<1>5. SubSeq(s, 1, Len(s)) = s
    BY SubSeqFull
<1> QED BY <1>2, <1>3, <1>4, <1>5 DEF FirstOf, RestOf

\* The least of two numbers is one of them, and no larger than either.
LEMMA LeastIs ==
    ASSUME NEW a \in Nat, NEW b \in Nat
    PROVE  Least(a, b) \in 0..a /\ Least(a, b) \in 0..b
BY DEF Least

\* A byte taken from the front of one sequence and put at the end of another.
LEMMA HeadMoves ==
    ASSUME NEW S, NEW a \in Seq(S), NEW s \in Seq(S), s # <<>>
    PROVE  a \o s = Append(a, Head(s)) \o Tail(s)
<1>1. Head(s) \in S /\ Tail(s) \in Seq(S) /\ <<Head(s)>> \in Seq(S)
    BY HeadTailProperties
<1>2. s = <<Head(s)>> \o Tail(s)
    OBVIOUS
<1>3. Append(a, Head(s)) = a \o <<Head(s)>>
    BY <1>1, AppendIsConcat
<1>4. (a \o <<Head(s)>>) \o Tail(s) = a \o (<<Head(s)>> \o Tail(s))
    BY <1>1, ConcatAssociative
<1> QED BY <1>2, <1>3, <1>4

\* The keys that mean something to the prompts are keys.
LEMMA KeyNames == {"enter", "rubout", "cancel", "no_utf8"} \subseteq Key
BY DEF Key

\* The invariant holds when the first menu is about to be shown.
LEMMA InitTermInv == Init => TermInv
<1> SUFFICES ASSUME Init PROVE TermInv
    OBVIOUS
<1> USE TerminalAssumption DEF Init
<1>1. TypeOK
    BY DEF TypeOK, Places, AskProviders
<1>2. <<>> \o <<>> = <<>> /\ Len(<<>>) = 0
    OBVIOUS
<1>3. [i \in 1..0 |-> i] = <<>>
    OBVIOUS
<1>4. StationsEmpty /\ Looked
    BY <1>2 DEF StationsEmpty, Looked, AskProviders
<1> QED BY <1>1, <1>2, <1>3, <1>4 DEF TermInv, EveryByteOnce

\* Every step keeps the types.
LEMMA NextTypeOK == TermInv /\ [Next]_vars => TypeOK'
<1> SUFFICES ASSUME TermInv, [Next]_vars PROVE TypeOK'
    OBVIOUS
<1> USE TerminalAssumption, KeyNames
       DEF TermInv, TypeOK, Places, vars, menuVars, promptVars, inputVars, outputVars
<1>1. CASE UNCHANGED vars
    BY <1>1
<1>2. ASSUME NEW k \in Keys, Type(k) PROVE TypeOK'
    BY <1>2 DEF Type
<1>3. ASSUME NEW k \in Key, ReadByte(k) PROVE TypeOK'
    BY <1>3 DEF ReadByte, Take, Keep
<1>4. CASE Cancel
    BY <1>4 DEF Cancel, Take
<1>5. CASE NotDecoded
    BY <1>5 DEF NotDecoded, Take
<1>6. ASSUME NEW n \in 0..(MaxServers + MaxProviders), Select(n) PROVE TypeOK'
    <2>1. n \in Nat /\ answers \in Seq(Nat)
        OBVIOUS
    <2>2. answers' \in Seq(Nat)
        BY <1>6, <2>1, AppendProperties DEF Select
    <2>3. inbox' \in Seq(Key) /\ eaten' \in Seq(Key)
        BY <1>6 DEF Select, Take
    <2>4. place' \in Places /\ prompt' \in {"servers", "providers"}
         /\ attempt' \in 1..MaxAttempts
        BY <1>6 DEF Select, AskProviders
    <2> QED BY <1>6, <2>2, <2>3, <2>4 DEF Select, Take
<1>7. CASE ChooseAgain
    BY <1>7 DEF ChooseAgain, Take
<1>8. CASE StartProxy
    BY <1>8 DEF StartProxy
<1>9. CASE NoServer
    BY <1>9 DEF NoServer
<1>10. CASE Poll
    BY <1>10 DEF Poll
<1>11. CASE CopyOutput
    <2> DEFINE n == Least(Chunk, Len(pty_out))
    <2>1. n \in 0..Len(pty_out) /\ Len(pty_out) \in Nat
        BY LenProperties, LeastIs
    <2>2. /\ FirstOf(pty_out, n) \in Seq(1..MaxPrinted) /\ RestOf(pty_out, n) \in Seq(1..MaxPrinted)
          /\ Len(RestOf(pty_out, n)) <= PtySize
        BY <2>1, Split
    <2> QED BY <1>11, <2>2 DEF CopyOutput
<1>12. CASE ReceiveInput
    <2> DEFINE n == Least(Chunk, Len(inbox))
    <2>1. n \in 0..Len(inbox)
        BY LenProperties, LeastIs
    <2>2. FirstOf(inbox, n) \in Seq(Key) /\ RestOf(inbox, n) \in Seq(Key)
        BY <2>1, Split
    <2> QED BY <1>12, <2>2 DEF ReceiveInput
<1>13. CASE NothingToDo
    BY <1>13 DEF NothingToDo
<1>14. CASE Write
    <2> DEFINE n == Least(PtySize - Len(pty_in), Len(chunk))
    <2>1. n \in 0..Len(chunk) /\ n <= PtySize - Len(pty_in)
        <3>1. Len(chunk) \in Nat /\ PtySize - Len(pty_in) \in Nat
            BY LenProperties
        <3>2. n \in 0..(PtySize - Len(pty_in)) /\ n \in 0..Len(chunk)
            BY <3>1, LeastIs
        <3> QED BY <3>1, <3>2
    <2>2. /\ FirstOf(chunk, n) \in Seq(Key) /\ RestOf(chunk, n) \in Seq(Key)
          /\ Len(FirstOf(chunk, n)) = n
        BY <2>1, Split
    <2>3. pty_in \o FirstOf(chunk, n) \in Seq(Key)
         /\ Len(pty_in \o FirstOf(chunk, n)) <= PtySize
        <3>1. Len(pty_in) \in Nat
            BY LenProperties
        <3>2. /\ pty_in \o FirstOf(chunk, n) \in Seq(Key)
              /\ Len(pty_in \o FirstOf(chunk, n)) = Len(pty_in) + Len(FirstOf(chunk, n))
            BY <2>2, ConcatProperties
        <3> QED BY <2>1, <2>2, <3>1, <3>2
    <2> QED BY <1>14, <2>2, <2>3 DEF Write
<1>15. CASE SshReads
    BY <1>15 DEF SshReads
<1>16. CASE SshPrints
    BY <1>16 DEF SshPrints
<1>17. CASE SshExits
    BY <1>17 DEF SshExits
<1> QED BY <1>1, <1>2, <1>3, <1>4, <1>5, <1>6, <1>7, <1>8, <1>9,
          <1>10, <1>11, <1>12, <1>13, <1>14, <1>15, <1>16, <1>17
       DEF Next, User, SessionStep

\* Every step leaves the stations as its place requires.
LEMMA NextStations == TermInv /\ [Next]_vars => StationsEmpty'
<1> SUFFICES ASSUME TermInv, [Next]_vars PROVE StationsEmpty'
    OBVIOUS
<1> USE DEF TermInv, StationsEmpty, vars, menuVars, promptVars, inputVars, outputVars
<1>1. CASE UNCHANGED vars
    BY <1>1
<1>2. ASSUME NEW k \in Keys, Type(k) PROVE StationsEmpty'
    BY <1>2 DEF Type
<1>3. ASSUME NEW k \in Key, ReadByte(k) PROVE StationsEmpty'
    BY <1>3 DEF ReadByte, Take, Keep
<1>4. CASE Cancel
    BY <1>4 DEF Cancel, Take
<1>5. CASE NotDecoded
    BY <1>5 DEF NotDecoded, Take
<1>6. ASSUME NEW n \in 0..(MaxServers + MaxProviders), Select(n)
      PROVE  StationsEmpty'
    BY <1>6 DEF Select, Take, AskProviders
<1>7. CASE ChooseAgain
    BY <1>7 DEF ChooseAgain, Take
<1>8. CASE StartProxy
    BY <1>8 DEF StartProxy
<1>9. CASE NoServer
    BY <1>9 DEF NoServer
<1>10. CASE Poll
    BY <1>10 DEF Poll
<1>11. CASE CopyOutput
    BY <1>11 DEF CopyOutput
<1>12. CASE ReceiveInput
    BY <1>12 DEF ReceiveInput
<1>13. CASE NothingToDo
    BY <1>13 DEF NothingToDo
<1>14. CASE Write
    <2> DEFINE n == Least(PtySize - Len(pty_in), Len(chunk))
    <2>1. n = Len(chunk) => RestOf(chunk, n) = <<>>
        BY SubSeqEmpty, LenProperties DEF RestOf, TypeOK
    <2> QED BY <1>14, <2>1 DEF Write
<1>15. CASE SshReads
    BY <1>15 DEF SshReads
<1>16. CASE SshPrints
    BY <1>16 DEF SshPrints
<1>17. CASE SshExits
    BY <1>17 DEF SshExits
<1> QED BY <1>1, <1>2, <1>3, <1>4, <1>5, <1>6, <1>7, <1>8, <1>9,
          <1>10, <1>11, <1>12, <1>13, <1>14, <1>15, <1>16, <1>17
       DEF Next, User, SessionStep

\* The facts about sequences, for sequences of keys.
LEMMA Regroup == \A a, b, c \in Seq(Key) : (a \o b) \o c = a \o (b \o c)
BY ConcatAssociative

LEMMA RegroupOutput ==
    \A a, b, c \in Seq(1..MaxPrinted) : (a \o b) \o c = a \o (b \o c)
<1> DEFINE Output == 1..MaxPrinted
<1> HIDE DEF Output
<1>1. \A a, b, c \in Seq(Output) : (a \o b) \o c = a \o (b \o c)
    BY ConcatAssociative
<1> QED BY <1>1 DEF Output

LEMMA Appended == \A s \in Seq(Key), k \in Key : Append(s, k) = s \o <<k>>
BY AppendIsConcat

LEMMA Joined == \A a, b \in Seq(Key) : a \o b \in Seq(Key)
BY ConcatProperties

LEMMA SplitKeys ==
    \A s \in Seq(Key) : \A n \in 0..Len(s) :
      /\ FirstOf(s, n) \in Seq(Key) /\ RestOf(s, n) \in Seq(Key)
      /\ s = FirstOf(s, n) \o RestOf(s, n)
BY Split

\* A byte that a prompt reads moves from the channel to what was eaten.
LEMMA ByteEaten ==
    ASSUME TypeOK, inbox # <<>>, typed = eaten \o <<>> \o <<>> \o <<>> \o inbox
    PROVE  typed = Append(eaten, Head(inbox)) \o <<>> \o <<>> \o <<>> \o Tail(inbox)
<1>1. \A s \in Seq(Key) : s \o <<>> = s
    BY ConcatEmptySeq
<1>2. eaten \in Seq(Key) /\ inbox \in Seq(Key) /\ Append(eaten, Head(inbox)) \in Seq(Key)
    BY HeadTailProperties, AppendProperties DEF TypeOK
<1>3. eaten \o inbox = Append(eaten, Head(inbox)) \o Tail(inbox)
    BY <1>2, HeadMoves
<1> QED BY <1>1, <1>2, <1>3

\* Whatever the step, every byte typed is somewhere, once and in order.
LEMMA NextInput ==
    TermInv /\ [Next]_vars => typed' = eaten' \o ssh_got' \o pty_in' \o chunk' \o inbox'
<1> SUFFICES ASSUME TermInv, [Next]_vars
             PROVE  typed' = eaten' \o ssh_got' \o pty_in' \o chunk' \o inbox'
    OBVIOUS
<1> USE DEF TermInv, EveryByteOnce, vars, menuVars, promptVars, inputVars, outputVars
<1>1. CASE UNCHANGED vars
    BY <1>1
<1>2. ASSUME NEW k \in Keys, Type(k)
      PROVE  typed' = eaten' \o ssh_got' \o pty_in' \o chunk' \o inbox'
    <2> DEFINE s == eaten \o ssh_got \o pty_in \o chunk
    <2>1. s \in Seq(Key) /\ inbox \in Seq(Key) /\ k \in Key /\ typed \in Seq(Key)
        BY Joined, TerminalAssumption DEF TypeOK
    <2>2. typed' = typed \o <<k>> /\ inbox' = inbox \o <<k>> /\ <<k>> \in Seq(Key)
        <3>1. Append(typed, k) = typed \o <<k>> /\ Append(inbox, k) = inbox \o <<k>>
            BY <2>1, Appended
        <3>2. typed' = Append(typed, k) /\ inbox' = Append(inbox, k) /\ <<k>> \in Seq(Key)
            BY <1>2, <2>1 DEF Type
        <3> QED BY <3>1, <3>2
    <2>3. typed = s \o inbox /\ eaten' \o ssh_got' \o pty_in' \o chunk' = s
        BY <1>2 DEF Type
    <2> HIDE DEF s
    <2>4. (s \o inbox) \o <<k>> = s \o (inbox \o <<k>>)
        BY <2>1, <2>2, Regroup
    <2> QED BY <2>2, <2>3, <2>4
<1>3. ASSUME NEW k \in Key, ReadByte(k)
      PROVE  typed' = eaten' \o ssh_got' \o pty_in' \o chunk' \o inbox'
    <2>1. ssh_got = <<>> /\ pty_in = <<>> /\ chunk = <<>>
        BY <1>3 DEF ReadByte, Take, StationsEmpty
    <2>2. eaten' = Append(eaten, Head(inbox)) /\ inbox' = Tail(inbox) /\ inbox # <<>>
        BY <1>3 DEF ReadByte, Take
    <2>3. UNCHANGED <<typed, ssh_got, pty_in, chunk>>
        BY <1>3 DEF ReadByte, Take
    <2> QED BY <2>1, <2>2, <2>3, ByteEaten
<1>4. CASE Cancel
    <2>1. ssh_got = <<>> /\ pty_in = <<>> /\ chunk = <<>>
        BY <1>4 DEF Cancel, Take, StationsEmpty
    <2>2. eaten' = Append(eaten, Head(inbox)) /\ inbox' = Tail(inbox) /\ inbox # <<>>
        BY <1>4 DEF Cancel, Take
    <2>3. UNCHANGED <<typed, ssh_got, pty_in, chunk>>
        BY <1>4 DEF Cancel, Take
    <2> QED BY <2>1, <2>2, <2>3, ByteEaten
<1>5. CASE NotDecoded
    <2>1. ssh_got = <<>> /\ pty_in = <<>> /\ chunk = <<>>
        BY <1>5 DEF NotDecoded, Take, StationsEmpty
    <2>2. eaten' = Append(eaten, Head(inbox)) /\ inbox' = Tail(inbox) /\ inbox # <<>>
        BY <1>5 DEF NotDecoded, Take
    <2>3. UNCHANGED <<typed, ssh_got, pty_in, chunk>>
        BY <1>5 DEF NotDecoded, Take
    <2> QED BY <2>1, <2>2, <2>3, ByteEaten
<1>6. ASSUME NEW n \in 0..(MaxServers + MaxProviders), Select(n)
      PROVE  typed' = eaten' \o ssh_got' \o pty_in' \o chunk' \o inbox'
    <2>1. ssh_got = <<>> /\ pty_in = <<>> /\ chunk = <<>>
        BY <1>6 DEF Select, Take, StationsEmpty
    <2>2. eaten' = Append(eaten, Head(inbox)) /\ inbox' = Tail(inbox) /\ inbox # <<>>
        BY <1>6 DEF Select, Take
    <2>3. UNCHANGED <<typed, ssh_got, pty_in, chunk>>
        BY <1>6 DEF Select, Take
    <2> QED BY <2>1, <2>2, <2>3, ByteEaten
<1>7. CASE ChooseAgain
    <2>1. ssh_got = <<>> /\ pty_in = <<>> /\ chunk = <<>>
        BY <1>7 DEF ChooseAgain, Take, StationsEmpty
    <2>2. eaten' = Append(eaten, Head(inbox)) /\ inbox' = Tail(inbox) /\ inbox # <<>>
        BY <1>7 DEF ChooseAgain, Take
    <2>3. UNCHANGED <<typed, ssh_got, pty_in, chunk>>
        BY <1>7 DEF ChooseAgain, Take
    <2> QED BY <2>1, <2>2, <2>3, ByteEaten
<1>8. CASE StartProxy
    BY <1>8 DEF StartProxy
<1>9. CASE NoServer
    BY <1>9 DEF NoServer
<1>10. CASE Poll
    BY <1>10 DEF Poll
<1>11. CASE CopyOutput
    BY <1>11 DEF CopyOutput
<1>12. CASE ReceiveInput
    <2> DEFINE s == eaten \o ssh_got \o pty_in
    <2> DEFINE n == Least(Chunk, Len(inbox))
    <2>1. s \in Seq(Key) /\ inbox \in Seq(Key) /\ chunk = <<>>
        BY <1>12, Joined DEF TypeOK, StationsEmpty, ReceiveInput
    <2>2. n \in 0..Len(inbox)
        BY TerminalAssumption, LenProperties, LeastIs DEF TypeOK
    <2>3. /\ FirstOf(inbox, n) \in Seq(Key) /\ RestOf(inbox, n) \in Seq(Key)
          /\ inbox = FirstOf(inbox, n) \o RestOf(inbox, n)
        BY <2>1, <2>2, SplitKeys
    <2>4. /\ typed = s \o chunk \o inbox /\ eaten' \o ssh_got' \o pty_in' = s
          /\ typed' = typed /\ chunk' = FirstOf(inbox, n) /\ inbox' = RestOf(inbox, n)
        BY <1>12 DEF ReceiveInput
    <2> HIDE DEF s, n
    <2>5. s \o <<>> = s
        BY <2>1, ConcatEmptySeq
    <2>6. (s \o FirstOf(inbox, n)) \o RestOf(inbox, n) = s \o (FirstOf(inbox, n) \o RestOf(inbox, n))
        BY <2>1, <2>3, Regroup
    <2> QED BY <2>1, <2>3, <2>4, <2>5, <2>6
<1>13. CASE NothingToDo
    BY <1>13 DEF NothingToDo
<1>14. CASE Write
    <2> DEFINE s == eaten \o ssh_got
    <2> DEFINE n == Least(PtySize - Len(pty_in), Len(chunk))
    <2>1. s \in Seq(Key) /\ pty_in \in Seq(Key) /\ chunk \in Seq(Key)
        BY Joined DEF TypeOK
    <2>2. n \in 0..Len(chunk)
        <3>1. Len(chunk) \in Nat /\ PtySize - Len(pty_in) \in Nat
            BY TerminalAssumption, LenProperties DEF TypeOK
        <3> QED BY <3>1, LeastIs
    <2>3. /\ FirstOf(chunk, n) \in Seq(Key) /\ RestOf(chunk, n) \in Seq(Key)
          /\ chunk = FirstOf(chunk, n) \o RestOf(chunk, n)
        BY <2>1, <2>2, SplitKeys
    <2> HIDE DEF s, n
    <2>4. (s \o pty_in) \o FirstOf(chunk, n) = s \o (pty_in \o FirstOf(chunk, n))
        BY <2>1, <2>3, Regroup
    <2>5. s \o pty_in \in Seq(Key)
        BY <2>1, Joined
    <2>6. ((s \o pty_in) \o FirstOf(chunk, n)) \o RestOf(chunk, n) = (s \o pty_in) \o chunk
        <3>1. ((s \o pty_in) \o FirstOf(chunk, n)) \o RestOf(chunk, n)
                = (s \o pty_in) \o (FirstOf(chunk, n) \o RestOf(chunk, n))
            BY <2>3, <2>5, Regroup
        <3> QED BY <2>3, <3>1
    <2>7. /\ pty_in' = pty_in \o FirstOf(chunk, n) /\ chunk' = RestOf(chunk, n)
          /\ UNCHANGED <<typed, eaten, ssh_got, inbox>>
        BY <1>14 DEF Write, n
    <2>8. typed = s \o pty_in \o chunk \o inbox /\ s = eaten \o ssh_got
        BY DEF s
    <2> QED BY <2>4, <2>6, <2>7, <2>8
<1>15. CASE SshReads
    <2>1. (eaten \o ssh_got) \o pty_in = eaten \o (ssh_got \o pty_in)
        <3>1. eaten \in Seq(Key) /\ ssh_got \in Seq(Key) /\ pty_in \in Seq(Key)
            BY DEF TypeOK
        <3> QED BY <3>1, Regroup
    <2>2. eaten \o (ssh_got \o pty_in) \in Seq(Key)
        BY Joined DEF TypeOK
    <2>3. (eaten \o (ssh_got \o pty_in)) \o <<>> = eaten \o (ssh_got \o pty_in)
        BY <2>2, ConcatEmptySeq
    <2> QED BY <1>15, <2>1, <2>3 DEF SshReads
<1>16. CASE SshPrints
    BY <1>16 DEF SshPrints
<1>17. CASE SshExits
    BY <1>17 DEF SshExits
<1> QED BY <1>1, <1>2, <1>3, <1>4, <1>5, <1>6, <1>7, <1>8, <1>9,
          <1>10, <1>11, <1>12, <1>13, <1>14, <1>15, <1>16, <1>17
       DEF Next, User, SessionStep

\* Whatever the step, the client gets what ssh prints, in order.
LEMMA NextOutput ==
    TermInv /\ [Next]_vars => client_got' \o pty_out' = [i \in 1..printed' |-> i]
<1> SUFFICES ASSUME TermInv, [Next]_vars
             PROVE  client_got' \o pty_out' = [i \in 1..printed' |-> i]
    OBVIOUS
<1> USE DEF TermInv, EveryByteOnce, vars, menuVars, promptVars, inputVars, outputVars
<1>1. CASE UNCHANGED vars
    BY <1>1
<1>2. ASSUME NEW k \in Keys, Type(k)
      PROVE  client_got' \o pty_out' = [i \in 1..printed' |-> i]
    BY <1>2 DEF Type
<1>3. ASSUME NEW k \in Key, ReadByte(k)
      PROVE  client_got' \o pty_out' = [i \in 1..printed' |-> i]
    BY <1>3 DEF ReadByte, Take, Keep
<1>4. CASE Cancel
    BY <1>4 DEF Cancel, Take
<1>5. CASE NotDecoded
    BY <1>5 DEF NotDecoded, Take
<1>6. ASSUME NEW n \in 0..(MaxServers + MaxProviders), Select(n)
      PROVE  client_got' \o pty_out' = [i \in 1..printed' |-> i]
    BY <1>6 DEF Select, Take, AskProviders
<1>7. CASE ChooseAgain
    BY <1>7 DEF ChooseAgain, Take
<1>8. CASE StartProxy
    BY <1>8 DEF StartProxy
<1>9. CASE NoServer
    BY <1>9 DEF NoServer
<1>10. CASE Poll
    BY <1>10 DEF Poll
<1>11. CASE CopyOutput
    <2> DEFINE n == Least(Chunk, Len(pty_out))
    <2>1. client_got \in Seq(1..MaxPrinted) /\ pty_out \in Seq(1..MaxPrinted)
        BY DEF TypeOK
    <2>2. n \in 0..Len(pty_out)
        BY <2>1, TerminalAssumption, LenProperties, LeastIs
    <2>3. /\ client_got' = client_got \o FirstOf(pty_out, n) /\ pty_out' = RestOf(pty_out, n)
          /\ printed' = printed
        BY <1>11 DEF CopyOutput
    <2> HIDE DEF n
    <2>4. /\ FirstOf(pty_out, n) \in Seq(1..MaxPrinted) /\ RestOf(pty_out, n) \in Seq(1..MaxPrinted)
          /\ pty_out = FirstOf(pty_out, n) \o RestOf(pty_out, n)
        BY <2>1, <2>2, Split
    <2>5. (client_got \o FirstOf(pty_out, n)) \o RestOf(pty_out, n)
            = client_got \o (FirstOf(pty_out, n) \o RestOf(pty_out, n))
        BY <2>1, <2>4, ConcatAssociative
    <2> QED BY <2>3, <2>4, <2>5
<1>12. CASE ReceiveInput
    BY <1>12 DEF ReceiveInput
<1>13. CASE NothingToDo
    BY <1>13 DEF NothingToDo
<1>14. CASE Write
    BY <1>14 DEF Write
<1>15. CASE SshReads
    BY <1>15 DEF SshReads
<1>16. CASE SshPrints
    <2> DEFINE s == [i \in 1..printed |-> i]
    <2>1. /\ client_got \in Seq(1..MaxPrinted) /\ pty_out \in Seq(1..MaxPrinted)
          /\ printed \in Nat /\ printed + 1 \in 1..MaxPrinted
        BY <1>16, TerminalAssumption DEF TypeOK, SshPrints
    <2>2. /\ Append(pty_out, printed + 1) = pty_out \o <<printed + 1>>
          /\ <<printed + 1>> \in Seq(1..MaxPrinted)
        BY <2>1, AppendIsConcat
    <2>3. (client_got \o pty_out) \o <<printed + 1>> = client_got \o (pty_out \o <<printed + 1>>)
        BY <2>1, <2>2, RegroupOutput
    <2>4. s \o <<printed + 1>> = [i \in 1..(printed + 1) |-> i]
        <3>1. s \in Seq(Int) /\ Len(s) = printed
            BY <2>1
        <3>2. /\ Append(s, printed + 1) \in Seq(Int) /\ Len(Append(s, printed + 1)) = printed + 1
              /\ \A i \in 1..(printed + 1) : Append(s, printed + 1)[i] = i
            BY <2>1, <3>1, AppendProperties
        <3>3. Append(s, printed + 1) = s \o <<printed + 1>>
            BY <2>1, <3>1, AppendIsConcat
        <3>4. DOMAIN Append(s, printed + 1) = 1..(printed + 1)
            BY <3>2, LenProperties
        <3> HIDE DEF s
        <3> QED BY <3>2, <3>3, <3>4, LenProperties
    <2> QED BY <1>16, <2>2, <2>3, <2>4 DEF SshPrints
<1>17. CASE SshExits
    BY <1>17 DEF SshExits
<1> QED BY <1>1, <1>2, <1>3, <1>4, <1>5, <1>6, <1>7, <1>8, <1>9,
          <1>10, <1>11, <1>12, <1>13, <1>14, <1>15, <1>16, <1>17
       DEF Next, User, SessionStep

\* Every read that follows a poll sends what the poll could see.
LEMMA NextLooked == TermInv /\ [Next]_vars => Looked'
<1> SUFFICES ASSUME TermInv, [Next]_vars PROVE Looked'
    OBVIOUS
<1> USE DEF TermInv, Looked, vars, menuVars, promptVars, inputVars, outputVars
<1>1. CASE UNCHANGED vars
    BY <1>1
<1>2. ASSUME NEW k \in Keys, Type(k) PROVE Looked'
    BY <1>2 DEF Type
<1>3. ASSUME NEW k \in Key, ReadByte(k) PROVE Looked'
    BY <1>3 DEF ReadByte, Take, Keep
<1>4. CASE Cancel
    BY <1>4 DEF Cancel, Take
<1>5. CASE NotDecoded
    BY <1>5 DEF NotDecoded, Take
<1>6. ASSUME NEW n \in 0..(MaxServers + MaxProviders), Select(n) PROVE Looked'
    BY <1>6 DEF Select, Take, AskProviders
<1>7. CASE ChooseAgain
    BY <1>7 DEF ChooseAgain, Take
<1>8. CASE StartProxy
    BY <1>8 DEF StartProxy
<1>9. CASE NoServer
    BY <1>9 DEF NoServer
<1>10. CASE Poll
    <2>1. Len(client_got) \in Nat /\ Len(pty_out) \in Nat /\ seen \in Nat
        BY LenProperties, TerminalAssumption DEF TypeOK
    <2> QED BY <1>10, <2>1 DEF Poll
<1>11. CASE CopyOutput
    <2> DEFINE n == Least(Chunk, Len(pty_out))
    <2>1. /\ client_got \in Seq(1..MaxPrinted) /\ pty_out \in Seq(1..MaxPrinted)
          /\ Len(client_got) \in Nat /\ Len(pty_out) \in Nat /\ Chunk \in Nat /\ PtySize \in Nat
          /\ Len(pty_out) <= PtySize /\ seen <= printed /\ seen \in Nat /\ printed \in Nat
        BY LenProperties, TerminalAssumption DEF TypeOK
    <2>2. n \in 0..Len(pty_out) /\ (PtySize <= Chunk => n = Len(pty_out))
        BY <2>1 DEF Least
    <2>3. /\ client_got' = client_got \o FirstOf(pty_out, n) /\ pty_out' = RestOf(pty_out, n)
          /\ UNCHANGED <<printed, seen>>
        BY <1>11 DEF CopyOutput
    <2> HIDE DEF n
    <2>4. /\ FirstOf(pty_out, n) \in Seq(1..MaxPrinted) /\ Len(FirstOf(pty_out, n)) = n
          /\ Len(RestOf(pty_out, n)) = Len(pty_out) - n
        BY <2>1, <2>2, Split
    <2>5. Len(client_got \o FirstOf(pty_out, n)) = Len(client_got) + n
        BY <2>1, <2>4, ConcatProperties
    <2>6. Len(client_got') = Len(client_got) + n /\ Len(pty_out') = Len(pty_out) - n
        BY <2>3, <2>4, <2>5
    <2>7. Len(client_got) + Len(pty_out) = printed
        OBVIOUS
    <2>8. /\ Len(client_got') + Len(pty_out') = printed'
          /\ PtySize <= Chunk => Len(client_got') >= seen'
        <3>1. printed' = printed /\ seen' = seen
            BY <2>3
        <3>2. Len(client_got') + Len(pty_out') = printed
            BY ONLY <2>1, <2>2, <2>6, <2>7
        <3>3. PtySize <= Chunk => Len(client_got') >= seen
            BY ONLY <2>1, <2>2, <2>6, <2>7
        <3> QED BY <3>1, <3>2, <3>3
    <2> QED BY <2>8
<1>12. CASE ReceiveInput
    <2>1. Len(client_got) = printed /\ seen <= printed
        BY <1>12, LenProperties, TerminalAssumption DEF ReceiveInput, TypeOK
    <2> QED BY <1>12, <2>1 DEF ReceiveInput
<1>13. CASE NothingToDo
    <2>1. Len(client_got) = printed /\ seen <= printed
        BY <1>13, LenProperties, TerminalAssumption DEF NothingToDo, TypeOK
    <2> QED BY <1>13, <2>1 DEF NothingToDo
<1>14. CASE Write
    BY <1>14 DEF Write
<1>15. CASE SshReads
    BY <1>15 DEF SshReads
<1>16. CASE SshPrints
    <2>1. /\ pty_out \in Seq(1..MaxPrinted) /\ printed + 1 \in 1..MaxPrinted
          /\ Len(pty_out) \in Nat /\ Len(client_got) \in Nat /\ printed \in Nat
        BY <1>16, LenProperties, TerminalAssumption DEF TypeOK, SshPrints
    <2>2. Len(Append(pty_out, printed + 1)) = Len(pty_out) + 1
        BY <2>1, AppendProperties
    <2> QED BY <1>16, <2>1, <2>2 DEF SshPrints
<1>17. CASE SshExits
    BY <1>17 DEF SshExits
<1> QED BY <1>1, <1>2, <1>3, <1>4, <1>5, <1>6, <1>7, <1>8, <1>9,
          <1>10, <1>11, <1>12, <1>13, <1>14, <1>15, <1>16, <1>17
       DEF Next, User, SessionStep

\* The invariant holds in every behaviour.
LEMMA TermInvHolds == Spec => []TermInv
<1>1. TermInv /\ [Next]_vars => TermInv'
    BY NextTypeOK, NextStations, NextInput, NextOutput, NextLooked
       DEF TermInv, EveryByteOnce
<1> QED BY <1>1, InitTermInv, PTL DEF Spec

-----------------------------------------------------------------------------

\* The state of a session's terminal has its type.
THEOREM TerminalTyped == Spec => []TypeOK
<1>1. TermInv => TypeOK
    BY DEF TermInv
<1> QED BY <1>1, TermInvHolds, PTL

\* No byte is lost or doubled between the prompts and ssh, whatever is typed
\* ahead and however full the pty is, nor on the way back.
THEOREM EveryByteOnceHolds == Spec => []EveryByteOnce
<1>1. TermInv => EveryByteOnce
    BY DEF TermInv
<1> QED BY <1>1, TermInvHolds, PTL

\* What ssh had printed when poll last found it running reaches the client, if
\* one read takes all a pty holds.
THEOREM LastLookHolds == Spec => []LastLook
<1>1. TermInv => LastLook
    BY DEF TermInv, Looked, LastLook
<1> QED BY <1>1, TermInvHolds, PTL

-----------------------------------------------------------------------------
(* The end of the session, once ssh has exited.                            *)

\* How many steps of its own the session has left at most, once ssh has exited.
StepsLeft ==
    CASE place = "selecting" -> Chunk + 3
      [] place = "writing"   -> Len(chunk) + 2
      [] place = "polling"   -> 1
      [] OTHER               -> 0

\* That is how near the end is: once ssh has exited, each step of the session
\* brings it nearer, and nobody else puts it off.  It is about the loop of
\* user_using, in which input comes second, a write may take the chunk in many
\* pieces, and only the poll ends the session, not the end of the output.
ExitApproaches ==
    [][ssh = "exited" =>
        /\ StepsLeft' <= StepsLeft
        /\ SessionStep => StepsLeft' < StepsLeft]_vars

\* What was received at once fits in a chunk.
ChunkFits == Len(chunk) <= Chunk

LEMMA NextChunkFits ==
    ASSUME TypeOK, ChunkFits, [Next]_vars
    PROVE  ChunkFits'
<1>1. CASE ReceiveInput
    <2> DEFINE n == Least(Chunk, Len(inbox))
    <2>1. inbox \in Seq(Key) /\ Len(inbox) \in Nat /\ Chunk \in Nat
        BY LenProperties, TerminalAssumption DEF TypeOK
    <2>2. n \in 0..Len(inbox) /\ n <= Chunk
        BY <2>1 DEF Least
    <2>3. Len(FirstOf(inbox, n)) = n
        BY <2>1, <2>2, Split
    <2> QED BY <1>1, <2>2, <2>3 DEF ReceiveInput, ChunkFits
<1>2. CASE Write
    <2> DEFINE n == Least(PtySize - Len(pty_in), Len(chunk))
    <2>1. /\ chunk \in Seq(Key) /\ Len(chunk) \in Nat /\ Chunk \in Nat
          /\ PtySize - Len(pty_in) \in Nat
        BY LenProperties, TerminalAssumption DEF TypeOK
    <2>2. n \in 0..Len(chunk)
        BY <2>1, LeastIs
    <2>3. Len(RestOf(chunk, n)) = Len(chunk) - n
        BY <2>1, <2>2, Split
    <2>4. chunk' = RestOf(chunk, n)
        BY <1>2 DEF Write
    <2> HIDE DEF n
    <2> QED BY <2>1, <2>2, <2>3, <2>4 DEF ChunkFits
<1>3. CASE ~ReceiveInput /\ ~Write
    <2>1. UNCHANGED chunk
        BY <1>3 DEF Next, User, SessionStep, Type, ReadByte, Take, Cancel, NotDecoded,
                    Select, ChooseAgain, StartProxy, NoServer, Poll, CopyOutput,
                    NothingToDo, SshReads, SshPrints, SshExits,
                    vars, inputVars
    <2> QED BY <2>1 DEF ChunkFits
<1> QED BY <1>1, <1>2, <1>3

\* A write takes the whole chunk, or as much of it as makes the pty full, and
\* that is a byte at least.
LEMMA WriteTakesSome ==
    ASSUME TypeOK, Write
    PROVE  place' = "polling" \/ (place' = "writing" /\ Len(chunk') < Len(chunk))
<1> DEFINE n == Least(PtySize - Len(pty_in), Len(chunk))
<1>1. /\ chunk \in Seq(Key) /\ Len(chunk) \in Nat /\ Len(pty_in) \in Nat /\ PtySize \in Nat
      /\ Len(pty_in) < PtySize
    BY LenProperties, TerminalAssumption DEF TypeOK, Write
<1>2. n \in 0..Len(chunk) /\ (n = Len(chunk) \/ n > 0)
    BY <1>1 DEF Least
<1>3. Len(RestOf(chunk, n)) = Len(chunk) - n
    BY <1>1, <1>2, Split
<1>4. chunk' = RestOf(chunk, n) /\ place' = IF n = Len(chunk) THEN "polling" ELSE "writing"
    BY DEF Write
<1> HIDE DEF n
<1> QED BY <1>1, <1>2, <1>3, <1>4

\* Once ssh has exited, each step of the session brings it nearer to its end,
\* for chunks and ptys of any size.  With the fairness of the session's thread
\* this is why ExitNoticed holds; only the step to "eventually" is left to TLC.
THEOREM ExitApproachesHolds == Spec => ExitApproaches
<1> DEFINE Inv == TermInv /\ ChunkFits
<1>1. Init => Inv
    <2>1. Init => ChunkFits
        BY TerminalAssumption DEF Init, ChunkFits
    <2> QED BY <2>1, InitTermInv
<1>2. Inv /\ [Next]_vars => Inv'
    BY NextTypeOK, NextStations, NextInput, NextOutput, NextLooked, NextChunkFits
       DEF TermInv, EveryByteOnce
<1>3. ASSUME Inv, Inv', [Next]_vars, ssh = "exited"
      PROVE  StepsLeft' <= StepsLeft /\ (SessionStep => StepsLeft' < StepsLeft)
    <2>1. /\ Len(chunk) \in 0..Chunk /\ Len(chunk') \in 0..Chunk /\ Chunk \in Nat \ {0}
          /\ place \notin {"asking", "creating"}
        BY <1>3, LenProperties, TerminalAssumption DEF TermInv, TypeOK, ChunkFits, StationsEmpty
    <2>2. CASE Poll
        BY <1>3, <2>1, <2>2 DEF Poll, StepsLeft
    <2>3. CASE CopyOutput
        BY <1>3, <2>1, <2>3 DEF CopyOutput, StepsLeft
    <2>4. CASE ReceiveInput
        BY <1>3, <2>1, <2>4 DEF ReceiveInput, StepsLeft
    <2>5. CASE NothingToDo
        BY <1>3, <2>1, <2>5 DEF NothingToDo, StepsLeft
    <2>6. CASE Write
        <3>1. place' = "polling" \/ (place' = "writing" /\ Len(chunk') < Len(chunk))
            BY <1>3, <2>6, WriteTakesSome DEF TermInv
        <3>2. place = "writing"
            BY <2>6 DEF Write
        <3> QED BY <2>1, <3>1, <3>2 DEF StepsLeft
    <2>7. CASE ~(Poll \/ CopyOutput \/ ReceiveInput \/ NothingToDo \/ Write)
        <3>1. ~SessionStep
            BY <2>1, <2>7 DEF SessionStep, ReadByte, Take, Cancel, NotDecoded, Select,
                              ChooseAgain, StartProxy, NoServer
        <3>2. UNCHANGED <<place, chunk>>
            BY <1>3, <3>1 DEF Next, User, Type, SshReads, SshPrints, SshExits,
                              vars, inputVars
        <3> QED BY <2>1, <3>1, <3>2 DEF StepsLeft
    <2> QED BY <2>2, <2>3, <2>4, <2>5, <2>6, <2>7
<1> QED BY <1>1, <1>2, <1>3, PTL DEF Spec, ExitApproaches
=============================================================================
