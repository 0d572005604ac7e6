----------------------------- MODULE PromptProofs -----------------------------
(***************************************************************************)
(* Proofs about the prompts: what is selected is what the lines say.  The  *)
(* code reads byte by byte and keeps a list of characters and the depth of *)
(* its own calls; the property reads the bytes as lines, all at once.  The *)
(* lemmas say what one more byte does to the lines, the invariant that the *)
(* list of characters is the last, unfinished line, and that the depth is  *)
(* one exactly while no line has been read since the menu opened.          *)
(***************************************************************************)
EXTENDS TerminalProofs, FiniteSetTheorems

-----------------------------------------------------------------------------
(* The places of a line, in their order.                                   *)

\* Two places of a finite set have different ranks.
LEMMA RanksDiffer ==
    ASSUME NEW P \in SUBSET Nat, IsFiniteSet(P), NEW i \in P, NEW j \in P, i < j
    PROVE  Rank(P, i) # Rank(P, j)
<1> DEFINE before(l) == {m \in P : m <= l}
<1>1. before(i) \subseteq before(j) /\ j \in before(j) /\ j \notin before(i)
    <2>1. j \in before(j) /\ j \notin before(i)
        OBVIOUS
    <2>2. \A m \in P : m <= i => m <= j
        OBVIOUS
    <2> QED BY <2>1, <2>2
<1>2. before(i) \in SUBSET before(j) /\ before(j) \in SUBSET P
    BY <1>1
<1> HIDE DEF before
<1>3. IsFiniteSet(before(j))
    BY <1>2, FS_Subset
<1>4. Cardinality(before(j)) = Cardinality(before(i)) => before(j) = before(i)
    BY <1>2, <1>3, FS_Subset
<1> QED BY <1>1, <1>4 DEF Rank, before

\* Every set of n places has a first, a second, and so on to an n-th: the ranks
\* of n places are n different numbers of 1..n, thus all of them.
LEMMA NthIs ==
    ASSUME NEW P \in SUBSET Nat, IsFiniteSet(P), NEW n \in 1..Cardinality(P)
    PROVE  /\ Nth(P, n) \in P /\ Rank(P, Nth(P, n)) = n
           /\ \A i \in P : Rank(P, i) = n => i = Nth(P, n)
<1> DEFINE rank == [i \in P |-> Rank(P, i)]
<1>1. ASSUME NEW i \in P PROVE Rank(P, i) \in 1..Cardinality(P)
    <2> DEFINE upto == {j \in P : j <= i}
    <2>1. IsFiniteSet(upto) /\ Cardinality(upto) <= Cardinality(P)
        BY FS_Subset
    <2>2. Cardinality(upto) \in Nat /\ Cardinality(P) \in Nat
        BY <2>1, FS_CardinalityType
    <2>3. upto # {}
        OBVIOUS
    <2>4. Cardinality(upto) # 0
        BY <2>1, <2>3, FS_EmptySet
    <2> QED BY <2>1, <2>2, <2>4 DEF Rank
<1>2. \A i, j \in P : i = j \/ i < j \/ j < i
    OBVIOUS
<1>3. \A i, j \in P : Rank(P, i) = Rank(P, j) => i = j
    BY <1>2, RanksDiffer
<1>4. rank \in Injection(P, 1..Cardinality(P))
    <2>1. rank \in [P -> 1..Cardinality(P)]
        BY <1>1
    <2> QED BY <1>3, <2>1 DEF Injection, IsInjective
<1>5. IsFiniteSet(1..Cardinality(P)) /\ Cardinality(1..Cardinality(P)) = Cardinality(P)
    BY FS_Interval, FS_CardinalityType
<1>6. rank \in Surjection(P, 1..Cardinality(P))
    <2> HIDE DEF rank
    <2> QED BY <1>4, <1>5, FS_Injection
<1>7. PICK i \in P : rank[i] = n
    <2> HIDE DEF rank
    <2> QED BY <1>6 DEF Surjection
<1> QED BY <1>3, <1>7 DEF Nth

\* The places of a line are finitely many, and lie before its end.
LEMMA LinePlacesFinite ==
    ASSUME NEW s, NEW e \in Nat \ {0}
    PROVE  /\ LinePlaces(s, e) \in SUBSET Nat /\ IsFiniteSet(LinePlaces(s, e))
           /\ Cardinality(LinePlaces(s, e)) \in Nat
           /\ \A i \in LinePlaces(s, e) : i \in 1..(e - 1)
<1>1. LinePlaces(s, e) \subseteq 1..(e - 1)
    BY DEF LinePlaces
<1>2. IsFiniteSet(1..(e - 1))
    BY FS_Interval
<1>3. IsFiniteSet(LinePlaces(s, e))
    BY <1>1, <1>2, FS_Subset
<1> QED BY <1>1, <1>3, FS_CardinalityType

\* A function on 1..n is a sequence of n elements.
LEMMA FunctionIsSeq ==
    ASSUME NEW S, NEW n \in Nat, NEW f \in [1..n -> S]
    PROVE  f \in Seq(S) /\ Len(f) = n
OBVIOUS

\* The n-th place of a line is one of the places before its end.
LEMMA NthBefore ==
    ASSUME NEW s, NEW e \in Nat \ {0}, NEW n \in 1..Cardinality(LinePlaces(s, e))
    PROVE  Nth(LinePlaces(s, e), n) \in 1..(e - 1)
BY LinePlacesFinite, NthIs

-----------------------------------------------------------------------------
(* One more byte.                                                          *)

\* The bytes there are stay where they are.
LEMMA OneMoreByte ==
    ASSUME NEW S, NEW s \in Seq(S), NEW k \in S
    PROVE  LET t == Append(s, k)
           IN  /\ t \in Seq(S) /\ Len(s) \in Nat /\ Len(t) = Len(s) + 1
               /\ DOMAIN s = 1..Len(s) /\ DOMAIN t = 1..(Len(s) + 1)
               /\ \A i \in 1..Len(s) : t[i] = s[i]
               /\ t[Len(s) + 1] = k
BY AppendProperties, LenProperties

\* A line that was begun before the new byte has not changed.
LEMMA LineStays ==
    ASSUME NEW s \in Seq(Key), NEW k \in Key, NEW e \in 1..(Len(s) + 1)
    PROVE  LineEndingAt(Append(s, k), e) = LineEndingAt(s, e)
<1> DEFINE t == Append(s, k)
<1> DEFINE P == LinePlaces(s, e)
<1>1. Len(s) \in Nat /\ e \in Nat \ {0} /\ \A i \in 1..(e - 1) : t[i] = s[i]
    BY OneMoreByte
<1>2. LinePlaces(t, e) = P
    <2>1. \A i \in 1..(e - 1) : \A j \in i..(e - 1) : j \in 1..(e - 1)
        BY <1>1
    <2> HIDE DEF t
    <2> QED BY <1>1, <2>1 DEF LinePlaces
<1>3. \A n \in 1..Cardinality(P) : t[Nth(P, n)] = s[Nth(P, n)]
    BY <1>1, NthBefore
<1> HIDE DEF P, t
<1>4. LineEndingAt(t, e) = [n \in 1..Cardinality(P) |-> t[Nth(P, n)]]
    BY <1>2 DEF LineEndingAt
<1>5. LineEndingAt(s, e) = [n \in 1..Cardinality(P) |-> s[Nth(P, n)]]
    BY DEF LineEndingAt, P
<1>6. LineEndingAt(t, e) = LineEndingAt(s, e)
    BY <1>3, <1>4, <1>5
<1> QED BY <1>6 DEF t

\* After an "enter" the line is empty.
LEMMA LineOver ==
    ASSUME NEW s \in Seq(Key)
    PROVE  LineEndingAt(Append(s, "enter"), Len(s) + 2) = <<>>
<1> DEFINE t == Append(s, "enter")
<1>1. Len(s) \in Nat /\ t[Len(s) + 1] = "enter"
    BY OneMoreByte, KeyNames
<1>2. LinePlaces(t, Len(s) + 2) = {}
    <2>1. \A i \in 1..(Len(s) + 1) : Len(s) + 1 \in i..(Len(s) + 1)
        BY <1>1
    <2>2. Len(s) + 2 - 1 = Len(s) + 1
        BY <1>1
    <2> HIDE DEF t
    <2> QED BY <1>1, <2>1, <2>2 DEF LinePlaces
<1>3. Cardinality({}) = 0
    BY FS_EmptySet
<1> HIDE DEF t
<1>4. LineEndingAt(t, Len(s) + 2) = [n \in 1..0 |-> t[Nth({}, n)]]
    BY <1>2, <1>3 DEF LineEndingAt
<1>5. LineEndingAt(t, Len(s) + 2) = <<>>
    BY <1>4
<1> QED BY <1>5 DEF t

\* Any other byte becomes the last one of the line, but for a rubout.
LEMMA LineGrows ==
    ASSUME NEW s \in Seq(Key), NEW k \in Key, k # "enter"
    PROVE  LineEndingAt(Append(s, k), Len(s) + 2) = Keep(LineEndingAt(s, Len(s) + 1), k)
<1> DEFINE t == Append(s, k)
<1> DEFINE e == Len(s) + 1
<1> DEFINE P == LinePlaces(s, e)
<1> DEFINE Q == LinePlaces(t, e + 1)
<1> DEFINE line == LineEndingAt(s, e)
<1> DEFINE longer == LineEndingAt(t, e + 1)
<1>1. /\ Len(s) \in Nat /\ e \in Nat \ {0} /\ e - 1 = Len(s) /\ (e + 1) - 1 = e
      /\ Len(s) + 2 = e + 1 /\ e \notin 1..Len(s) /\ \A i \in 1..Len(s) : i < e
      /\ t[e] = k /\ \A i \in 1..Len(s) : t[i] = s[i] /\ s[i] \in Key
    BY OneMoreByte, ElementOfSeq
<1> HIDE DEF t, e
<1>2. Q = IF k = "rubout" THEN P ELSE P \cup {e}
    <2>1. \A i \in 1..Len(s) : i..e = (i..Len(s)) \cup {e} /\ i..Len(s) \subseteq 1..Len(s)
        BY <1>1 DEF e
    <2>2. 1..e = (1..Len(s)) \cup {e} /\ e..e = {e}
        BY <1>1 DEF e
    <2> QED BY <1>1, <2>1, <2>2 DEF LinePlaces
<1>3. /\ P \in SUBSET Nat /\ IsFiniteSet(P) /\ Cardinality(P) \in Nat
      /\ \A i \in P : i \in 1..Len(s)
    BY <1>1, LinePlacesFinite
<1>4. /\ Q \in SUBSET Nat /\ IsFiniteSet(Q) /\ Cardinality(Q) \in Nat
    BY <1>1, LinePlacesFinite
<1>5. line = [n \in 1..Cardinality(P) |-> s[Nth(P, n)]]
    BY DEF LineEndingAt
<1>6. longer = [n \in 1..Cardinality(Q) |-> t[Nth(Q, n)]]
    BY DEF LineEndingAt
<1> HIDE DEF P, Q, line, longer
<1>7. \A n \in 1..Cardinality(P) : Nth(P, n) \in P /\ Rank(P, Nth(P, n)) = n
    BY <1>3, NthIs
<1>8. \A n \in 1..Cardinality(P) : s[Nth(P, n)] \in Key /\ t[Nth(P, n)] = s[Nth(P, n)]
    BY <1>1, <1>3, <1>7
<1>9. line \in Seq(Key) /\ Len(line) = Cardinality(P) /\ DOMAIN line = 1..Cardinality(P)
    <2>1. line \in [1..Cardinality(P) -> Key]
        BY <1>5, <1>8
    <2> QED BY <1>3, <2>1, FunctionIsSeq
<1>10. CASE k = "rubout"
    <2>1. Q = P
        BY <1>2, <1>10
    <2>2. longer = line
        BY <1>5, <1>6, <1>8, <2>1
    <2> QED BY <1>1, <1>10, <2>2 DEF Keep, t, e, line, longer
<1>11. CASE k # "rubout"
    <2>1. Q = P \cup {e} /\ e \notin P
        BY <1>1, <1>2, <1>3, <1>11
    <2>2. Cardinality(Q) = Cardinality(P) + 1
        BY <1>3, <2>1, FS_AddElement
    <2>3. ASSUME NEW i \in P PROVE Rank(Q, i) = Rank(P, i)
        <3>1. ~(e <= i)
            BY <1>1, <1>3
        <3>2. {j \in Q : j <= i} = {j \in P : j <= i}
            BY <2>1, <3>1
        <3> QED BY <3>2 DEF Rank
    <2>4. Rank(Q, e) = Cardinality(Q)
        <3>1. \A j \in Q : j <= e
            BY <1>1, <1>3, <2>1
        <3>2. {j \in Q : j <= e} = Q
            BY <3>1
        <3> QED BY <3>2 DEF Rank
    <2>5. ASSUME NEW n \in 1..Cardinality(P) PROVE Nth(Q, n) = Nth(P, n)
        <3>1. n \in 1..Cardinality(Q)
            BY <1>3, <2>2
        <3>2. Nth(P, n) \in Q /\ Rank(Q, Nth(P, n)) = n
            BY <1>7, <2>1, <2>3
        <3>3. \A i \in Q : Rank(Q, i) = n => i = Nth(Q, n)
            BY <1>4, <3>1, NthIs
        <3> QED BY <3>2, <3>3
    <2>6. Nth(Q, Cardinality(Q)) = e
        <3>1. Cardinality(Q) \in 1..Cardinality(Q) /\ e \in Q
            BY <1>3, <2>1, <2>2
        <3> QED BY <1>4, <2>4, <3>1, NthIs
    <2>7. /\ Append(line, k) \in Seq(Key) /\ Len(Append(line, k)) = Cardinality(P) + 1
          /\ Append(line, k)[Cardinality(P) + 1] = k
          /\ \A n \in 1..Cardinality(P) : Append(line, k)[n] = line[n]
        BY <1>9, OneMoreByte
    <2>8. ASSUME NEW n \in 1..(Cardinality(P) + 1)
          PROVE  longer[n] = Append(line, k)[n] /\ longer[n] \in Key
        <3>1. longer[n] = t[Nth(Q, n)]
            BY <1>6, <2>2
        <3>2. CASE n \in 1..Cardinality(P)
            BY <1>5, <1>8, <2>5, <2>7, <3>1, <3>2
        <3>3. CASE n = Cardinality(P) + 1
            BY <1>1, <2>2, <2>6, <2>7, <3>1, <3>3
        <3>4. n \in 1..Cardinality(P) \/ n = Cardinality(P) + 1
            BY <1>3
        <3> QED BY <3>2, <3>3, <3>4
    <2>9. longer \in Seq(Key) /\ Len(longer) = Cardinality(P) + 1
        <3>1. longer \in [1..(Cardinality(P) + 1) -> Key]
            BY <1>6, <2>2, <2>8
        <3> QED BY <1>3, <3>1, FunctionIsSeq
    <2>10. longer = Append(line, k)
        BY <2>7, <2>8, <2>9, SeqEqual
    <2> QED BY <1>1, <1>11, <2>10 DEF Keep, t, e, line, longer
<1> QED BY <1>10, <1>11

-----------------------------------------------------------------------------
(* What one more line says about a menu m.                                 *)

LEMMA EntersGrow ==
    ASSUME NEW s \in Seq(Key), NEW k \in Key
    PROVE  /\ Enters(s) \subseteq 1..Len(s)
           /\ Enters(Append(s, k)) =
                IF k = "enter" THEN Enters(s) \cup {Len(s) + 1} ELSE Enters(s)
<1> DEFINE t == Append(s, k)
<1>1. /\ Len(s) \in Nat /\ DOMAIN s = 1..Len(s) /\ DOMAIN t = 1..(Len(s) + 1)
      /\ t[Len(s) + 1] = k /\ \A i \in 1..Len(s) : t[i] = s[i]
    BY OneMoreByte
<1>2. 1..(Len(s) + 1) = (1..Len(s)) \cup {Len(s) + 1}
    BY <1>1
<1> HIDE DEF t
<1>3. Enters(t) = IF k = "enter" THEN Enters(s) \cup {Len(s) + 1} ELSE Enters(s)
    BY <1>1, <1>2 DEF Enters
<1> QED BY <1>1, <1>3 DEF Enters, t

\* The next byte does not change what a line said.
LEMMA AnswerStays ==
    ASSUME NEW s \in Seq(Key), NEW k \in Key, NEW m, NEW v, NEW i \in Enters(s)
    PROVE  /\ AnswersWith(Append(s, k), m, i, v) <=> AnswersWith(s, m, i, v)
           /\ MustAnswer(Append(s, k), m, i, v) <=> MustAnswer(s, m, i, v)
<1> DEFINE t == Append(s, k)
<1>1. Len(s) \in Nat /\ i \in 1..Len(s)
    BY EntersGrow, OneMoreByte
<1>2. LineEndingAt(t, i) = LineEndingAt(s, i)
    BY <1>1, LineStays
<1>3. (\A j \in Enters(t) : j > m.since => i <= j) <=> (\A j \in Enters(s) : j > m.since => i <= j)
    BY <1>1, EntersGrow
<1> HIDE DEF t
<1>4. AnswersWith(t, m, i, v) <=> AnswersWith(s, m, i, v)
    BY <1>2 DEF AnswersWith
<1>5. MustAnswer(t, m, i, v) <=> MustAnswer(s, m, i, v)
    BY <1>2, <1>3, <1>4 DEF MustAnswer
<1> QED BY <1>4, <1>5 DEF t

\* Nor that no line before it was an answer.
LEMMA UnansweredStays ==
    ASSUME NEW s \in Seq(Key), NEW k \in Key, NEW m, NEW e \in 1..(Len(s) + 1)
    PROVE  Unanswered(Append(s, k), m, e) <=> Unanswered(s, m, e)
<1> DEFINE t == Append(s, k)
<1>1. Len(s) \in Nat /\ e \in Nat /\ ~(Len(s) + 1 < e)
    BY OneMoreByte
<1>2. \A i : i \in Enters(t) /\ i < e <=> i \in Enters(s) /\ i < e
    BY <1>1, EntersGrow
<1>3. \A i \in Enters(s) : \A v : MustAnswer(t, m, i, v) <=> MustAnswer(s, m, i, v)
    BY AnswerStays
<1> HIDE DEF t
<1>4. Unanswered(t, m, e) <=> Unanswered(s, m, e)
    BY <1>2, <1>3 DEF Unanswered
<1> QED BY <1>4 DEF t

\* Nor which line was the first answer.
LEMMA FirstStays ==
    ASSUME NEW s \in Seq(Key), NEW k \in Key, NEW m, NEW v
    PROVE  FirstAnswer(s, m, v) \subseteq FirstAnswer(Append(s, k), m, v)
<1> SUFFICES ASSUME NEW i \in FirstAnswer(s, m, v)
             PROVE  i \in FirstAnswer(Append(s, k), m, v)
    OBVIOUS
<1>1. i \in Enters(s) /\ i > m.since /\ AnswersWith(s, m, i, v) /\ Unanswered(s, m, i)
    BY DEF FirstAnswer
<1>2. i \in Enters(Append(s, k)) /\ i \in 1..(Len(s) + 1)
    BY <1>1, EntersGrow, OneMoreByte
<1>3. AnswersWith(Append(s, k), m, i, v) /\ Unanswered(Append(s, k), m, i)
    BY <1>1, <1>2, AnswerStays, UnansweredStays
<1> QED BY <1>1, <1>2, <1>3 DEF FirstAnswer

\* A menu that has just opened has no answer.
LEMMA NewMenu ==
    ASSUME NEW s \in Seq(Key), NEW m, m.since = Len(s)
    PROVE  Unanswered(s, m, Len(s) + 1) /\ \A j \in Enters(s) : j <= m.since
<1>1. Len(s) \in Nat /\ Enters(s) \subseteq 1..Len(s)
    BY OneMoreByte, EntersGrow, KeyNames
<1> QED BY <1>1 DEF Unanswered

\* A byte that ends no line leaves it open.
LEMMA StaysOpen ==
    ASSUME NEW s \in Seq(Key), NEW k \in Key, k # "enter", NEW m,
           Unanswered(s, m, Len(s) + 1)
    PROVE  Unanswered(Append(s, k), m, Len(s) + 2)
<1> DEFINE t == Append(s, k)
<1>1. Len(s) \in Nat /\ Enters(t) = Enters(s) /\ Enters(s) \subseteq 1..Len(s)
    BY OneMoreByte, EntersGrow
<1>2. Unanswered(t, m, Len(s) + 1)
    BY <1>1, UnansweredStays
<1> HIDE DEF t
<1>3. \A i \in Enters(t) : i < Len(s) + 1
    BY <1>1
<1>4. Unanswered(t, m, Len(s) + 2)
    BY <1>2, <1>3 DEF Unanswered
<1> QED BY <1>4 DEF t

\* A line that has to be no answer leaves it open, and one that may be is a
\* first answer.
LEMMA LineAnswers ==
    ASSUME NEW s \in Seq(Key), NEW m, m.since \in 0..Len(s),
           Unanswered(s, m, Len(s) + 1)
    PROVE  LET t == Append(s, "enter")
               line == LineEndingAt(s, Len(s) + 1)
           IN  /\ Len(s) + 1 \in Enters(t)
               /\ \A v : AnswersWith(t, m, Len(s) + 1, v) <=>
                    /\ v < m.options
                    /\ v \in Numbers(line) \/ (v = 0 /\ line = <<>> /\ m.default)
               /\ \A v : MustAnswer(t, m, Len(s) + 1, v) <=>
                    /\ AnswersWith(t, m, Len(s) + 1, v)
                    /\ line # <<>> \/ \A j \in Enters(s) : j <= m.since
               /\ \A v : AnswersWith(t, m, Len(s) + 1, v)
                            => Len(s) + 1 \in FirstAnswer(t, m, v)
               /\ (\A v \in 0..(m.options - 1) : ~MustAnswer(t, m, Len(s) + 1, v))
                    => Unanswered(t, m, Len(s) + 2)
<1> DEFINE t == Append(s, "enter")
<1> DEFINE line == LineEndingAt(s, Len(s) + 1)
<1>1. "enter" \in Key
    BY KeyNames
<1>2. /\ Len(s) \in Nat /\ Enters(s) \subseteq 1..Len(s)
      /\ Enters(t) = Enters(s) \cup {Len(s) + 1}
    BY <1>1, OneMoreByte, EntersGrow
<1>3. LineEndingAt(t, Len(s) + 1) = line /\ Unanswered(t, m, Len(s) + 1)
    BY <1>1, <1>2, LineStays, UnansweredStays
<1> HIDE DEF t, line
<1>4. (\A j \in Enters(t) : j > m.since => Len(s) + 1 <= j)
         <=> \A j \in Enters(s) : j <= m.since
    BY <1>2
<1>5. \A v : AnswersWith(t, m, Len(s) + 1, v) <=>
        /\ v < m.options
        /\ v \in Numbers(line) \/ (v = 0 /\ line = <<>> /\ m.default)
    BY <1>3 DEF AnswersWith
<1>6. ASSUME NEW v, AnswersWith(t, m, Len(s) + 1, v)
      PROVE  Len(s) + 1 \in FirstAnswer(t, m, v)
    BY <1>2, <1>3, <1>6 DEF FirstAnswer
<1>7. ASSUME \A v \in 0..(m.options - 1) : ~MustAnswer(t, m, Len(s) + 1, v)
      PROVE  Unanswered(t, m, Len(s) + 2)
    <2>1. \A i \in Enters(t) : i < Len(s) + 1 \/ i = Len(s) + 1
        BY <1>2
    <2> QED BY <1>3, <1>7, <2>1 DEF Unanswered
<1>8. \A v : MustAnswer(t, m, Len(s) + 1, v) <=>
        /\ AnswersWith(t, m, Len(s) + 1, v)
        /\ line # <<>> \/ \A j \in Enters(s) : j <= m.since
    BY <1>3, <1>4 DEF MustAnswer
<1> QED BY <1>2, <1>5, <1>6, <1>7, <1>8 DEF t, line

-----------------------------------------------------------------------------
(* The invariant.                                                          *)

\* The menus that may be open: the second one opened with an answer to the first.
OpenMenus ==
    IF prompt = "servers" THEN {ServersMenu}
    ELSE IF servers = 0 THEN {ProvidersMenu(0)}
    ELSE {ProvidersMenu(e) : e \in FirstAnswer(eaten, ServersMenu, 0)}

PromptInv ==
    place = "asking" =>
        /\ chars = LineEndingAt(eaten, Len(eaten) + 1)
        /\ prompt = "servers" => servers > 0
        /\ answers = IF prompt = "providers" /\ servers > 0 THEN <<0>> ELSE <<>>
        /\ \E m \in OpenMenus :
            /\ Unanswered(eaten, m, Len(eaten) + 1)
            /\ attempt = 1 <=> \A j \in Enters(eaten) : j <= m.since

\* The prompt of the open menu shows a default.
ShowsDefault == prompt = "providers" /\ providers = 1

\* What the menus that may be open have in common.
LEMMA OpenMenuIs ==
    ASSUME TypeOK, NEW m \in OpenMenus
    PROVE  /\ m.since \in 0..Len(eaten)
           /\ m.options = Options /\ m.default = ShowsDefault
<1>1. eaten \in Seq(Key) /\ Len(eaten) \in Nat /\ prompt \in {"servers", "providers"}
    BY OneMoreByte, KeyNames DEF TypeOK
<1>2. \A e \in FirstAnswer(eaten, ServersMenu, 0) : e \in 0..Len(eaten)
    BY <1>1, EntersGrow, KeyNames DEF FirstAnswer
<1>3. CASE prompt = "servers"
    <2>1. m.since = 0 /\ m.options = Options /\ m.default = FALSE
        BY <1>3 DEF OpenMenus, ServersMenu, Options
    <2>2. ShowsDefault = FALSE
        BY <1>3 DEF ShowsDefault
    <2>3. m.default = ShowsDefault
        BY <2>1, <2>2, Zenon
    <2> QED BY <1>1, <2>1, <2>3
<1>4. CASE prompt = "providers" /\ servers = 0
    BY <1>1, <1>4 DEF OpenMenus, ProvidersMenu, Options, ShowsDefault
<1>5. CASE prompt = "providers" /\ servers # 0
    BY <1>1, <1>2, <1>5 DEF OpenMenus, ProvidersMenu, Options, ShowsDefault
<1> QED BY <1>1, <1>3, <1>4, <1>5

\* Nothing is no number.
LEMMA NoNumber == Numbers(<<>>) = {}
BY DEF Numbers, IsNumber

\* The option the code selects from the line is one the line answers with, and
\* an answer it has to be is selected.
LEMMA SelectedAnswers ==
    ASSUME TypeOK, PromptInv, place = "asking", NEW m \in OpenMenus,
           Unanswered(eaten, m, Len(eaten) + 1),
           attempt = 1 <=> \A j \in Enters(eaten) : j <= m.since, NEW v
    PROVE  /\ v \in Selected(chars) =>
                AnswersWith(Append(eaten, "enter"), m, Len(eaten) + 1, v)
           /\ v \in 0..(m.options - 1) /\ MustAnswer(Append(eaten, "enter"), m, Len(eaten) + 1, v)
                => v \in Selected(chars)
<1>1. eaten \in Seq(Key) /\ Options \in Nat
    BY DEF TypeOK, Options
<1>2. /\ m.since \in 0..Len(eaten)
      /\ m.options = Options /\ m.default = ShowsDefault
    BY OpenMenuIs
<1>3. chars = LineEndingAt(eaten, Len(eaten) + 1)
    BY DEF PromptInv
<1>4. AnswersWith(Append(eaten, "enter"), m, Len(eaten) + 1, v) <=>
        /\ v < m.options
        /\ v \in Numbers(chars) \/ (v = 0 /\ chars = <<>> /\ ShowsDefault)
    <2>1. m.default <=> ShowsDefault
        BY <1>2
    <2>2. \A n : AnswersWith(Append(eaten, "enter"), m, Len(eaten) + 1, n) <=>
            /\ n < m.options
            /\ \/ n \in Numbers(LineEndingAt(eaten, Len(eaten) + 1))
               \/ n = 0 /\ LineEndingAt(eaten, Len(eaten) + 1) = <<>> /\ m.default
        BY <1>1, <1>2, LineAnswers
    <2> QED BY <1>3, <2>1, <2>2
<1>5. MustAnswer(Append(eaten, "enter"), m, Len(eaten) + 1, v) <=>
        /\ AnswersWith(Append(eaten, "enter"), m, Len(eaten) + 1, v)
        /\ chars # <<>> \/ attempt = 1
    BY <1>1, <1>2, <1>3, LineAnswers
<1>6. v \in Selected(chars) <=>
        /\ v \in 0..(Options - 1)
        /\ v \in Numbers(chars) \/ (v = 0 /\ chars = <<>> /\ ShowsDefault /\ attempt = 1)
    BY NoNumber DEF Selected, HasDefault, ShowsDefault
<1>7. \A n \in 0..(Options - 1) : n < Options
    BY <1>1
<1> QED BY <1>2, <1>4, <1>5, <1>6, <1>7, NoNumber

-----------------------------------------------------------------------------
(* It is kept.                                                             *)

\* While a menu is open, the invariant says what the property says.
LEMMA AskingIsRead == TypeOK /\ PromptInv /\ place = "asking" => SelectionsAreRead
<1> SUFFICES ASSUME TypeOK, PromptInv, place = "asking"
             PROVE  SelectionsAreRead
    OBVIOUS
<1>1. servers \in Nat /\ prompt \in {"servers", "providers"}
    BY DEF TypeOK
<1>2. /\ prompt = "servers" => servers > 0
      /\ answers = IF prompt = "providers" /\ servers > 0 THEN <<0>> ELSE <<>>
      /\ \E m \in OpenMenus : Unanswered(eaten, m, Len(eaten) + 1)
    BY DEF PromptInv
<1>3. CASE prompt = "servers"
    BY <1>1, <1>2, <1>3 DEF OpenMenus, SelectionsAreRead, Open
<1>4. CASE prompt = "providers" /\ servers = 0
    BY <1>1, <1>2, <1>4 DEF OpenMenus, SelectionsAreRead, Open
<1>5. CASE prompt = "providers" /\ servers > 0
    <2>1. PICK e \in FirstAnswer(eaten, ServersMenu, 0) :
                Unanswered(eaten, ProvidersMenu(e), Len(eaten) + 1)
        BY <1>2, <1>5 DEF OpenMenus
    <2>2. answers = <<0>> /\ Len(answers) = 1 /\ answers[1] = 0
        BY <1>2, <1>5
    <2> QED BY <1>5, <2>1, <2>2 DEF SelectionsAreRead, Open
<1> QED BY <1>1, <1>3, <1>4, <1>5

\* A step that ends the prompts without a selection.
LEMMA StoppedIsRead ==
    ASSUME TypeOK, PromptInv, NEW k \in Key, Take(k), place' = "over", answers' = answers
    PROVE  PromptInv' /\ SelectionsAreRead'
<1>1. servers \in Nat /\ prompt \in {"servers", "providers"} /\ eaten \in Seq(Key)
    BY DEF TypeOK
<1>2. place = "asking" /\ servers' = servers /\ providers' = providers /\ eaten' = Append(eaten, k)
    BY DEF Take, menuVars
<1>3. answers = <<>> \/ /\ Len(answers) = 1 /\ answers[1] = 0 /\ servers > 0
                        /\ FirstAnswer(eaten, ServersMenu, 0) # {}
    BY <1>1, <1>2 DEF PromptInv, OpenMenus
<1>4. FirstAnswer(eaten, ServersMenu, 0) \subseteq FirstAnswer(eaten', ServersMenu', 0)
    BY <1>1, <1>2, FirstStays DEF ServersMenu
<1>5. place' # "asking"
    OBVIOUS
<1>6. answers = <<>> => SelectionsAreRead'
    BY <1>5 DEF SelectionsAreRead, Open
<1>7. ASSUME Len(answers) = 1, answers[1] = 0, servers > 0,
             FirstAnswer(eaten, ServersMenu, 0) # {}
      PROVE  SelectionsAreRead'
    <2>1. PICK e : e \in FirstAnswer(eaten', ServersMenu', 0)
        BY <1>4, <1>7
    <2>2. servers' > 0 /\ Len(answers') = 1 /\ answers'[1] = 0
        BY <1>2, <1>7
    <2> QED BY <1>5, <2>1, <2>2 DEF SelectionsAreRead, Open
<1> QED BY <1>3, <1>5, <1>6, <1>7 DEF PromptInv

\* A step that reads nothing, and opens no menu.
LEMMA NothingRead ==
    ASSUME PromptInv, SelectionsAreRead, UNCHANGED <<menuVars, promptVars>>,
           place' = "asking" => place = "asking"
    PROVE  PromptInv' /\ SelectionsAreRead'
BY DEF PromptInv, OpenMenus, SelectionsAreRead, Open, ServersMenu, ProvidersMenu,
       menuVars, promptVars, FirstAnswer, AnswersWith, MustAnswer, Unanswered

\* The byte joins the line, and the menu stays open.
LEMMA ByteIsRead ==
    ASSUME TypeOK, TypeOK', PromptInv, NEW k \in Key, ReadByte(k)
    PROVE  PromptInv' /\ SelectionsAreRead'
<1>1. /\ servers \in Nat /\ prompt \in {"servers", "providers"}
      /\ eaten \in Seq(Key) /\ Len(eaten) \in Nat
    BY OneMoreByte, KeyNames DEF TypeOK
<1>2. /\ place = "asking" /\ k # "enter"
      /\ servers' = servers /\ providers' = providers /\ eaten' = Append(eaten, k)
      /\ chars' = Keep(chars, k)
      /\ place' = place /\ prompt' = prompt /\ attempt' = attempt /\ answers' = answers
    BY DEF ReadByte, Take, menuVars
<1>3. Len(eaten') = Len(eaten) + 1 /\ Len(eaten') + 1 = Len(eaten) + 2
    BY <1>1, <1>2, OneMoreByte
<1>4. chars' = LineEndingAt(eaten', Len(eaten') + 1)
    BY <1>1, <1>2, <1>3, LineGrows DEF PromptInv
<1>5. OpenMenus \subseteq OpenMenus'
    <2>1. FirstAnswer(eaten, ServersMenu, 0) \subseteq FirstAnswer(eaten', ServersMenu, 0)
        BY <1>1, <1>2, FirstStays
    <2> QED BY <1>2, <2>1 DEF OpenMenus, ServersMenu, ProvidersMenu
<1>6. PICK m \in OpenMenus :
        /\ Unanswered(eaten, m, Len(eaten) + 1)
        /\ attempt = 1 <=> \A j \in Enters(eaten) : j <= m.since
    BY <1>2 DEF PromptInv
<1>7. Unanswered(eaten', m, Len(eaten') + 1) /\ Enters(eaten') = Enters(eaten)
    BY <1>1, <1>2, <1>3, <1>6, StaysOpen, EntersGrow
<1>8. /\ prompt' = "servers" => servers' > 0
      /\ answers' = IF prompt' = "providers" /\ servers' > 0 THEN <<0>> ELSE <<>>
    BY <1>2 DEF PromptInv
<1>9. PromptInv'
    BY <1>2, <1>4, <1>5, <1>6, <1>7, <1>8 DEF PromptInv
<1>10. (TypeOK /\ PromptInv /\ place = "asking" => SelectionsAreRead)'
    BY AskingIsRead, PTL
<1> QED BY <1>2, <1>9, <1>10

\* The line is no answer: the menu stays open, unless Python's limit is reached.
LEMMA ChooseAgainIsRead ==
    ASSUME TypeOK, TypeOK', PromptInv, ChooseAgain
    PROVE  PromptInv' /\ SelectionsAreRead'
<1> DEFINE k == "enter"
<1>1. /\ servers \in Nat /\ prompt \in {"servers", "providers"} /\ attempt \in Nat \ {0}
      /\ eaten \in Seq(Key) /\ Len(eaten) \in Nat /\ k \in Key
    <2>1. attempt \in Nat \ {0}
        BY TerminalAssumption DEF TypeOK
    <2>2. k \in Key /\ eaten \in Seq(Key)
        BY KeyNames DEF TypeOK
    <2>3. Len(eaten) \in Nat
        BY <2>2, OneMoreByte
    <2> QED BY <2>1, <2>2, <2>3 DEF TypeOK
<1>2. /\ Take(k) /\ place = "asking"
      /\ servers' = servers /\ providers' = providers /\ eaten' = Append(eaten, k)
      /\ chars' = <<>> /\ Selected(chars) = {}
      /\ prompt' = prompt /\ answers' = answers
    BY DEF ChooseAgain, Take, menuVars
<1>3. CASE place' = "over"
    BY <1>1, <1>2, <1>3, StoppedIsRead
<1>4. CASE place' = place /\ attempt' = attempt + 1
    <2>1. Len(eaten') = Len(eaten) + 1 /\ Len(eaten') + 1 = Len(eaten) + 2
        BY <1>1, <1>2, OneMoreByte
    <2>2. chars' = LineEndingAt(eaten', Len(eaten') + 1)
        BY <1>1, <1>2, <2>1, LineOver
    <2>3. OpenMenus \subseteq OpenMenus'
        <3>1. FirstAnswer(eaten, ServersMenu, 0) \subseteq FirstAnswer(eaten', ServersMenu, 0)
            BY <1>1, <1>2, FirstStays
        <3> QED BY <1>2, <3>1 DEF OpenMenus, ServersMenu, ProvidersMenu
    <2>4. PICK m \in OpenMenus :
            /\ Unanswered(eaten, m, Len(eaten) + 1)
            /\ attempt = 1 <=> \A j \in Enters(eaten) : j <= m.since
        BY <1>2 DEF PromptInv
    <2>5. m.since \in 0..Len(eaten)
        BY OpenMenuIs
    <2>6. \A v \in 0..(m.options - 1) : ~MustAnswer(eaten', m, Len(eaten) + 1, v)
        BY <1>2, <2>4, SelectedAnswers
    <2>7. Unanswered(eaten', m, Len(eaten') + 1) /\ Len(eaten) + 1 \in Enters(eaten')
        BY <1>1, <1>2, <2>1, <2>4, <2>5, <2>6, LineAnswers
    <2>8. attempt' # 1 /\ ~(Len(eaten) + 1 <= m.since)
        BY <1>1, <1>4, <2>5
    <2>9. /\ prompt' = "servers" => servers' > 0
          /\ answers' = IF prompt' = "providers" /\ servers' > 0 THEN <<0>> ELSE <<>>
        BY <1>2 DEF PromptInv
    <2>10. PromptInv'
        BY <1>2, <1>4, <2>2, <2>3, <2>4, <2>7, <2>8, <2>9 DEF PromptInv
    <2>11. (TypeOK /\ PromptInv /\ place = "asking" => SelectionsAreRead)'
        BY AskingIsRead, PTL
    <2> QED BY <1>2, <1>4, <2>10, <2>11
<1> QED BY <1>3, <1>4 DEF ChooseAgain

\* The line is the first answer to the open menu.
LEMMA SelectIsRead ==
    ASSUME TypeOK, TypeOK', PromptInv, NEW n, Select(n)
    PROVE  PromptInv' /\ SelectionsAreRead'
<1> DEFINE k == "enter"
<1> DEFINE here == Len(eaten) + 1
<1>1. /\ servers \in Nat /\ prompt \in {"servers", "providers"}
      /\ eaten \in Seq(Key) /\ Len(eaten) \in Nat /\ k \in Key
    BY OneMoreByte, KeyNames DEF TypeOK
<1>2. /\ Take(k) /\ place = "asking" /\ n \in Selected(chars)
      /\ servers' = servers /\ providers' = providers /\ eaten' = Append(eaten, k)
      /\ chars' = <<>> /\ answers' = Append(answers, n)
    BY DEF Select, Take, menuVars
<1>3. Len(eaten') = here
    BY <1>1, <1>2, OneMoreByte
<1>4. PICK m \in OpenMenus :
        /\ Unanswered(eaten, m, Len(eaten) + 1)
        /\ attempt = 1 <=> \A j \in Enters(eaten) : j <= m.since
    BY <1>2 DEF PromptInv
<1>5. m.since \in 0..Len(eaten)
    BY OpenMenuIs
<1>6. AnswersWith(eaten', m, here, n)
    BY <1>2, <1>4, SelectedAnswers
<1>7. here \in FirstAnswer(eaten', m, n)
    BY <1>1, <1>2, <1>4, <1>5, <1>6, LineAnswers
<1>8. /\ prompt = "servers" => servers > 0
      /\ answers = IF prompt = "providers" /\ servers > 0 THEN <<0>> ELSE <<>>
    BY <1>2 DEF PromptInv
<1>9. ServersMenu' = ServersMenu /\ \A e : ProvidersMenu(e)' = ProvidersMenu(e)
    BY <1>2 DEF ServersMenu, ProvidersMenu
<1> HIDE DEF k, here
<1>10. CASE prompt = "servers" /\ n = 0 /\ place' = "asking"
    <2>1. /\ m = ServersMenu /\ servers > 0 /\ answers' = <<0>>
          /\ prompt' = "providers" /\ attempt' = 1
        BY <1>1, <1>2, <1>8, <1>10 DEF OpenMenus, Select
    <2>2. chars' = LineEndingAt(eaten', Len(eaten') + 1)
        <3>1. here + 1 = Len(eaten) + 2
            BY <1>1 DEF here
        <3> QED BY <1>1, <1>2, <1>3, <3>1, LineOver DEF k
    <2>3. ProvidersMenu(here) \in OpenMenus'
        <3>1. here \in FirstAnswer(eaten', ServersMenu', 0)
            BY <1>7, <1>9, <1>10, <2>1
        <3>2. OpenMenus' = {ProvidersMenu(e)' : e \in FirstAnswer(eaten', ServersMenu', 0)}
            BY <1>1, <1>2, <2>1 DEF OpenMenus
        <3> QED BY <1>9, <3>1, <3>2
    <2>4. ProvidersMenu(here).since = Len(eaten')
        BY <1>3 DEF ProvidersMenu
    <2>5. /\ Unanswered(eaten', ProvidersMenu(here), Len(eaten') + 1)
          /\ \A j \in Enters(eaten') : j <= ProvidersMenu(here).since
        BY <2>4, NewMenu DEF TypeOK
    <2>6. PromptInv'
        BY <1>1, <1>2, <2>1, <2>2, <2>3, <2>5 DEF PromptInv
    <2>7. (TypeOK /\ PromptInv /\ place = "asking" => SelectionsAreRead)'
        BY AskingIsRead, PTL
    <2> QED BY <1>10, <2>6, <2>7
<1>11. CASE prompt = "servers" /\ ~(n = 0 /\ place' = "asking")
    <2>1. m = ServersMenu /\ servers' > 0 /\ answers' = <<n>> /\ place' # "asking"
        BY <1>1, <1>2, <1>8, <1>11 DEF OpenMenus, Select
    <2>2. here \in FirstAnswer(eaten', ServersMenu', answers'[1]) /\ Len(answers') = 1
        BY <1>7, <1>9, <2>1
    <2>3. SelectionsAreRead'
        BY <2>1, <2>2 DEF SelectionsAreRead, Open
    <2> QED BY <2>1, <2>3 DEF PromptInv
<1>12. CASE prompt = "providers" /\ servers = 0
    <2>1. m = ProvidersMenu(0) /\ servers' = 0 /\ answers' = <<n>> /\ place' # "asking"
        BY <1>1, <1>2, <1>8, <1>12 DEF OpenMenus, Select
    <2>2. /\ Len(eaten') \in FirstAnswer(eaten', ProvidersMenu(0)', answers'[1])
          /\ Len(answers') = 1
        BY <1>3, <1>7, <1>9, <2>1
    <2>3. SelectionsAreRead'
        BY <2>1, <2>2 DEF SelectionsAreRead
    <2> QED BY <2>1, <2>3 DEF PromptInv
<1>13. CASE prompt = "providers" /\ servers > 0
    <2>1. /\ servers' > 0 /\ place' # "asking"
          /\ Len(answers') = 2 /\ answers'[1] = 0 /\ answers'[2] = n
        <3>1. answers = <<0>> /\ place' # "asking"
            BY <1>1, <1>8, <1>13 DEF Select
        <3>2. n \in Int /\ <<0>> \in Seq(Int)
            BY <1>2 DEF Selected
        <3>3. LET two == Append(<<0>>, n)
              IN  Len(two) = 2 /\ two[1] = 0 /\ two[2] = n
            BY <3>2, OneMoreByte
        <3> QED BY <1>2, <1>13, <3>1, <3>3
    <2>2. PICK e \in FirstAnswer(eaten, ServersMenu, 0) : m = ProvidersMenu(e)
        BY <1>13 DEF OpenMenus
    <2>3. e \in FirstAnswer(eaten', ServersMenu', 0)
        BY <1>1, <1>2, <1>9, FirstStays
    <2>4. Len(eaten') \in FirstAnswer(eaten', ProvidersMenu(e)', n)
        BY <1>3, <1>7, <1>9, <2>2
    <2>5. SelectionsAreRead'
        BY <2>1, <2>3, <2>4 DEF SelectionsAreRead
    <2> QED BY <2>1, <2>5 DEF PromptInv
<1> QED BY <1>1, <1>10, <1>11, <1>12, <1>13

-----------------------------------------------------------------------------

\* The first menu is open when the session begins.
LEMMA InitPromptInv == Init => PromptInv
<1> SUFFICES ASSUME Init, place = "asking" PROVE PromptInv
    BY DEF PromptInv
<1>1. TypeOK
    BY InitTermInv DEF TermInv
<1>2. eaten = <<>> /\ Len(eaten) = 0 /\ chars = <<>> /\ attempt = 1 /\ answers = <<>>
    BY DEF Init
<1>3. servers \in Nat /\ prompt = (IF servers = 0 THEN "providers" ELSE "servers")
    BY DEF Init, TypeOK
<1>4. LineEndingAt(eaten, Len(eaten) + 1) = <<>>
    <2>1. LinePlaces(eaten, 1) = {}
        BY DEF LinePlaces
    <2>2. LineEndingAt(eaten, 1) = [i \in 1..0 |-> eaten[Nth({}, i)]]
        BY <2>1, FS_EmptySet DEF LineEndingAt
    <2> QED BY <1>2, <2>2
<1>5. PICK m \in OpenMenus : m.since = Len(eaten)
    BY <1>2, <1>3 DEF OpenMenus, ServersMenu, ProvidersMenu
<1>6. Unanswered(eaten, m, Len(eaten) + 1) /\ \A j \in Enters(eaten) : j <= m.since
    BY <1>1, <1>5, NewMenu DEF TypeOK
<1>7. /\ prompt = "servers" => servers > 0
      /\ answers = IF prompt = "providers" /\ servers > 0 THEN <<0>> ELSE <<>>
    BY <1>2, <1>3
<1> QED BY <1>2, <1>4, <1>6, <1>7 DEF PromptInv

\* Every step of the session keeps it, and the steps of the others read nothing.
LEMMA NextPromptInv ==
    ASSUME TypeOK, TypeOK', PromptInv, SelectionsAreRead, [Next]_vars
    PROVE  PromptInv' /\ SelectionsAreRead'
<1>1. ASSUME NEW k \in Key, ReadByte(k) PROVE PromptInv' /\ SelectionsAreRead'
    BY <1>1, ByteIsRead
<1>2. CASE Cancel
    <2>1. "cancel" \in Key /\ Take("cancel") /\ place' = "over" /\ answers' = answers
        BY <1>2, KeyNames DEF Cancel
    <2> QED BY <2>1, StoppedIsRead
<1>3. CASE NotDecoded
    <2>1. "enter" \in Key /\ Take("enter") /\ place' = "over" /\ answers' = answers
        BY <1>3, KeyNames DEF NotDecoded
    <2> QED BY <2>1, StoppedIsRead
<1>4. ASSUME NEW n, Select(n) PROVE PromptInv' /\ SelectionsAreRead'
    BY <1>4, SelectIsRead
<1>5. CASE ChooseAgain
    BY <1>5, ChooseAgainIsRead
<1>6. CASE StartProxy \/ NoServer \/ Poll \/ CopyOutput \/ ReceiveInput \/ NothingToDo \/ Write
    <2>1. UNCHANGED <<menuVars, promptVars>> /\ place' # "asking"
        BY <1>6 DEF StartProxy, NoServer, Poll, CopyOutput, ReceiveInput, NothingToDo, Write
    <2> QED BY <2>1, NothingRead
<1>7. CASE User \/ SshReads \/ SshPrints \/ SshExits \/ UNCHANGED vars
    <2>1. UNCHANGED <<menuVars, promptVars>> /\ place' = place
        BY <1>7 DEF User, Type, SshReads, SshPrints, SshExits, vars
    <2> QED BY <2>1, NothingRead
<1> QED BY <1>1, <1>2, <1>3, <1>4, <1>5, <1>6, <1>7 DEF Next, SessionStep

\* What is selected is what the lines say, in every behaviour: for any number of
\* options and any bytes, typed ahead or not.
THEOREM SelectionsAreReadHolds == Spec => []SelectionsAreRead
<1> DEFINE Inv == TypeOK /\ PromptInv /\ SelectionsAreRead
<1>1. Init => Inv
    <2>1. Init => TypeOK /\ PromptInv
        BY InitTermInv, InitPromptInv DEF TermInv
    <2>2. Init /\ place # "asking" => SelectionsAreRead
        BY DEF Init, SelectionsAreRead, Open
    <2> QED BY <2>1, <2>2, AskingIsRead
<1>2. Inv /\ TypeOK' /\ [Next]_vars => Inv'
    BY NextPromptInv
<1>3. Spec => []TypeOK
    BY TerminalTyped
<1> QED BY <1>1, <1>2, <1>3, PTL DEF Spec
=============================================================================
