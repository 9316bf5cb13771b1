-------------------------- MODULE SSEHttpClientProofs --------------------------
(***************************************************************************)
(* Proofs about the test client and the parser it reads with, for any      *)
(* streams, cut into any chunks.                                           *)
(***************************************************************************)
EXTENDS SSEHttpClient, FiniteSetTheorems, SequenceTheorems, TLAPS

-----------------------------------------------------------------------------
(* Induction over data.                                                    *)

(* The least counterexample: a set of numbers that has 0 and, with each    *)
(* number, the next one has them all.  Strict inclusion of the sets 0 .. n *)
(* is well-founded.                                                        *)
LEMMA AllNumbers ==
    ASSUME NEW S \in SUBSET Nat, 0 \in S, \A n \in S : n + 1 \in S
    PROVE  S = Nat
<1> SUFFICES ASSUME Nat \ S # {}
             PROVE  FALSE
    OBVIOUS
<1> DEFINE T == {0 .. n : n \in Nat \ S}
<1>1. T \subseteq FiniteSubsetsOf(Nat) /\ T # {}
  <2>1. \A n \in Nat : 0 .. n \in SUBSET Nat /\ IsFiniteSet(0 .. n)
    BY FS_Interval
  <2> QED
    BY <2>1 DEF FiniteSubsetsOf
<1>2. PICK x \in T : \A y \in T : <<y, x>> \notin StrictSubsetOrdering(Nat)
    BY <1>1, FS_StrictSubsetOrderingWellFounded, WFMin
<1>3. PICK n \in Nat \ S : x = 0 .. n
    OBVIOUS
<1>4. n # 0 /\ n - 1 \in Nat /\ n - 1 \notin S
    OBVIOUS
<1>5. 0 .. n - 1 \subseteq 0 .. n /\ n \in 0 .. n /\ n \notin 0 .. n - 1
    OBVIOUS
<1>6. <<0 .. n - 1, 0 .. n>> \in StrictSubsetOrdering(Nat)
    BY <1>5 DEF StrictSubsetOrdering
<1>7. 0 .. n - 1 \in T
    BY <1>4
<1> QED
    BY <1>2, <1>3, <1>6, <1>7

(* A loop over the elements of a sequence has a state after each of them,  *)
(* of the type its turns keep.                                             *)
LEMMA LoopRuns ==
    ASSUME NEW S, NEW s0 \in S, NEW n \in Nat, NEW turn \in [1 .. n -> [S -> S]]
    PROVE  \E f \in [0 .. n -> S] :
              f[0] = s0 /\ \A k \in 1 .. n : f[k] = turn[k][f[k - 1]]
<1> DEFINE Runs(m, f) == /\ f \in [0 .. m -> S] /\ f[0] = s0
                         /\ \A k \in 1 .. m : f[k] = turn[k][f[k - 1]]
           Good == {m \in Nat : m <= n => \E f : Runs(m, f)}
<1>1. 0 \in Good
  <2>1. Runs(0, [k \in 0 .. 0 |-> s0])
    OBVIOUS
  <2> QED
    BY <2>1
<1>2. ASSUME NEW m \in Good
      PROVE  m + 1 \in Good
  <2> HIDE DEF Runs
  <2> SUFFICES ASSUME m + 1 <= n
               PROVE  \E f : Runs(m + 1, f)
    OBVIOUS
  <2>1. PICK f : Runs(m, f)
    <3>1. m \in Nat /\ m <= n
      OBVIOUS
    <3> QED
      BY <3>1
  <2> USE DEF Runs
  <2> DEFINE g == [k \in 0 .. m + 1 |-> IF k = m + 1 THEN turn[m + 1][f[m]] ELSE f[k]]
  <2>2. m \in 0 .. m /\ m + 1 \in 1 .. n
    OBVIOUS
  <2>3. f[m] \in S /\ turn[m + 1][f[m]] \in S
    <3>1. f[m] \in S /\ turn[m + 1] \in [S -> S]
      BY <2>1, <2>2
    <3> QED
      BY <3>1
  <2>4. \A k \in 0 .. m : g[k] = f[k] /\ k \in 0 .. m + 1
    OBVIOUS
  <2>5. g[m + 1] = turn[m + 1][f[m]]
    OBVIOUS
  <2>6. g \in [0 .. m + 1 -> S]
    BY <2>1, <2>3
  <2> HIDE DEF g
  <2>7. \A k \in 1 .. m + 1 : g[k] = turn[k][g[k - 1]]
    <3> SUFFICES ASSUME NEW k \in 1 .. m + 1
                 PROVE  g[k] = turn[k][g[k - 1]]
      OBVIOUS
    <3>1. CASE k = m + 1
      BY <2>4, <2>5, <3>1
    <3>2. CASE k # m + 1
      <4>1. k \in 1 .. m /\ k \in 0 .. m /\ k - 1 \in 0 .. m
        BY <3>2
      <4> QED
        BY <2>1, <2>4, <4>1
    <3> QED
      BY <3>1, <3>2
  <2>8. Runs(m + 1, g)
    BY <2>1, <2>4, <2>6, <2>7
  <2> QED
    BY <2>8
<1> HIDE DEF Good
<1>3. n \in Good
    BY <1>1, <1>2, AllNumbers DEF Good
<1>4. PICK f : Runs(n, f)
    BY <1>3 DEF Good
<1> QED
    BY <1>4

(* What a loop starts with and every turn keeps, it has at the end.        *)
LEMMA LoopKeeps ==
    ASSUME NEW S, NEW f, NEW n \in Nat, f[0] \in S,
           \A k \in 1 .. n : f[k - 1] \in S => f[k] \in S
    PROVE  \A k \in 0 .. n : f[k] \in S
<1> DEFINE Good == {m \in Nat : m <= n => f[m] \in S}
<1>1. 0 \in Good
    OBVIOUS
<1>2. ASSUME NEW m \in Good
      PROVE  m + 1 \in Good
  <2> SUFFICES ASSUME m + 1 <= n
               PROVE  f[m + 1] \in S
    OBVIOUS
  <2>1. f[m] \in S /\ m + 1 \in 1 .. n /\ (m + 1) - 1 = m
    OBVIOUS
  <2> QED
    BY <2>1
<1> HIDE DEF Good
<1>3. Good = Nat
    BY <1>1, <1>2, AllNumbers DEF Good
<1> QED
    BY <1>3 DEF Good

-----------------------------------------------------------------------------
(* What the parser returns.                                                *)

Text == Seq(Characters)
ParsedEvent == [event : Text, data : Seq(Text)]
LoopState == [event : Text, data : Seq(Text), events : Seq(ParsedEvent),
              position : Nat, end : Nat]

(* A text has as its next state, character by character, what is split off. *)
LineAfter(lines, c) ==
    IF c = NewLine THEN Append(lines, << >>)
    ELSE [lines EXCEPT ![Len(lines)] = Append(@, c)]

SomeLines == Seq(Text) \ {<< >>}

(* One character more.                                                     *)
LEMMA LineAfterIs ==
    ASSUME NEW before \in SomeLines, NEW c \in Characters
    PROVE  LineAfter(before, c) \in SomeLines
<1>1. before \in Seq(Text) /\ Len(before) \in Nat /\ Len(before) # 0
    BY DEF SomeLines
<1>2. CASE c = NewLine
  <2>1. << >> \in Text
    BY DEF Text
  <2> QED
    BY <1>1, <1>2, <2>1, AppendProperties DEF LineAfter, SomeLines
<1>3. CASE c # NewLine
  <2>1. before[Len(before)] \in Seq(Characters)
    BY <1>1 DEF Text
  <2>2. Append(before[Len(before)], c) \in Text
    BY <2>1 DEF Text
  <2>3. [before EXCEPT ![Len(before)] = Append(@, c)] \in Seq(Text)
    BY <1>1, <2>2
  <2>4. Len([before EXCEPT ![Len(before)] = Append(@, c)]) = Len(before)
    BY <1>1, <2>3
  <2> QED
    BY <1>1, <1>3, <2>3, <2>4 DEF LineAfter, SomeLines
<1> QED
    BY <1>2, <1>3

(* Splitting has a state after each character.                             *)
LEMMA LinesAre ==
    ASSUME NEW text \in Text
    PROVE  \E f : /\ f \in [0 .. Len(text) -> SomeLines] /\ f[0] = << << >> >>
                  /\ \A i \in 1 .. Len(text) : f[i] = LineAfter(f[i - 1], text[i])
                  /\ Lines(text) = f[Len(text)]
<1> DEFINE n == Len(text)
           s0 == << << >> >>
           turn == [i \in 1 .. n |-> [before \in SomeLines |-> LineAfter(before, text[i])]]
           Body(f) == [i \in 0 .. n |-> IF i = 0 THEN s0 ELSE LineAfter(f[i - 1], text[i])]
<1>1. n \in Nat /\ \A i \in 1 .. n : text[i] \in Characters
    BY DEF Text
<1>2. s0 \in SomeLines
    BY DEF Text, SomeLines
<1>3. turn \in [1 .. n -> [SomeLines -> SomeLines]]
    BY <1>1, LineAfterIs
<1>4. \A i \in 1 .. n, before \in SomeLines : turn[i][before] = LineAfter(before, text[i])
    OBVIOUS
<1> DEFINE split == CHOOSE f : f = Body(f)
<1>5. Lines(text) = split[n]
    BY DEF Lines, LineAfter
<1> HIDE DEF n, s0, turn, Body
<1> HIDE DEF split
<1>6. PICK f \in [0 .. n -> SomeLines] :
            f[0] = s0 /\ \A k \in 1 .. n : f[k] = turn[k][f[k - 1]]
  <2>1. n \in Nat
    BY <1>1
  <2> QED
    BY ONLY <1>2, <1>3, <2>1, LoopRuns
<1>7. \A k \in 1 .. n : k - 1 \in 0 .. n
    BY <1>1
<1>8. \A k \in 1 .. n : f[k] = LineAfter(f[k - 1], text[k])
    BY <1>4, <1>6, <1>7
<1>9. f = Body(f)
  <2>1. \A i \in 0 .. n : f[i] = IF i = 0 THEN s0 ELSE LineAfter(f[i - 1], text[i])
    BY <1>1, <1>6, <1>8
  <2> QED
    BY <1>6, <2>1 DEF Body
<1>10. split = Body(split)
    BY <1>9 DEF split
<1>11. /\ split \in [0 .. n -> SomeLines] /\ split[0] = s0
       /\ \A i \in 1 .. n : split[i] = LineAfter(split[i - 1], text[i])
  <2>1. split = [i \in 0 .. n |-> IF i = 0 THEN s0 ELSE LineAfter(split[i - 1], text[i])]
    BY <1>10 DEF Body
  <2>2. split[0] = s0 /\ \A i \in 1 .. n : split[i] = LineAfter(split[i - 1], text[i])
    BY ONLY <1>1, <2>1
  <2>3. split[0] \in SomeLines
    BY <1>2, <2>2
  <2>4. \A i \in 1 .. n : split[i - 1] \in SomeLines => split[i] \in SomeLines
    BY <1>1, <2>2, LineAfterIs
  <2>5. \A i \in 0 .. n : split[i] \in SomeLines
    BY <1>1, <2>3, <2>4, LoopKeeps
  <2>6. DOMAIN split = 0 .. n
    BY ONLY <2>1
  <2>7. split = [i \in 0 .. n |-> split[i]]
    BY ONLY <2>1, <2>6
  <2> QED
    BY <2>2, <2>5, <2>7
<1> QED
    BY <1>5, <1>11 DEF n, s0

(* One turn of the loop.                                                   *)
LEMMA TurnKeepsTypes ==
    ASSUME NEW s \in LoopState, NEW line \in Text
    PROVE  ParseSSELine(s, line) \in LoopState
<1> DEFINE at == s.position + Len(line) + 1
           t == [s EXCEPT !.position = at]
<1>1. Len(line) \in Nat /\ at \in Nat
    BY DEF LoopState, Text
<1> HIDE DEF at
<1>2. /\ t \in LoopState
      /\ t.event = s.event /\ t.data = s.data /\ t.events = s.events /\ t.end = s.end
    BY <1>1 DEF LoopState
<1> HIDE DEF t
<1>3. CASE Is(Event, line)
  <2>1. Tail(line) \in Text
    BY <1>3 DEF Is, Blank, Text
  <2>2. ParseSSELine(s, line) = [t EXCEPT !.event = Tail(line)]
    BY <1>3 DEF ParseSSELine, t, at
  <2> QED
    BY <1>2, <2>1, <2>2 DEF LoopState
<1>4. CASE ~Is(Event, line) /\ Is(Data, line)
  <2>1. Tail(line) \in Text
    BY <1>4 DEF Is, Blank, Text
  <2>2. Append(t.data, Tail(line)) \in Seq(Text)
    BY <1>2, <2>1, AppendProperties DEF LoopState
  <2>3. ParseSSELine(s, line) = [t EXCEPT !.data = Append(@, Tail(line))]
    BY <1>4 DEF ParseSSELine, t, at
  <2> QED
    BY <1>2, <2>2, <2>3 DEF LoopState
<1>5. CASE ~Is(Event, line) /\ ~Is(Data, line) /\ Blank(line) /\ s.data # << >>
  <2>1. Complete(t) \in ParsedEvent
    BY <1>2 DEF Complete, LoopState, ParsedEvent
  <2>2. Append(t.events, Complete(t)) \in Seq(ParsedEvent)
    BY <1>2, <2>1, AppendProperties DEF LoopState
  <2>3. NoField \in Text /\ << >> \in Seq(Text)
    BY DEF NoField, Text
  <2>4. ParseSSELine(s, line) = [t EXCEPT !.events = Append(@, Complete(s)), !.event = NoField,
                                          !.data = << >>, !.end = at]
    BY <1>5 DEF ParseSSELine, t, at
  <2>5. Complete(t) = Complete(s)
    BY <1>2 DEF Complete
  <2> QED
    BY <1>1, <1>2, <2>2, <2>3, <2>4, <2>5 DEF LoopState
<1>6. CASE ~Is(Event, line) /\ ~Is(Data, line) /\ ~(Blank(line) /\ s.data # << >>)
  <2>1. ParseSSELine(s, line) = t
    BY <1>6 DEF ParseSSELine, t, at
  <2> QED
    BY <1>2, <2>1
<1> QED
    BY <1>3, <1>4, <1>5, <1>6

(* The loop has a state after each line.                                   *)
LEMMA TurnsAre ==
    ASSUME NEW lines \in Seq(Text)
    PROVE  \E f : /\ f \in [0 .. Len(lines) -> LoopState] /\ f[0] = Start
                  /\ \A k \in 1 .. Len(lines) : f[k] = ParseSSELine(f[k - 1], lines[k])
                  /\ Turns(lines) = f[Len(lines)]
<1> DEFINE n == Len(lines)
           turn == [k \in 1 .. n |-> [s \in LoopState |-> ParseSSELine(s, lines[k])]]
           Body(f) == [k \in 0 .. n |->
                          IF k = 0 THEN Start ELSE ParseSSELine(f[k - 1], lines[k])]
<1>1. n \in Nat /\ \A k \in 1 .. n : lines[k] \in Text
    OBVIOUS
<1>2. Start \in LoopState
    BY DEF Start, LoopState, NoField, Text
<1>3. turn \in [1 .. n -> [LoopState -> LoopState]]
    BY <1>1, TurnKeepsTypes
<1>4. \A k \in 1 .. n, s \in LoopState : turn[k][s] = ParseSSELine(s, lines[k])
    OBVIOUS
<1> DEFINE after == CHOOSE f : f = Body(f)
<1>5. Turns(lines) = after[n]
    BY DEF Turns
<1> HIDE DEF n, turn, Body
<1> HIDE DEF after
<1>6. PICK f \in [0 .. n -> LoopState] :
            f[0] = Start /\ \A k \in 1 .. n : f[k] = turn[k][f[k - 1]]
  <2>1. n \in Nat
    BY <1>1
  <2> QED
    BY ONLY <1>2, <1>3, <2>1, LoopRuns
<1>7. \A k \in 1 .. n : k - 1 \in 0 .. n
    BY <1>1
<1>8. \A k \in 1 .. n : f[k] = ParseSSELine(f[k - 1], lines[k])
    BY <1>4, <1>6, <1>7
<1>9. f = Body(f)
  <2>1. \A k \in 0 .. n : f[k] = IF k = 0 THEN Start ELSE ParseSSELine(f[k - 1], lines[k])
    BY <1>1, <1>6, <1>8
  <2> QED
    BY <1>6, <2>1 DEF Body
<1>10. after = Body(after)
    BY <1>9 DEF after
<1>11. /\ after \in [0 .. n -> LoopState] /\ after[0] = Start
       /\ \A k \in 1 .. n : after[k] = ParseSSELine(after[k - 1], lines[k])
  <2>1. after = [k \in 0 .. n |-> IF k = 0 THEN Start ELSE ParseSSELine(after[k - 1], lines[k])]
    BY <1>10 DEF Body
  <2>2. after[0] = Start /\ \A k \in 1 .. n : after[k] = ParseSSELine(after[k - 1], lines[k])
    BY ONLY <1>1, <2>1
  <2>3. after[0] \in LoopState
    BY <1>2, <2>2
  <2>4. \A k \in 1 .. n : after[k - 1] \in LoopState => after[k] \in LoopState
    BY <1>1, <2>2, TurnKeepsTypes
  <2>5. \A k \in 0 .. n : after[k] \in LoopState
    BY <1>1, <2>3, <2>4, LoopKeeps
  <2>6. DOMAIN after = 0 .. n
    BY ONLY <2>1
  <2>7. after = [k \in 0 .. n |-> after[k]]
    BY ONLY <2>1, <2>6
  <2> QED
    BY <2>2, <2>5, <2>7
<1> QED
    BY <1>5, <1>11 DEF n

(* The parser keeps its types.                                             *)
LEMMA LoopIsTyped ==
    ASSUME NEW text \in Text
    PROVE  Parsed(text) \in LoopState
<1>1. Lines(text) \in Seq(Text)
  <2>1. PICK f : f \in [0 .. Len(text) -> SomeLines] /\ Lines(text) = f[Len(text)]
    BY LinesAre
  <2>2. Len(text) \in 0 .. Len(text)
    BY DEF Text
  <2> QED
    BY <2>1, <2>2 DEF SomeLines
<1> DEFINE lines == Lines(text)
<1> HIDE DEF lines
<1>2. lines \in Seq(Text) /\ Len(lines) \in 0 .. Len(lines)
    BY <1>1 DEF lines
<1>3. Turns(lines) \in LoopState
    BY <1>2, TurnsAre
<1> QED
    BY <1>3 DEF Parsed, lines

(* The parser returns events, and a text to keep.                          *)
LEMMA ParserReturns ==
    ASSUME NEW text \in Text
    PROVE  /\ ParseSSEBuffer(text).events \in Seq(ParsedEvent)
           /\ ParseSSEBuffer(text).remaining \in Text
<1> DEFINE s == Parsed(text)
<1>1. s.events \in Seq(ParsedEvent) /\ s.end \in Nat
    BY LoopIsTyped DEF LoopState
<1> HIDE DEF s
<1>2. << >> \in Text /\ SubSeq(text, s.end + 1, Len(text)) \in Text
    BY <1>1, SubSeqProperties DEF Text
<1> QED
    BY <1>1, <1>2 DEF ParseSSEBuffer, s

-----------------------------------------------------------------------------
(* What is left of a sequence.                                             *)

(* A set of numbers has a least one.                                       *)
LEMMA MinExists ==
    ASSUME NEW S \in SUBSET Nat, S # {}
    PROVE  Min(S) \in S
<1> DEFINE Below == {n \in Nat : \A m \in S : n <= m}
<1>1. CASE \E x \in S : \A y \in S : x <= y
    BY <1>1 DEF Min
<1>2. CASE ~\E x \in S : \A y \in S : x <= y
  <2>1. 0 \in Below
    OBVIOUS
  <2>2. ASSUME NEW n \in Below
        PROVE  n + 1 \in Below
    <3>1. n \notin S
      BY <1>2
    <3> QED
      BY <3>1
  <2>3. Below = Nat
    <3> HIDE DEF Below
    <3> QED
      BY <2>1, <2>2, AllNumbers DEF Below
  <2>4. PICK m \in S : TRUE
    OBVIOUS
  <2> HIDE DEF Below
  <2>5. m \in Nat /\ m + 1 \in Below
    BY <2>3, <2>4
  <2> QED
    BY <2>4, <2>5 DEF Below
<1> QED
    BY <1>1, <1>2

(* More may be left out of what follows, from some place on.               *)
LEMMA LeftOfGrows ==
    ASSUME NEW E, NEW s \in Seq(E), NEW t \in Seq(E), NEW b \in Seq(E),
           LeftOf(s, t), NEW m \in 0 .. Len(b)
    PROVE  LeftOf(s \o SubSeq(b, 1, m), t \o b)
<1> DEFINE a == SubSeq(b, 1, m)
<1>1. Len(s) \in Nat /\ Len(t) \in Nat /\ Len(b) \in Nat /\ m \in Nat /\ m <= Len(b)
    OBVIOUS
<1>2. a \in Seq(E) /\ Len(a) = m /\ \A i \in 1 .. m : a[i] = b[i]
    BY <1>1, SubSeqProperties
<1> HIDE DEF a
<1>3. /\ s \o a \in Seq(E) /\ Len(s \o a) = Len(s) + m
      /\ \A i \in 1 .. Len(s) + m : (s \o a)[i] = IF i <= Len(s) THEN s[i] ELSE a[i - Len(s)]
    BY <1>2, ConcatProperties
<1>4. /\ t \o b \in Seq(E) /\ Len(t \o b) = Len(t) + Len(b)
      /\ \A i \in 1 .. Len(t) + Len(b) : (t \o b)[i] = IF i <= Len(t) THEN t[i] ELSE b[i - Len(t)]
    BY ConcatProperties
<1> DEFINE u == s \o a
           v == t \o b
<1>5. DOMAIN u = 1 .. Len(s) + m /\ DOMAIN v = 1 .. Len(t) + Len(b)
    BY <1>1, <1>3, <1>4
<1> HIDE DEF u, v
<1>6. PICK place \in [1 .. Len(s) -> 1 .. Len(t)] :
            /\ \A i, j \in 1 .. Len(s) : i < j => place[i] < place[j]
            /\ \A i \in 1 .. Len(s) : s[i] = t[place[i]]
  <2>1. DOMAIN s = 1 .. Len(s) /\ DOMAIN t = 1 .. Len(t)
    OBVIOUS
  <2> QED
    BY <2>1 DEF LeftOf
<1> DEFINE At(i) == IF i <= Len(s) THEN place[i] ELSE i - Len(s) + Len(t)
           new == [i \in 1 .. Len(s) + m |-> At(i)]
<1>7. ASSUME NEW i \in 1 .. Len(s) + m
      PROVE  /\ At(i) \in 1 .. Len(t) + Len(b)
             /\ i <= Len(s) => i \in 1 .. Len(s) /\ At(i) = place[i] /\ At(i) \in 1 .. Len(t)
             /\ i > Len(s) => At(i) = i - Len(s) + Len(t) /\ At(i) > Len(t)
  <2>1. CASE i <= Len(s)
    <3>1. i \in 1 .. Len(s) /\ At(i) = place[i]
      BY <1>1, <2>1
    <3>2. place[i] \in 1 .. Len(t)
      BY <1>6, <3>1
    <3> QED
      BY <1>1, <2>1, <3>1, <3>2
  <2>2. CASE i > Len(s)
    BY <1>1, <2>2
  <2> QED
    BY <1>1, <2>1, <2>2
<1> HIDE DEF At
<1>8. ASSUME NEW i \in 1 .. Len(s) + m, NEW j \in 1 .. Len(s) + m, i < j
      PROVE  At(i) < At(j)
  <2>1. At(i) \in Nat /\ At(j) \in Nat
    BY <1>1, <1>7
  <2>2. CASE j <= Len(s)
    BY <1>1, <1>6, <1>7, <1>8, <2>2
  <2>3. CASE j > Len(s) /\ i <= Len(s)
    <3>1. At(i) \in 1 .. Len(t) /\ At(j) > Len(t)
      BY <1>7, <2>3
    <3> QED
      BY <1>1, <2>1, <3>1
  <2>4. CASE j > Len(s) /\ i > Len(s)
    BY <1>1, <1>7, <1>8, <2>4
  <2> QED
    BY <1>1, <2>2, <2>3, <2>4
<1>9. \A i \in 1 .. Len(s) + m : u[i] = v[At(i)]
  <2> SUFFICES ASSUME NEW i \in 1 .. Len(s) + m
               PROVE  u[i] = v[At(i)]
    OBVIOUS
  <2>1. CASE i <= Len(s)
    <3>1. i \in 1 .. Len(s) /\ At(i) = place[i] /\ place[i] \in 1 .. Len(t)
      BY <1>7, <2>1
    <3>2. u[i] = s[i] /\ v[place[i]] = t[place[i]]
      BY <1>1, <1>3, <1>4, <2>1, <3>1 DEF u, v
    <3> QED
      BY <1>6, <3>1, <3>2
  <2>2. CASE i > Len(s)
    <3>1. i - Len(s) \in 1 .. m /\ At(i) = Len(t) + (i - Len(s))
      BY <1>1, <1>7, <2>2
    <3>2. u[i] = a[i - Len(s)]
      BY <1>1, <1>3, <2>2 DEF u
    <3>3. At(i) \in 1 .. Len(t) + Len(b) /\ ~(At(i) <= Len(t)) /\ At(i) - Len(t) = i - Len(s)
      BY <1>1, <3>1
    <3>4. v[At(i)] = b[i - Len(s)]
      BY <1>4, <3>3 DEF v
    <3> QED
      BY <1>2, <3>1, <3>2, <3>4
  <2> QED
    BY <1>1, <2>1, <2>2
<1>10. new \in [DOMAIN u -> DOMAIN v] /\ \A i \in DOMAIN u : new[i] = At(i)
    BY <1>5, <1>7
<1> HIDE DEF new
<1>11. /\ \A i, j \in DOMAIN u : i < j => new[i] < new[j]
       /\ \A i \in DOMAIN u : u[i] = v[new[i]]
    BY <1>5, <1>8, <1>9, <1>10
<1>12. LeftOf(u, v)
    BY <1>10, <1>11 DEF LeftOf
<1> QED
    BY <1>12 DEF u, v, a

(* The end may be left out as well.                                        *)
LEMMA LeftOfFront ==
    ASSUME NEW E, NEW s \in Seq(E), NEW a \in Seq(E), NEW t \in Seq(E), LeftOf(s \o a, t)
    PROVE  LeftOf(s, t)
<1> DEFINE u == s \o a
<1>1. Len(s) \in Nat /\ Len(a) \in Nat /\ Len(u) = Len(s) + Len(a) /\ u \in Seq(E)
    BY ConcatProperties
<1>2. \A i \in 1 .. Len(s) : u[i] = s[i]
    BY <1>1, ConcatProperties
<1>3. DOMAIN s = 1 .. Len(s) /\ DOMAIN u = 1 .. Len(s) + Len(a)
    BY <1>1
<1> HIDE DEF u
<1>4. PICK place \in [DOMAIN u -> DOMAIN t] :
            /\ \A i, j \in DOMAIN u : i < j => place[i] < place[j]
            /\ \A i \in DOMAIN u : u[i] = t[place[i]]
    BY DEF LeftOf, u
<1>5. DOMAIN s \subseteq DOMAIN u
    BY <1>1, <1>3
<1> DEFINE new == [i \in DOMAIN s |-> place[i]]
<1>6. /\ new \in [DOMAIN s -> DOMAIN t]
      /\ \A i, j \in DOMAIN s : i < j => new[i] < new[j]
      /\ \A i \in DOMAIN s : s[i] = t[new[i]]
    BY <1>2, <1>3, <1>4, <1>5
<1> QED
    BY <1>6 DEF LeftOf

(* Nothing is left out of a sequence itself.                               *)
LEMMA LeftOfSelf ==
    ASSUME NEW E, NEW s \in Seq(E)
    PROVE  LeftOf(s, s)
<1> DEFINE same == [i \in DOMAIN s |-> i]
<1>1. same \in [DOMAIN s -> DOMAIN s]
    OBVIOUS
<1> QED
    BY <1>1 DEF LeftOf

-----------------------------------------------------------------------------
(* What the consumer gets.                                                 *)

Calls == [is : {"idle", "collecting", "asking", "paused"}, want : Wants \cup {NoField},
          got : Seq(ParsedEvent)]

ReaderTyped ==
    /\ stream \in Text /\ sent \in Nat /\ buffer \in Text
    /\ received \in Seq(ParsedEvent)

\* a call holds events in one way only: a collect what it has got, events()
\* the rest of a chunk
Holding ==
    /\ delivered \in Seq(ParsedEvent) /\ batch \in Seq(ParsedEvent) /\ call \in Calls
    /\ call.is # "collecting" => call.got = << >>
    /\ call.is # "paused" => batch = << >>
    /\ dropped \in BOOLEAN

HandInv == ReaderTyped /\ Holding /\ HandedOverOnce

(* Of two sequences that are joined, the second follows the first.         *)
LEMMA SecondPart ==
    ASSUME NEW E, NEW s \in Seq(E), NEW t \in Seq(E)
    PROVE  SubSeq(s \o t, Len(s) + 1, Len(s \o t)) = t
<1>1. Len(s) \in Nat /\ Len(t) \in Nat /\ Len(s \o t) = Len(s) + Len(t) /\ s \o t \in Seq(E)
    BY ConcatProperties
<1>2. CASE t = << >>
  <2>1. Len(t) = 0
    BY <1>2
  <2>2. Len(s) + 1 > Len(s \o t)
    BY <1>1, <2>1
  <2> QED
    BY <1>1, <1>2, <2>2, SubSeqEmpty
<1>3. CASE t # << >>
  <2>1. Len(t) # 0
    BY <1>3
  <2>2. SubSeq(s \o t, Len(s) + 1, Len(s) + Len(t)) = SubSeq(t, 1, Len(t))
    <3>1. Len(s) + 1 \in Len(s) + 1 .. Len(s) + Len(t)
      BY <1>1, <2>1
    <3>2. Len(s) + Len(t) \in Len(s) + 1 .. Len(s) + Len(t)
      BY <1>1, <2>1
    <3>3. (Len(s) + 1) - Len(s) = 1 /\ (Len(s) + Len(t)) - Len(s) = Len(t)
      BY <1>1
    <3> QED
      BY <3>1, <3>2, <3>3, SubSeqOfConcat2
  <2> QED
    BY <1>1, <2>2, SubSeqFull
<1> QED
    BY <1>2, <1>3

(* A chunk that is read adds the events the parser returns for it.         *)
LEMMA ChunkAddsEvents ==
    ASSUME ReaderTyped, NEW n, Chunk(n)
    PROVE  /\ ReaderTyped'
           /\ LET new == SubSeq(received', Len(received) + 1, Len(received'))
              IN  new \in Seq(ParsedEvent) /\ received' = received \o new
<1> DEFINE text == buffer \o SubSeq(stream, sent + 1, n)
           events == ParseSSEBuffer(text).events
<1>1. n \in Nat /\ n <= Len(stream) /\ Len(stream) \in Nat
    BY DEF Chunk, ReaderTyped, Text
<1>2. text \in Text
  <2>1. SubSeq(stream, sent + 1, n) \in Seq(Characters)
    <3>1. \A i \in sent + 1 .. n : stream[i] \in Characters
      BY <1>1 DEF ReaderTyped, Text
    <3>2. sent + 1 \in Int /\ n \in Int
      BY <1>1 DEF ReaderTyped
    <3> QED
      BY <3>1, <3>2, SubSeqProperties
  <2> QED
    BY <2>1, ConcatProperties DEF ReaderTyped, Text
<1>3. events \in Seq(ParsedEvent) /\ ParseSSEBuffer(text).remaining \in Text
    BY <1>2, ParserReturns
<1>4. /\ received' = received \o events /\ buffer' = ParseSSEBuffer(text).remaining
      /\ sent' = n /\ stream' = stream
    BY DEF Chunk
<1> HIDE DEF events, text
<1>5. ReaderTyped'
  <2>1. received' \in Seq(ParsedEvent)
    BY <1>3, <1>4, ConcatProperties DEF ReaderTyped
  <2> QED
    BY <1>1, <1>3, <1>4, <2>1 DEF ReaderTyped
<1>6. SubSeq(received', Len(received) + 1, Len(received')) = events
    BY <1>3, <1>4, SecondPart DEF ReaderTyped
<1> QED
    BY <1>3, <1>4, <1>5, <1>6

(* The shapes of what is in hand: a call holds one kind of events.         *)
LEMMA InHandIs ==
    ASSUME Holding
    PROVE  /\ InHand \in Seq(ParsedEvent)
           /\ call.is # "paused" => InHand = delivered \o call.got
           /\ call.is # "collecting" => InHand = delivered \o batch
           /\ call.is \notin {"paused", "collecting"} => InHand = delivered
<1>1. /\ delivered \in Seq(ParsedEvent) /\ batch \in Seq(ParsedEvent)
      /\ call.got \in Seq(ParsedEvent)
    BY DEF Holding, Calls
<1>2. delivered \o call.got \in Seq(ParsedEvent)
    BY <1>1, ConcatProperties
<1>3. InHand \in Seq(ParsedEvent)
    BY <1>1, <1>2, ConcatProperties DEF InHand
<1>4. ASSUME call.is # "paused"
      PROVE  InHand = delivered \o call.got
  <2>1. batch = << >>
    BY <1>4 DEF Holding
  <2> QED
    BY <1>2, <2>1, ConcatEmptySeq DEF InHand
<1>5. ASSUME call.is # "collecting"
      PROVE  InHand = delivered \o batch
  <2>1. call.got = << >>
    BY <1>5 DEF Holding
  <2>2. delivered \o call.got = delivered
    BY <1>1, <2>1, ConcatEmptySeq
  <2> QED
    BY <2>2 DEF InHand
<1>6. ASSUME call.is \notin {"paused", "collecting"}
      PROVE  InHand = delivered
  <2>1. batch = << >>
    BY <1>6 DEF Holding
  <2> QED
    BY <1>1, <1>5, <1>6, <2>1, ConcatEmptySeq
<1> QED
    BY <1>3, <1>4, <1>5, <1>6

(* A step that neither parses nor hands over, and drops nothing.           *)
LEMMA HandStill ==
    ASSUME HandInv, Holding', ReaderTyped', InHand' = InHand, UNCHANGED <<received, dropped>>
    PROVE  HandInv'
BY DEF HandInv, HandedOverOnce

(* A step that adds to what is parsed, and as much of that in hand.        *)
LEMMA HandGrows ==
    ASSUME HandInv, Holding', ReaderTyped', NEW new \in Seq(ParsedEvent),
           received' = received \o new,
           NEW m \in 0 .. Len(new),
           InHand' = InHand \o SubSeq(new, 1, m),
           dropped' = (dropped \/ m < Len(new))
    PROVE  HandInv'
<1>1. InHand \in Seq(ParsedEvent) /\ received \in Seq(ParsedEvent)
    BY InHandIs DEF HandInv, ReaderTyped
<1>2. LeftOf(InHand, received)
    BY DEF HandInv, HandedOverOnce
<1> DEFINE hand == InHand
           handed == InHand'
<1>3. LeftOf(handed, received')
  <2> HIDE DEF hand, handed
  <2>1. hand \in Seq(ParsedEvent) /\ LeftOf(hand, received) /\ handed = hand \o SubSeq(new, 1, m)
    BY <1>1, <1>2 DEF hand, handed
  <2> QED
    BY <1>1, <2>1, LeftOfGrows
<1>4. ASSUME ~dropped'
      PROVE  InHand' = received'
  <2>1. ~dropped /\ m = Len(new)
    <3>1. ~dropped /\ ~(m < Len(new))
      BY <1>4, Zenon
    <3>2. Len(new) \in Nat
      OBVIOUS
    <3> QED
      BY <3>1, <3>2
  <2>2. InHand = received
    BY <2>1 DEF HandInv, HandedOverOnce
  <2> QED
    BY <2>1, <2>2, SubSeqFull
<1> QED
    BY <1>3, <1>4 DEF HandInv, HandedOverOnce

(* A step that drops the end of what is in hand, and records it.           *)
LEMMA HandDrops ==
    ASSUME HandInv, Holding', ReaderTyped', UNCHANGED received,
           NEW rest \in Seq(ParsedEvent), InHand = InHand' \o rest,
           dropped' = (dropped \/ rest # << >>)
    PROVE  HandInv'
<1>1. InHand' \in Seq(ParsedEvent)
    BY ConcatProperties DEF InHand, Holding, Calls
<1>2. received \in Seq(ParsedEvent) /\ LeftOf(InHand, received)
    BY DEF HandInv, HandedOverOnce, ReaderTyped
<1>3. LeftOf(InHand', received')
    BY <1>1, <1>2, LeftOfFront
<1>4. ASSUME ~dropped'
      PROVE  InHand' = received'
  <2>1. ~dropped /\ rest = << >>
    BY <1>4
  <2>2. InHand = received
    BY <2>1 DEF HandInv, HandedOverOnce
  <2> QED
    BY <1>1, <2>1, <2>2, ConcatEmptySeq
<1> QED
    BY <1>3, <1>4 DEF HandInv, HandedOverOnce

(* The connection hands nothing over; a chunk may go to a read that was    *)
(* given up.                                                               *)
LEMMA HandAtConnection ==
    ASSUME HandInv,
           \/ \E awaiting \in BOOLEAN : Connect(awaiting)
           \/ ServerConnection \/ SpyTimesOut
           \/ \E n \in 1 .. Len(stream) : Arrive(n)
           \/ ServerEnds \/ ConnectionFails \/ Close
           \/ UNCHANGED clientVars
    PROVE  HandInv'
<1>1. UNCHANGED <<stream, buffer, received, call, batch, delivered, dropped>>
    BY DEF Connect, ServerConnection, SpyTimesOut, Arrive, ServerEnds, ConnectionFails,
           Close, consumer, clientVars, vars
<1>2. sent' \in Nat
  <2>1. CASE \E n \in 1 .. Len(stream) : Arrive(n)
    <3>1. PICK n \in 1 .. Len(stream) : Arrive(n)
      BY <2>1
    <3>2. sent' = n \/ sent' = sent
      BY <3>1 DEF Arrive, vars
    <3>3. n \in Nat
      OBVIOUS
    <3> QED
      BY <3>2, <3>3 DEF HandInv, ReaderTyped
  <2>2. CASE sent' = sent
    BY <2>2 DEF HandInv, ReaderTyped
  <2> QED
    BY <2>1, <2>2
    DEF Connect, ServerConnection, SpyTimesOut, ServerEnds, ConnectionFails, Close,
        clientVars, vars
<1>3. ReaderTyped' /\ Holding' /\ InHand' = InHand
    BY <1>1, <1>2 DEF HandInv, ReaderTyped, Holding, InHand
<1> QED
    BY <1>1, <1>3, HandStill

(* A call starts with nothing in hand.                                     *)
LEMMA HandAtCalls ==
    ASSUME HandInv, (\E want \in Wants : CollectEvents(want)) \/ Iterate
    PROVE  HandInv'
<1>1. /\ call = Idle
      /\ UNCHANGED <<stream, sent, buffer, received, batch, delivered, dropped>>
      /\ \E want \in Wants \cup {NoField}, is \in {"collecting", "asking"} :
             call' = [is |-> is, want |-> want, got |-> << >>]
  <2>1. ASSUME NEW want \in Wants, CollectEvents(want)
        PROVE  call' = [is |-> "collecting", want |-> want, got |-> << >>]
    BY <2>1 DEF CollectEvents, Idle
  <2>2. ASSUME Iterate
        PROVE  call' = [is |-> "asking", want |-> NoField, got |-> << >>]
    BY <2>2 DEF Iterate, Idle
  <2>3. call = Idle /\ UNCHANGED <<stream, sent, buffer, received, batch, delivered, dropped>>
    BY DEF CollectEvents, Iterate, Free, vars
  <2> QED
    BY <2>1, <2>2, <2>3
<1>2. call.is = "idle" /\ call.got = << >> /\ batch = << >>
    BY <1>1 DEF HandInv, Holding, Idle
<1>3. call' \in Calls /\ call'.got = << >>
    BY <1>1 DEF Calls
<1>4. ReaderTyped' /\ Holding' /\ InHand' = InHand
    BY <1>1, <1>2, <1>3 DEF HandInv, ReaderTyped, Holding, InHand
<1> QED
    BY <1>1, <1>4, HandStill

(* Events are handed over in the same order however they are grouped.      *)
LEMMA Grouping ==
    ASSUME NEW a \in Seq(ParsedEvent), NEW b \in Seq(ParsedEvent), NEW c \in Seq(ParsedEvent)
    PROVE  (a \o b) \o c = a \o (b \o c)
BY ConcatAssociative

(* A collect takes the events of a chunk up to the one that is enough.     *)
LEMMA HandAtCollect ==
    ASSUME HandInv, Read, call.is = "collecting"
    PROVE  HandInv'
<1> DEFINE new == SubSeq(received', Len(received) + 1, Len(received'))
           Upto(i) == call.got \o SubSeq(new, 1, i)
           enough == {i \in DOMAIN new : Enough(call.want, Upto(i))}
<1>1. ReaderTyped' /\ new \in Seq(ParsedEvent) /\ received' = received \o new
    BY ChunkAddsEvents DEF HandInv, Read
<1>2. Collect(new)
    BY DEF Read
<1> HIDE DEF new
<1>3. /\ delivered \in Seq(ParsedEvent) /\ call.got \in Seq(ParsedEvent)
      /\ call \in Calls /\ batch = << >>
      /\ InHand = delivered \o call.got
    BY InHandIs DEF HandInv, Holding, Calls
<1>4. Len(new) \in Nat /\ DOMAIN new = 1 .. Len(new)
    BY <1>1
<1>5. CASE enough # {}
  <2> DEFINE m == Min(enough)
  <2>1. m \in DOMAIN new
    <3>1. enough \in SUBSET Nat
      BY <1>4
    <3> HIDE DEF enough
    <3>2. m \in enough
      BY <1>5, <3>1, MinExists
    <3> QED
      BY <3>2 DEF enough
  <2>2. /\ call' = Idle /\ delivered' = delivered \o Upto(m)
        /\ dropped' = (dropped \/ m < Len(new)) /\ batch' = batch
    BY <1>2, <1>5 DEF Collect
  <2> HIDE DEF m
  <2>3. m \in 0 .. Len(new) /\ SubSeq(new, 1, m) \in Seq(ParsedEvent)
    <3>1. m \in 1 .. Len(new)
      BY <1>4, <2>1
    <3>2. \A i \in 1 .. m : new[i] \in ParsedEvent
      BY <1>1, <1>4, <3>1
    <3> QED
      BY <1>4, <3>1, <3>2, SubSeqProperties
  <2>4. Upto(m) \in Seq(ParsedEvent) /\ delivered' \in Seq(ParsedEvent)
    BY <1>3, <2>2, <2>3, ConcatProperties
  <2>5. Holding'
    BY <1>3, <2>2, <2>4 DEF Holding, Idle, Calls
  <2>6. InHand' = delivered'
    <3>1. call'.got = << >> /\ batch' = << >>
      BY <1>3, <2>2 DEF Idle
    <3> QED
      BY <2>4, <3>1, ConcatEmptySeq DEF InHand
  <2>7. InHand' = InHand \o SubSeq(new, 1, m)
    <3>1. (delivered \o call.got) \o SubSeq(new, 1, m) = delivered \o Upto(m)
      BY <1>3, <2>3, Grouping
    <3> QED
      BY ONLY <1>3, <2>2, <2>6, <3>1
  <2> QED
    BY <1>1, <2>2, <2>3, <2>5, <2>7, HandGrows
<1>6. CASE enough = {}
  <2>1. call' = [call EXCEPT !.got = @ \o new] /\ UNCHANGED <<batch, delivered, dropped>>
    BY <1>2, <1>6 DEF Collect
  <2> HIDE DEF enough, Upto
  <2>2. call.got \o new \in Seq(ParsedEvent)
    BY <1>1, <1>3, ConcatProperties
  <2> DEFINE got == call.got \o new
  <2>3. call' \in Calls /\ call'.is = "collecting" /\ call'.got = got
    <3>1. got \in Seq(ParsedEvent) /\ call' = [call EXCEPT !.got = got]
      BY <2>1, <2>2
    <3> HIDE DEF got
    <3> QED
      BY <1>3, <3>1 DEF Calls
  <2>4. Holding'
    <3>1. dropped' \in BOOLEAN
      BY <2>1 DEF HandInv, Holding
    <3> QED
      BY <1>3, <2>1, <2>3, <3>1 DEF Holding
  <2>5. InHand' = delivered \o (call.got \o new)
    <3>1. batch' = << >> /\ delivered \o (call.got \o new) \in Seq(ParsedEvent)
      BY <1>3, <2>1, <2>2, ConcatProperties
    <3>2. InHand' = (delivered' \o call'.got) \o batch'
      BY DEF InHand
    <3>3. InHand' = (delivered \o (call.got \o new)) \o << >>
      BY ONLY <2>1, <2>3, <3>1, <3>2
    <3> QED
      BY <3>1, <3>3, ConcatEmptySeq
  <2>6. InHand' = InHand \o new
    <3>1. (delivered \o call.got) \o new = delivered \o (call.got \o new)
      BY <1>1, <1>3, Grouping
    <3> QED
      BY ONLY <1>3, <2>5, <3>1
  <2>7. SubSeq(new, 1, Len(new)) = new
    BY <1>1, SubSeqFull
  <2>8. Len(new) \in 0 .. Len(new) /\ dropped' = (dropped \/ Len(new) < Len(new))
    <3>1. dropped' = dropped /\ ~(Len(new) < Len(new)) /\ Len(new) \in 0 .. Len(new)
      BY <1>4, <2>1
    <3>2. dropped \in BOOLEAN
      BY DEF HandInv, Holding
    <3> QED
      BY <3>1, <3>2
  <2> QED
    BY <1>1, <2>4, <2>6, <2>7, <2>8, HandGrows
<1> QED
    BY <1>5, <1>6

(* A step that hands over the first of some events and keeps the others.   *)
LEMMA FirstHandedOver ==
    ASSUME NEW given \in Seq(ParsedEvent), NEW left \in Seq(ParsedEvent), left # << >>
    PROVE  /\ Append(given, Head(left)) \in Seq(ParsedEvent)
           /\ Tail(left) \in Seq(ParsedEvent)
           /\ Append(given, Head(left)) \o Tail(left) = given \o left
<1>1. Head(left) \in ParsedEvent /\ Tail(left) \in Seq(ParsedEvent)
    BY HeadTailProperties
<1>2. << Head(left) >> \in Seq(ParsedEvent) /\ << Head(left) >> \o Tail(left) = left
    BY <1>1
<1>3. Append(given, Head(left)) = given \o << Head(left) >>
    BY <1>1
<1> QED
    BY <1>1, <1>2, <1>3, ConcatAssociative

(* events() yields the first event of a chunk and keeps the others.        *)
LEMMA HandAtYield ==
    ASSUME HandInv, Read, call.is = "asking"
    PROVE  HandInv'
<1> DEFINE new == SubSeq(received', Len(received) + 1, Len(received'))
<1>1. ReaderTyped' /\ new \in Seq(ParsedEvent) /\ received' = received \o new
    BY ChunkAddsEvents DEF HandInv, Read
<1>2. Yield(new)
    BY DEF Read
<1> HIDE DEF new
<1>3. /\ delivered \in Seq(ParsedEvent) /\ call.got = << >>
      /\ call \in Calls /\ batch = << >>
      /\ InHand = delivered /\ dropped \in BOOLEAN
    BY InHandIs DEF HandInv, Holding
<1>4. dropped' = dropped
    BY <1>2 DEF Yield
<1>5. CASE new = << >>
  <2>1. UNCHANGED <<call, batch, delivered>>
    BY <1>2, <1>5 DEF Yield
  <2>2. Holding' /\ InHand' = InHand
    BY <1>4, <2>1 DEF HandInv, Holding, InHand
  <2>3. received' = received
    BY <1>1, <1>5, ConcatEmptySeq DEF HandInv, ReaderTyped
  <2> QED
    BY <1>1, <1>4, <2>2, <2>3, HandStill
<1>6. CASE new # << >>
  <2>1. /\ call' = [call EXCEPT !.is = "paused"] /\ batch' = Tail(new)
        /\ delivered' = Append(delivered, Head(new))
    BY <1>2, <1>6 DEF Yield
  <2>2. /\ delivered' \in Seq(ParsedEvent) /\ batch' \in Seq(ParsedEvent)
        /\ delivered' \o batch' = delivered \o new
    BY <1>1, <1>3, <1>6, <2>1, FirstHandedOver
  <2>3. call' \in Calls /\ call'.is = "paused" /\ call'.got = << >>
    BY <1>3, <2>1 DEF Calls
  <2>4. Holding'
    BY <1>3, <1>4, <2>2, <2>3 DEF Holding
  <2>5. InHand' = InHand \o new
    <3>1. InHand' = (delivered' \o << >>) \o batch'
      BY <2>3 DEF InHand
    <3>2. delivered' \o << >> = delivered'
      BY <2>2, ConcatEmptySeq
    <3> QED
      BY ONLY <1>3, <2>2, <3>1, <3>2
  <2>6. SubSeq(new, 1, Len(new)) = new /\ Len(new) \in Nat
    BY <1>1, SubSeqFull
  <2>7. Len(new) \in 0 .. Len(new) /\ dropped' = (dropped \/ Len(new) < Len(new))
    <3>1. ~(Len(new) < Len(new)) /\ Len(new) \in 0 .. Len(new)
      BY <2>6
    <3> QED
      BY <1>3, <1>4, <3>1
  <2> QED
    BY <1>1, <2>4, <2>5, <2>6, <2>7, HandGrows
<1> QED
    BY <1>5, <1>6

(* The next event of a chunk, or the wait for the next chunk.              *)
LEMMA HandAtResume ==
    ASSUME HandInv, Resume
    PROVE  HandInv'
<1>1. /\ call.is = "paused" /\ call.got = << >> /\ call \in Calls
      /\ delivered \in Seq(ParsedEvent) /\ batch \in Seq(ParsedEvent)
      /\ dropped \in BOOLEAN /\ InHand = delivered \o batch
    BY InHandIs DEF HandInv, Holding, Resume
<1>2. ReaderTyped' /\ UNCHANGED <<received, dropped>>
    BY DEF HandInv, ReaderTyped, Resume, vars
<1>3. /\ delivered' \in Seq(ParsedEvent) /\ batch' \in Seq(ParsedEvent)
      /\ delivered' \o batch' = delivered \o batch
  <2>1. CASE batch # << >>
    BY <1>1, <2>1, FirstHandedOver DEF Resume
  <2>2. CASE batch = << >>
    BY <1>1, <2>2 DEF Resume
  <2> QED
    BY <2>1, <2>2
<1>4. /\ call' \in Calls /\ call'.got = << >> /\ call'.is # "collecting"
      /\ call'.is # "paused" => batch' = << >>
  <2>1. CASE batch # << >>
    BY <1>1, <2>1 DEF Resume
  <2>2. CASE batch = << >>
    BY <1>1, <2>2 DEF Resume, Calls
  <2> QED
    BY <2>1, <2>2
<1>5. Holding'
    BY <1>1, <1>2, <1>3, <1>4 DEF Holding
<1>6. InHand' = InHand
  <2>1. InHand' = (delivered' \o << >>) \o batch'
    BY <1>4 DEF InHand
  <2>2. delivered' \o << >> = delivered'
    BY <1>3, ConcatEmptySeq
  <2> QED
    BY ONLY <1>1, <1>3, <2>1, <2>2
<1> QED
    BY <1>2, <1>5, <1>6, HandStill

(* Leaving the loop gives up what is left of the chunk.                    *)
LEMMA HandAtBreak ==
    ASSUME HandInv, Break
    PROVE  HandInv'
<1>1. /\ delivered \in Seq(ParsedEvent) /\ batch \in Seq(ParsedEvent)
      /\ dropped \in BOOLEAN /\ InHand = delivered \o batch
    BY InHandIs DEF HandInv, Holding, Break
<1>2. /\ ReaderTyped' /\ UNCHANGED <<received, delivered>>
      /\ call' = Idle /\ batch' = << >> /\ dropped' = (dropped \/ batch # << >>)
    BY DEF HandInv, ReaderTyped, Break, vars
<1>3. dropped' \in BOOLEAN
    BY <1>1, <1>2
<1>4. Holding'
    BY <1>1, <1>2, <1>3 DEF Holding, Idle, Calls
<1>5. InHand' = delivered
    BY <1>1, <1>2, ConcatEmptySeq DEF InHand, Idle
<1> QED
    BY <1>1, <1>2, <1>4, <1>5, HandDrops

(* When the response is over, a collect hands over what it has.            *)
LEMMA HandAtEnd ==
    ASSUME HandInv, EndOfResponse
    PROVE  HandInv'
<1>1. /\ delivered \in Seq(ParsedEvent) /\ call.got \in Seq(ParsedEvent)
      /\ dropped \in BOOLEAN /\ InHand = delivered \o call.got /\ batch = << >>
    BY InHandIs DEF HandInv, Holding, Calls, EndOfResponse, Reading
<1>2. /\ ReaderTyped' /\ UNCHANGED <<received, batch, dropped>>
      /\ call' = Idle /\ delivered' = delivered \o call.got
    BY DEF HandInv, ReaderTyped, EndOfResponse, vars
<1>3. delivered' \in Seq(ParsedEvent)
    BY <1>1, <1>2, ConcatProperties
<1>4. Holding'
    BY <1>1, <1>2, <1>3 DEF Holding, Idle, Calls
<1>5. InHand' = InHand
    BY <1>1, <1>2, <1>3, ConcatEmptySeq DEF InHand, Idle
<1> QED
    BY <1>2, <1>4, <1>5, HandStill

(* A read that fails, a timeout or an abort gives up what a collect has.   *)
LEMMA HandAtGivingUp ==
    ASSUME HandInv, ReadFails \/ Abort
    PROVE  HandInv'
<1>1. /\ delivered \in Seq(ParsedEvent) /\ call.got \in Seq(ParsedEvent)
      /\ dropped \in BOOLEAN /\ InHand = delivered \o call.got /\ batch = << >>
    BY InHandIs DEF HandInv, Holding, Calls, ReadFails, Abort, Reading
<1>2. /\ UNCHANGED <<stream, sent, buffer, received, batch, delivered>>
      /\ call' = Idle /\ dropped' = (dropped \/ call.got # << >>)
    BY DEF ReadFails, Abort, vars
<1>3. ReaderTyped' /\ dropped' \in BOOLEAN
    BY <1>1, <1>2 DEF HandInv, ReaderTyped
<1>4. Holding'
    BY <1>1, <1>2, <1>3 DEF Holding, Idle, Calls
<1>5. InHand' = delivered
    BY <1>1, <1>2, ConcatEmptySeq DEF InHand, Idle
<1> QED
    BY <1>1, <1>2, <1>3, <1>4, <1>5, HandDrops

(* Before anything has arrived.                                            *)
LEMMA HandAtFirst ==
    ASSUME InitClient
    PROVE  HandInv
<1>1. /\ stream \in Streams /\ sent = 0 /\ buffer = << >> /\ received = << >>
      /\ delivered = << >> /\ batch = << >> /\ call = Idle /\ dropped = FALSE
    BY DEF InitClient, Init
<1>2. stream \in Text
  <2>1. stream \in Seq(ToSet(stream)) /\ ToSet(stream) \subseteq Characters
    BY <1>1, StreamsAssumption DEF Characters
  <2>2. \A i \in 1 .. Len(stream) : stream[i] \in ToSet(stream)
    BY <2>1
  <2> QED
    BY <2>1, <2>2 DEF Text
<1>3. << >> \in Text /\ << >> \in Seq(ParsedEvent)
    BY DEF Text
<1>4. ReaderTyped
    BY <1>1, <1>2, <1>3 DEF ReaderTyped
<1>5. Holding
    BY <1>1, <1>3 DEF Holding, Idle, Calls
<1>6. InHand = << >>
    BY <1>1 DEF InHand, Idle
<1>7. LeftOf(<< >>, received)
    BY <1>1, <1>3, LeftOfSelf
<1> QED
    BY <1>1, <1>4, <1>5, <1>6, <1>7 DEF HandInv, HandedOverOnce

-----------------------------------------------------------------------------
(* However chunks are cut, and calls, timeouts and the end of the response *)
(* fall, what is parsed and what is in hand have their types, and only a   *)
(* collect holds events of its own, only a paused loop events of a chunk.  *)
THEOREM HandInvariant == ClientSpec => []HandInv
<1>1. InitClient => HandInv
    BY HandAtFirst
<1>2. HandInv /\ [NextClient]_clientVars => HandInv'
  <2> SUFFICES ASSUME HandInv, [NextClient]_clientVars
               PROVE  HandInv'
    OBVIOUS
  <2>1. CASE \/ \E awaiting \in BOOLEAN : Connect(awaiting)
             \/ ServerConnection \/ SpyTimesOut
             \/ \E n \in 1 .. Len(stream) : Arrive(n)
             \/ ServerEnds \/ ConnectionFails \/ Close
             \/ UNCHANGED clientVars
    BY <2>1, HandAtConnection
  <2>2. CASE (\E want \in Wants : CollectEvents(want)) \/ Iterate
    BY <2>2, HandAtCalls
  <2>3. CASE Read
    <3>1. call.is = "collecting" \/ call.is = "asking"
      BY <2>3 DEF Read, Reading
    <3> QED
      BY <2>3, <3>1, HandAtCollect, HandAtYield
  <2>4. CASE Resume
    BY <2>4, HandAtResume
  <2>5. CASE Break
    BY <2>5, HandAtBreak
  <2>6. CASE EndOfResponse
    BY <2>6, HandAtEnd
  <2>7. CASE ReadFails \/ Abort
    BY <2>7, HandAtGivingUp
  <2> QED
    BY <2>1, <2>2, <2>3, <2>4, <2>5, <2>6, <2>7 DEF NextClient
<1> QED
    BY <1>1, <1>2, PTL DEF ClientSpec

(* The consumer gets the events that were parsed in order and each at most *)
(* once, whatever the response says and however it is cut and read; and    *)
(* all of them unless a call that had some was given up (sseHttpClient.ts, *)
(* collectEvents and events).                                              *)
THEOREM HandedOverInOrder == ClientSpec => []HandedOverOnce
BY HandInvariant, PTL DEF HandInv

-----------------------------------------------------------------------------
(* The loops grow with what they are given.                                *)

(* Two loops that take the same turns end alike.                           *)
LEMMA LoopsAgree ==
    ASSUME NEW f, NEW g, NEW n \in Nat, f[0] = g[0],
           \A k \in 1 .. n : f[k - 1] = g[k - 1] => f[k] = g[k]
    PROVE  f[n] = g[n]
<1> DEFINE Good == {m \in Nat : m <= n => f[m] = g[m]}
<1>1. 0 \in Good
    OBVIOUS
<1>2. ASSUME NEW m \in Good
      PROVE  m + 1 \in Good
  <2> SUFFICES ASSUME m + 1 <= n
               PROVE  f[m + 1] = g[m + 1]
    OBVIOUS
  <2>1. f[m] = g[m] /\ m + 1 \in 1 .. n /\ (m + 1) - 1 = m
    OBVIOUS
  <2> QED
    BY <2>1
<1> HIDE DEF Good
<1>3. Good = Nat
    BY <1>1, <1>2, AllNumbers DEF Good
<1> QED
    BY <1>3 DEF Good

(* A set that has the empty sequence and, with each sequence, those one    *)
(* longer has them all.                                                    *)
LEMMA AllSequences ==
    ASSUME NEW E, NEW S \in SUBSET Seq(E), << >> \in S,
           \A s \in S : \A e \in E : Append(s, e) \in S
    PROVE  S = Seq(E)
<1> DEFINE Good == {n \in Nat : \A s \in Seq(E) : Len(s) = n => s \in S}
<1>1. 0 \in Good
    OBVIOUS
<1>2. ASSUME NEW n \in Good
      PROVE  n + 1 \in Good
  <2> SUFFICES ASSUME NEW s \in Seq(E), Len(s) = n + 1
               PROVE  s \in S
    OBVIOUS
  <2>1. PICK t \in Seq(E), e \in E : s = Append(t, e)
    <3>1. s # << >>
      OBVIOUS
    <3> QED
      BY <3>1, SequenceEmptyOrAppend
  <2>2. Len(t) = n
    BY <2>1, AppendProperties
  <2> QED
    BY <2>1, <2>2
<1> HIDE DEF Good
<1>3. Good = Nat
    BY <1>1, <1>2, AllNumbers DEF Good
<1>4. \A s \in Seq(E) : Len(s) \in Good
    BY <1>3
<1> QED
    BY <1>4 DEF Good

(* A sequence and what comes last in it.                                   *)
LEMMA FrontAndLast ==
    ASSUME NEW E, NEW s \in Seq(E), s # << >>
    PROVE  /\ SubSeq(s, 1, Len(s) - 1) \in Seq(E) /\ s[Len(s)] \in E
           /\ s = Append(SubSeq(s, 1, Len(s) - 1), s[Len(s)])
<1>1. PICK t \in Seq(E), e \in E : s = Append(t, e)
    BY SequenceEmptyOrAppend
<1>2. Len(s) = Len(t) + 1 /\ s[Len(s)] = e /\ Len(t) \in Nat
    BY <1>1, AppendProperties
<1>3. \A i \in 1 .. Len(t) : s[i] = t[i]
    BY <1>1, AppendProperties
<1> DEFINE u == SubSeq(s, 1, Len(t))
<1>4. /\ u \in Seq(E) /\ Len(u) = Len(t)
      /\ \A i \in 1 .. Len(t) : u[i] = t[i]
  <2>1. \A i \in 1 .. Len(t) : s[i] \in E
    BY <1>3
  <2> QED
    BY <1>2, <1>3, <2>1, SubSeqProperties
<1> HIDE DEF u
<1>5. u = t
    BY <1>4, SeqEqual
<1>6. Len(s) - 1 = Len(t)
    BY <1>2
<1> QED
    BY <1>1, <1>2, <1>5, <1>6 DEF u

(* And the other way around.                                               *)
LEMMA FrontOfAppend ==
    ASSUME NEW E, NEW t \in Seq(E), NEW e \in E
    PROVE  /\ Len(Append(t, e)) = Len(t) + 1
           /\ SubSeq(Append(t, e), 1, Len(Append(t, e)) - 1) = t
           /\ Append(t, e)[Len(Append(t, e))] = e
<1> DEFINE s == Append(t, e)
<1>1. s \in Seq(E) /\ s # << >> /\ Len(s) = Len(t) + 1 /\ s[Len(t) + 1] = e
    BY AppendProperties
<1> DEFINE u == SubSeq(s, 1, Len(s) - 1)
<1>2. u \in Seq(E) /\ s = Append(u, s[Len(s)]) /\ s[Len(s)] \in E
  <2> HIDE DEF s
  <2> QED
    BY <1>1, FrontAndLast
<1> HIDE DEF u
<1>3. u = t
    BY <1>2, AppendInjective
<1> QED
    BY <1>1, <1>3 DEF u

(* What is split off grows with the text.                                  *)
LEMMA LinesGrow ==
    /\ Lines(<< >>) = << << >> >>
    /\ \A text \in Text : Lines(text) \in SomeLines
    /\ \A text \in Text, c \in Characters :
          Lines(Append(text, c)) = LineAfter(Lines(text), c)
<1>1. Lines(<< >>) = << << >> >>
  <2>1. << >> \in Text /\ Len(<< >>) = 0
    BY DEF Text
  <2> QED
    BY <2>1, LinesAre
<1>2. ASSUME NEW text \in Text
      PROVE  Lines(text) \in SomeLines
  <2>1. Len(text) \in 0 .. Len(text)
    BY DEF Text
  <2> QED
    BY <2>1, LinesAre
<1>3. ASSUME NEW text \in Text, NEW c \in Characters
      PROVE  Lines(Append(text, c)) = LineAfter(Lines(text), c)
  <2> DEFINE longer == Append(text, c)
             n == Len(text)
  <2>1. /\ longer \in Text /\ Len(longer) = n + 1 /\ n \in Nat
        /\ \A i \in 1 .. n : longer[i] = text[i]
        /\ longer[n + 1] = c
    BY AppendProperties DEF Text
  <2> HIDE DEF longer
  <2>2. PICK f : /\ f \in [0 .. n -> SomeLines] /\ f[0] = << << >> >>
                 /\ \A i \in 1 .. n : f[i] = LineAfter(f[i - 1], text[i])
                 /\ Lines(text) = f[n]
    BY LinesAre
  <2>3. PICK g : /\ g \in [0 .. n + 1 -> SomeLines] /\ g[0] = << << >> >>
                 /\ \A i \in 1 .. n + 1 : g[i] = LineAfter(g[i - 1], longer[i])
                 /\ Lines(longer) = g[n + 1]
    BY <2>1, LinesAre
  <2> HIDE DEF n
  <2>4. \A i \in 1 .. n : i \in 1 .. n + 1 /\ g[i] = LineAfter(g[i - 1], text[i])
    BY <2>1, <2>3
  <2>5. f[n] = g[n]
    <3>1. n \in Nat /\ f[0] = g[0]
      BY <2>1, <2>2, <2>3
    <3>2. \A k \in 1 .. n : f[k - 1] = g[k - 1] => f[k] = g[k]
      BY <2>2, <2>4
    <3> QED
      BY ONLY <3>1, <3>2, LoopsAgree
  <2>6. n + 1 \in 1 .. n + 1 /\ (n + 1) - 1 = n
    BY <2>1
  <2> QED
    BY <2>1, <2>2, <2>3, <2>5, <2>6 DEF longer
<1> QED
    BY <1>1, <1>2, <1>3

(* The line a text ends in the middle of.                                  *)
Open(text) == Lines(text)[Len(Lines(text))]

(* A text is lines that are over and one that is not.                      *)
LEMMA FinishedGrows ==
    /\ Finished(<< >>) = << >> /\ Open(<< >>) = << >>
    /\ \A text \in Text : /\ Finished(text) \in Seq(Text) /\ Open(text) \in Text
                          /\ Lines(text) = Append(Finished(text), Open(text))
    /\ \A text \in Text, c \in Characters :
          IF c = NewLine
          THEN /\ Finished(Append(text, c)) = Append(Finished(text), Open(text))
               /\ Open(Append(text, c)) = << >>
          ELSE /\ Finished(Append(text, c)) = Finished(text)
               /\ Open(Append(text, c)) = Append(Open(text), c)
<1>1. << >> \in Text /\ << >> \in Seq(Text)
    BY DEF Text
<1>2. ASSUME NEW ls \in SomeLines, NEW text, Lines(text) = ls
      PROVE  /\ Finished(text) \in Seq(Text) /\ Open(text) \in Text
             /\ ls = Append(Finished(text), Open(text))
  <2>1. Finished(text) = SubSeq(ls, 1, Len(ls) - 1) /\ Open(text) = ls[Len(ls)]
    BY <1>2 DEF Finished, Open
  <2> QED
    BY <2>1, FrontAndLast DEF SomeLines
<1>3. ASSUME NEW text, NEW s \in Seq(Text), NEW l \in Text, Lines(text) = Append(s, l)
      PROVE  Finished(text) = s /\ Open(text) = l
    BY <1>3, FrontOfAppend DEF Finished, Open
<1>4. Lines(<< >>) = Append(<< >>, << >>)
    BY LinesGrow
<1>5. Finished(<< >>) = << >> /\ Open(<< >>) = << >>
    BY <1>1, <1>3, <1>4
<1>6. ASSUME NEW text \in Text
      PROVE  /\ Finished(text) \in Seq(Text) /\ Open(text) \in Text
             /\ Lines(text) = Append(Finished(text), Open(text))
    BY <1>2, LinesGrow
<1>7. ASSUME NEW text \in Text, NEW c \in Characters, c = NewLine
      PROVE  /\ Finished(Append(text, c)) = Append(Finished(text), Open(text))
             /\ Open(Append(text, c)) = << >>
  <2>1. Lines(Append(text, c)) = Append(Lines(text), << >>)
    BY <1>7, LinesGrow DEF LineAfter
  <2>2. Lines(text) \in Seq(Text)
    BY LinesGrow DEF SomeLines
  <2> QED
    BY <1>1, <1>3, <1>6, <2>1, <2>2
<1>8. ASSUME NEW text \in Text, NEW c \in Characters, c # NewLine
      PROVE  /\ Finished(Append(text, c)) = Finished(text)
             /\ Open(Append(text, c)) = Append(Open(text), c)
  <2> DEFINE ls == Lines(text)
             s == Finished(text)
             l == Open(text)
             longer == Append(l, c)
  <2>1. ls = Append(s, l) /\ s \in Seq(Text) /\ l \in Text
    BY <1>6
  <2>2. longer \in Text
    BY <2>1, AppendProperties DEF Text
  <2>3. Len(ls) = Len(s) + 1 /\ ls[Len(ls)] = l /\ Len(s) \in Nat
    <3> HIDE DEF s, l
    <3> QED
      BY <2>1, AppendProperties
  <2>4. Lines(Append(text, c)) = [ls EXCEPT ![Len(ls)] = longer]
    <3>1. Lines(Append(text, c)) = [ls EXCEPT ![Len(ls)] = Append(@, c)]
      BY <1>8, LinesGrow DEF LineAfter
    <3> HIDE DEF ls, l
    <3> QED
      BY <2>3, <3>1
  <2> HIDE DEF s, l, longer
  <2>5. [ls EXCEPT ![Len(ls)] = longer] = Append(s, longer)
    <3> DEFINE a == [ls EXCEPT ![Len(ls)] = longer]
               b == Append(s, longer)
    <3>1. ls \in Seq(Text) /\ Len(ls) \in 1 .. Len(ls)
      BY <2>1, <2>3, AppendProperties
    <3> HIDE DEF ls
    <3>2. /\ a \in Seq(Text) /\ Len(a) = Len(ls)
          /\ \A j \in 1 .. Len(ls) : a[j] = IF j = Len(ls) THEN longer ELSE ls[j]
      BY <2>2, <3>1, ExceptSeq
    <3>3. /\ b \in Seq(Text) /\ Len(b) = Len(s) + 1
          /\ \A i \in 1 .. Len(s) : b[i] = s[i]
          /\ b[Len(s) + 1] = longer
      BY <2>1, <2>2, AppendProperties
    <3>4. \A i \in 1 .. Len(s) : ls[i] = s[i]
      BY <2>1, AppendProperties
    <3> HIDE DEF a, b
    <3>5. \A i \in 1 .. Len(a) : a[i] = b[i]
      BY <2>3, <3>2, <3>3, <3>4
    <3>6. a = b
      BY <2>3, <3>2, <3>3, <3>5, SeqEqual
    <3> QED
      BY <3>6 DEF a, b
  <2>6. Lines(Append(text, c)) = Append(s, longer)
    BY <2>4, <2>5
  <2> QED
    BY <1>3, <2>1, <2>2, <2>6 DEF s, longer, l
<1> QED
    BY <1>5, <1>6, <1>7, <1>8

(* The loop over the lines goes on where it was.                           *)
LEMMA TurnsGrow ==
    /\ Turns(<< >>) = Start
    /\ \A lines \in Seq(Text) : Turns(lines) \in LoopState
    /\ \A lines \in Seq(Text), line \in Text :
          Turns(Append(lines, line)) = ParseSSELine(Turns(lines), line)
<1>1. Turns(<< >>) = Start
  <2>1. << >> \in Seq(Text) /\ Len(<< >>) = 0
    OBVIOUS
  <2> QED
    BY <2>1, TurnsAre
<1>2. ASSUME NEW lines \in Seq(Text)
      PROVE  Turns(lines) \in LoopState
  <2>1. Len(lines) \in 0 .. Len(lines)
    OBVIOUS
  <2> QED
    BY <2>1, TurnsAre
<1>3. ASSUME NEW lines \in Seq(Text), NEW line \in Text
      PROVE  Turns(Append(lines, line)) = ParseSSELine(Turns(lines), line)
  <2> DEFINE longer == Append(lines, line)
             n == Len(lines)
  <2>1. /\ longer \in Seq(Text) /\ Len(longer) = n + 1 /\ n \in Nat
        /\ \A i \in 1 .. n : longer[i] = lines[i]
        /\ longer[n + 1] = line
    BY AppendProperties
  <2> HIDE DEF longer
  <2>2. PICK f : /\ f \in [0 .. n -> LoopState] /\ f[0] = Start
                 /\ \A k \in 1 .. n : f[k] = ParseSSELine(f[k - 1], lines[k])
                 /\ Turns(lines) = f[n]
    BY TurnsAre
  <2>3. PICK g : /\ g \in [0 .. n + 1 -> LoopState] /\ g[0] = Start
                 /\ \A k \in 1 .. n + 1 : g[k] = ParseSSELine(g[k - 1], longer[k])
                 /\ Turns(longer) = g[n + 1]
    BY <2>1, TurnsAre
  <2> HIDE DEF n
  <2>4. \A k \in 1 .. n : k \in 1 .. n + 1 /\ g[k] = ParseSSELine(g[k - 1], lines[k])
    BY <2>1, <2>3
  <2>5. f[n] = g[n]
    <3>1. n \in Nat /\ f[0] = g[0]
      BY <2>1, <2>2, <2>3
    <3>2. \A k \in 1 .. n : f[k - 1] = g[k - 1] => f[k] = g[k]
      BY <2>2, <2>4
    <3> QED
      BY ONLY <3>1, <3>2, LoopsAgree
  <2>6. n + 1 \in 1 .. n + 1 /\ (n + 1) - 1 = n
    BY <2>1
  <2> QED
    BY <2>1, <2>2, <2>3, <2>5, <2>6 DEF longer
<1> QED
    BY <1>1, <1>2, <1>3

-----------------------------------------------------------------------------
(* The reference definitions grow the same way.                            *)

(* What a line adds to the data.                                           *)
DataAfter(before, line) ==
    IF Is(Data, line) THEN Append(before, Tail(line)) ELSE before

(* It stays a sequence of texts.                                           *)
LEMMA DataAfterIs ==
    ASSUME NEW before \in Seq(Text), NEW line \in Text
    PROVE  DataAfter(before, line) \in Seq(Text)
<1>1. CASE Is(Data, line)
  <2>1. Tail(line) \in Text
    BY <1>1 DEF Is, Blank, Text
  <2> QED
    BY <1>1, <2>1, AppendProperties DEF DataAfter
<1> QED
    BY <1>1 DEF DataAfter

(* The data lines are collected line by line.                               *)
LEMMA DataOfAre ==
    ASSUME NEW lines \in Seq(Text)
    PROVE  \E f : /\ f \in [0 .. Len(lines) -> Seq(Text)] /\ f[0] = << >>
                  /\ \A k \in 1 .. Len(lines) : f[k] = DataAfter(f[k - 1], lines[k])
                  /\ DataOf(lines) = f[Len(lines)]
<1> DEFINE n == Len(lines)
           States == Seq(Text)
           s0 == << >>
           Step(before, k) == DataAfter(before, lines[k])
           turn == [k \in 1 .. n |-> [before \in States |-> Step(before, k)]]
           Body(f) == [k \in 0 .. n |-> IF k = 0 THEN s0 ELSE Step(f[k - 1], k)]
<1>1. n \in Nat /\ \A k \in 1 .. n : lines[k] \in Text /\ k - 1 \in 0 .. n
    OBVIOUS
<1>2. s0 \in States
    OBVIOUS
<1>3. \A k \in 1 .. n, before \in States : Step(before, k) \in States
    BY <1>1, DataAfterIs
<1> DEFINE upto == CHOOSE f : f = Body(f)
<1>4. DataOf(lines) = upto[n]
    BY DEF DataOf, DataAfter
<1> HIDE DEF n, States, s0, Step, turn, Body, upto
<1>5. /\ turn \in [1 .. n -> [States -> States]]
      /\ \A k \in 1 .. n, before \in States : turn[k][before] = Step(before, k)
    BY <1>3 DEF turn
<1>6. PICK f \in [0 .. n -> States] :
            f[0] = s0 /\ \A k \in 1 .. n : f[k] = turn[k][f[k - 1]]
  <2>1. n \in Nat
    BY <1>1
  <2>2. turn \in [1 .. n -> [States -> States]]
    BY <1>5
  <2> QED
    BY ONLY <1>2, <2>1, <2>2, LoopRuns, SMTT(30)
<1>7. f = Body(f)
  <2>1. \A k \in 1 .. n : f[k] = Step(f[k - 1], k)
    BY <1>1, <1>5, <1>6
  <2>2. \A k \in 0 .. n : f[k] = IF k = 0 THEN s0 ELSE Step(f[k - 1], k)
    BY <1>1, <1>6, <2>1
  <2> QED
    BY <1>6, <2>2 DEF Body
<1>8. upto = Body(upto)
    BY <1>7 DEF upto
<1>9. /\ upto \in [0 .. n -> States] /\ upto[0] = s0
      /\ \A k \in 1 .. n : upto[k] = Step(upto[k - 1], k)
  <2>1. upto = [k \in 0 .. n |-> IF k = 0 THEN s0 ELSE Step(upto[k - 1], k)]
    BY <1>8 DEF Body
  <2>2. n \in Nat
    BY <1>1
  <2>3. upto[0] = s0 /\ \A k \in 1 .. n : upto[k] = Step(upto[k - 1], k)
    BY ONLY <2>1, <2>2
  <2>4. \A k \in 1 .. n : upto[k - 1] \in States => upto[k] \in States
    BY <1>3, <2>3
  <2>5. \A k \in 0 .. n : upto[k] \in States
    BY <1>2, <2>2, <2>3, <2>4, LoopKeeps
  <2>6. DOMAIN upto = 0 .. n
    BY ONLY <2>1
  <2>7. upto = [k \in 0 .. n |-> upto[k]]
    BY ONLY <2>1, <2>6
  <2> QED
    BY <2>3, <2>5, <2>7
<1> QED
    BY <1>4, <1>9 DEF n, States, s0, Step

(* One line more.                                                           *)
LEMMA DataGrows ==
    /\ DataOf(<< >>) = << >>
    /\ \A lines \in Seq(Text) : DataOf(lines) \in Seq(Text)
    /\ \A lines \in Seq(Text), one \in Text :
          DataOf(Append(lines, one)) = DataAfter(DataOf(lines), one)
<1>1. DataOf(<< >>) = << >>
  <2>1. << >> \in Seq(Text) /\ Len(<< >>) = 0
    OBVIOUS
  <2> QED
    BY <2>1, DataOfAre
<1>2. ASSUME NEW lines \in Seq(Text)
      PROVE  DataOf(lines) \in Seq(Text)
  <2>1. Len(lines) \in 0 .. Len(lines)
    OBVIOUS
  <2> QED
    BY <2>1, DataOfAre
<1>3. ASSUME NEW lines \in Seq(Text), NEW one \in Text
      PROVE  DataOf(Append(lines, one)) = DataAfter(DataOf(lines), one)
  <2> DEFINE longer == Append(lines, one)
             n == Len(lines)
  <2>1. /\ longer \in Seq(Text) /\ Len(longer) = n + 1 /\ n \in Nat
        /\ \A k \in 1 .. n : longer[k] = lines[k]
        /\ longer[n + 1] = one
    BY AppendProperties
  <2> HIDE DEF longer
  <2>2. PICK f : /\ f \in [0 .. n -> Seq(Text)] /\ f[0] = << >>
                 /\ \A k \in 1 .. n : f[k] = DataAfter(f[k - 1], lines[k])
                 /\ DataOf(lines) = f[n]
    BY DataOfAre
  <2>3. PICK g : /\ g \in [0 .. n + 1 -> Seq(Text)] /\ g[0] = << >>
                 /\ \A k \in 1 .. n + 1 : g[k] = DataAfter(g[k - 1], longer[k])
                 /\ DataOf(longer) = g[n + 1]
    BY <2>1, DataOfAre
  <2> HIDE DEF n
  <2>4. \A k \in 1 .. n : g[k] = DataAfter(g[k - 1], lines[k])
    <3> SUFFICES ASSUME NEW k \in 1 .. n
                 PROVE  g[k] = DataAfter(g[k - 1], lines[k])
      OBVIOUS
    <3>1. k \in 1 .. n + 1 /\ longer[k] = lines[k]
      BY <2>1
    <3> QED
      BY <2>1, <2>3, <3>1
  <2>5. f[n] = g[n]
    <3>1. n \in Nat /\ f[0] = g[0]
      BY <2>1, <2>2, <2>3
    <3>2. \A k \in 1 .. n : f[k - 1] = g[k - 1] => f[k] = g[k]
      BY <2>2, <2>4
    <3> QED
      BY ONLY <3>1, <3>2, LoopsAgree
  <2>6. n + 1 \in 1 .. n + 1 /\ (n + 1) - 1 = n
    BY <2>1
  <2> QED
    BY <2>1, <2>2, <2>3, <2>5, <2>6 DEF longer
<1> QED
    BY <1>1, <1>2, <1>3

(* The data of events is collected event by event.                          *)
LEMMA FlatAre ==
    ASSUME NEW events \in Seq(ParsedEvent)
    PROVE  \E f : /\ f \in [0 .. Len(events) -> Seq(Text)] /\ f[0] = << >>
                  /\ \A k \in 1 .. Len(events) : f[k] = f[k - 1] \o events[k].data
                  /\ Flat(events) = f[Len(events)]
<1> DEFINE n == Len(events)
           States == Seq(Text)
           s0 == << >>
           Step(before, k) == before \o events[k].data
           turn == [k \in 1 .. n |-> [before \in States |-> Step(before, k)]]
           Body(f) == [k \in 0 .. n |-> IF k = 0 THEN s0 ELSE Step(f[k - 1], k)]
<1>1. n \in Nat /\ \A k \in 1 .. n : events[k] \in ParsedEvent /\ k - 1 \in 0 .. n
    OBVIOUS
<1>2. s0 \in States
    OBVIOUS
<1>3. \A k \in 1 .. n, before \in States : Step(before, k) \in States
    BY <1>1, ConcatProperties DEF ParsedEvent
<1> DEFINE upto == CHOOSE f : f = Body(f)
<1>4. Flat(events) = upto[n]
    BY DEF Flat
<1> HIDE DEF n, States, s0, Step, turn, Body, upto
<1>5. /\ turn \in [1 .. n -> [States -> States]]
      /\ \A k \in 1 .. n, before \in States : turn[k][before] = Step(before, k)
    BY <1>3 DEF turn
<1>6. PICK f \in [0 .. n -> States] :
            f[0] = s0 /\ \A k \in 1 .. n : f[k] = turn[k][f[k - 1]]
  <2>1. n \in Nat
    BY <1>1
  <2>2. turn \in [1 .. n -> [States -> States]]
    BY <1>5
  <2> QED
    BY ONLY <1>2, <2>1, <2>2, LoopRuns, SMTT(30)
<1>7. f = Body(f)
  <2>1. \A k \in 1 .. n : f[k] = Step(f[k - 1], k)
    BY <1>1, <1>5, <1>6
  <2>2. \A k \in 0 .. n : f[k] = IF k = 0 THEN s0 ELSE Step(f[k - 1], k)
    BY <1>1, <1>6, <2>1
  <2> QED
    BY <1>6, <2>2 DEF Body
<1>8. upto = Body(upto)
    BY <1>7 DEF upto
<1>9. /\ upto \in [0 .. n -> States] /\ upto[0] = s0
      /\ \A k \in 1 .. n : upto[k] = Step(upto[k - 1], k)
  <2>1. upto = [k \in 0 .. n |-> IF k = 0 THEN s0 ELSE Step(upto[k - 1], k)]
    BY <1>8 DEF Body
  <2>2. n \in Nat
    BY <1>1
  <2>3. upto[0] = s0 /\ \A k \in 1 .. n : upto[k] = Step(upto[k - 1], k)
    BY ONLY <2>1, <2>2
  <2>4. \A k \in 1 .. n : upto[k - 1] \in States => upto[k] \in States
    BY <1>3, <2>3
  <2>5. \A k \in 0 .. n : upto[k] \in States
    BY <1>2, <2>2, <2>3, <2>4, LoopKeeps
  <2>6. DOMAIN upto = 0 .. n
    BY ONLY <2>1
  <2>7. upto = [k \in 0 .. n |-> upto[k]]
    BY ONLY <2>1, <2>6
  <2> QED
    BY <2>3, <2>5, <2>7
<1> QED
    BY <1>4, <1>9 DEF n, States, s0, Step

(* One event more.                                                          *)
LEMMA FlatGrows ==
    /\ Flat(<< >>) = << >>
    /\ \A events \in Seq(ParsedEvent) : Flat(events) \in Seq(Text)
    /\ \A events \in Seq(ParsedEvent), one \in ParsedEvent :
          Flat(Append(events, one)) = Flat(events) \o one.data
<1>1. Flat(<< >>) = << >>
  <2>1. << >> \in Seq(ParsedEvent) /\ Len(<< >>) = 0
    OBVIOUS
  <2> QED
    BY <2>1, FlatAre
<1>2. ASSUME NEW events \in Seq(ParsedEvent)
      PROVE  Flat(events) \in Seq(Text)
  <2>1. Len(events) \in 0 .. Len(events)
    OBVIOUS
  <2>2. PICK f : f \in [0 .. Len(events) -> Seq(Text)] /\ Flat(events) = f[Len(events)]
    BY FlatAre
  <2> QED
    BY ONLY <2>1, <2>2
<1>3. ASSUME NEW events \in Seq(ParsedEvent), NEW one \in ParsedEvent
      PROVE  Flat(Append(events, one)) = Flat(events) \o one.data
  <2> DEFINE longer == Append(events, one)
             n == Len(events)
  <2>1. /\ longer \in Seq(ParsedEvent) /\ Len(longer) = n + 1 /\ n \in Nat
        /\ \A k \in 1 .. n : longer[k] = events[k]
        /\ longer[n + 1] = one
    BY AppendProperties
  <2> HIDE DEF longer
  <2>2. PICK f : /\ f \in [0 .. n -> Seq(Text)] /\ f[0] = << >>
                 /\ \A k \in 1 .. n : f[k] = f[k - 1] \o events[k].data
                 /\ Flat(events) = f[n]
    BY FlatAre
  <2>3. PICK g : /\ g \in [0 .. n + 1 -> Seq(Text)] /\ g[0] = << >>
                 /\ \A k \in 1 .. n + 1 : g[k] = g[k - 1] \o longer[k].data
                 /\ Flat(longer) = g[n + 1]
    BY <2>1, FlatAre
  <2> HIDE DEF n
  <2>4. \A k \in 1 .. n : g[k] = g[k - 1] \o events[k].data
    <3> SUFFICES ASSUME NEW k \in 1 .. n
                 PROVE  g[k] = g[k - 1] \o events[k].data
      OBVIOUS
    <3>1. k \in 1 .. n + 1 /\ longer[k] = events[k]
      BY <2>1
    <3> QED
      BY <2>1, <2>3, <3>1
  <2>5. f[n] = g[n]
    <3>1. n \in Nat /\ f[0] = g[0]
      BY <2>1, <2>2, <2>3
    <3>2. \A k \in 1 .. n : f[k - 1] = g[k - 1] => f[k] = g[k]
      BY <2>2, <2>4
    <3> QED
      BY ONLY <3>1, <3>2, LoopsAgree
  <2>6. n + 1 \in 1 .. n + 1 /\ (n + 1) - 1 = n
    BY <2>1
  <2> QED
    BY <2>1, <2>2, <2>3, <2>5, <2>6 DEF longer
<1> QED
    BY <1>1, <1>2, <1>3

(* Some numbers up to one have a greatest.                                 *)
LEMMA LastOne ==
    ASSUME NEW n \in Nat, NEW S \in SUBSET (1 .. n), S # {}
    PROVE  \E m \in S : \A j \in S : j <= m
<1> DEFINE HasLast(T) == T # {} => \E m \in T : \A j \in T : j <= m
           Good == {k \in Nat : \A T \in SUBSET (1 .. k) : HasLast(T)}
<1>1. 0 \in Good
  <2>1. SUBSET (1 .. 0) = {{}}
    OBVIOUS
  <2> QED
    BY <2>1
<1>2. ASSUME NEW k \in Good
      PROVE  k + 1 \in Good
  <2> SUFFICES ASSUME NEW T \in SUBSET (1 .. k + 1)
               PROVE  HasLast(T)
    OBVIOUS
  <2>1. CASE k + 1 \in T
    BY <2>1
  <2>2. CASE k + 1 \notin T
    <3>1. T \in SUBSET (1 .. k)
      BY <2>2
    <3> QED
      BY <3>1
  <2> QED
    BY <2>1, <2>2
<1> HIDE DEF Good
<1>3. Good = Nat
    BY <1>1, <1>2, AllNumbers DEF Good
<1> QED
    BY <1>3 DEF Good

(* The block before a line is made of lines.                               *)
LEMMA BlockIs ==
    ASSUME NEW lines \in Seq(Text), NEW b \in 1 .. Len(lines) + 1
    PROVE  \E first \in 1 .. b :
              /\ Block(lines, b) = SubSeq(lines, first, b - 1)
              /\ Block(lines, b) \in Seq(Text)
              /\ \A i \in first .. b - 1 : ~Blank(lines[i])
              /\ first > 1 => Blank(lines[first - 1])
<1> DEFINE before == {i \in 1 .. b - 1 : Blank(lines[i])}
           first == IF before = {} THEN 1 ELSE 1 + CHOOSE i \in before : \A j \in before : j <= i
<1>1. Block(lines, b) = SubSeq(lines, first, b - 1)
    BY DEF Block
<1>2. b \in Nat /\ Len(lines) \in Nat /\ b - 1 \in 0 .. Len(lines)
    OBVIOUS
<1>3. /\ first \in 1 .. b
      /\ \A i \in first .. b - 1 : i \notin before
      /\ first > 1 => first - 1 \in before
  <2>1. CASE before = {}
    BY <1>2, <2>1
  <2>2. CASE before # {}
    <3>1. PICK m \in before : \A j \in before : j <= m
      <4>1. b - 1 \in Nat /\ before \in SUBSET (1 .. b - 1)
        BY <1>2
      <4> HIDE DEF before
      <4> QED
        BY <2>2, <4>1, LastOne
    <3> DEFINE m2 == CHOOSE i \in before : \A j \in before : j <= i
    <3>2. m2 \in before /\ \A j \in before : j <= m2
      <4> HIDE DEF before
      <4> QED
        BY <3>1
    <3>3. first = 1 + m2
      BY <2>2
    <3> HIDE DEF m2, first
    <3>4. m2 \in 1 .. b - 1
      BY <3>2
    <3> HIDE DEF before
    <3> QED
      BY <1>2, <3>2, <3>3, <3>4
  <2> HIDE DEF before, first
  <2> QED
    BY <2>1, <2>2
<1>4. \A i \in first .. b - 1 : i \in 1 .. b - 1 /\ ~Blank(lines[i])
  <2> SUFFICES ASSUME NEW i \in first .. b - 1
               PROVE  i \in 1 .. b - 1 /\ ~Blank(lines[i])
    OBVIOUS
  <2>1. i \in 1 .. b - 1 /\ i \notin before
    <3> HIDE DEF before, first
    <3> QED
      BY <1>2, <1>3
  <2> QED
    BY <2>1
<1>5. first > 1 => Blank(lines[first - 1])
  <2>1. first > 1 => first - 1 \in before
    BY <1>3
  <2> HIDE DEF first
  <2> QED
    BY <2>1
<1> HIDE DEF first, before
<1>6. SubSeq(lines, first, b - 1) \in Seq(Text)
  <2>1. \A i \in first .. b - 1 : lines[i] \in Text
    <3> SUFFICES ASSUME NEW i \in first .. b - 1
                 PROVE  lines[i] \in Text
      OBVIOUS
    <3>1. i \in 1 .. Len(lines)
      BY <1>2, <1>4
    <3> QED
      BY <3>1, ElementOfSeq
  <2> QED
    BY <1>2, <1>3, <2>1, SubSeqProperties
<1> QED
    BY <1>1, <1>3, <1>4, <1>5, <1>6

(* What a line that ends a block adds.                                     *)
BlockAfter(before, line, block) ==
    IF Blank(line) /\ DataOf(block) # << >> THEN Append(before, DataOf(block)) ELSE before

(* It is the block that starts after a blank line, or at the first line,   *)
(* and has none of its own.                                                *)
LEMMA OneBlock ==
    ASSUME NEW lines \in Seq(Text), NEW b \in 1 .. Len(lines) + 1, NEW first \in 1 .. b,
           \A i \in first .. b - 1 : ~Blank(lines[i]),
           first > 1 => Blank(lines[first - 1])
    PROVE  Block(lines, b) = SubSeq(lines, first, b - 1)
<1>1. PICK other \in 1 .. b :
            /\ Block(lines, b) = SubSeq(lines, other, b - 1)
            /\ \A i \in other .. b - 1 : ~Blank(lines[i])
            /\ other > 1 => Blank(lines[other - 1])
    BY BlockIs
<1>2. ~(other < first)
  <2> SUFFICES ASSUME other < first
               PROVE  FALSE
    OBVIOUS
  <2>1. first - 1 \in other .. b - 1 /\ first > 1
    OBVIOUS
  <2> QED
    BY <1>1, <2>1
<1>3. ~(first < other)
  <2> SUFFICES ASSUME first < other
               PROVE  FALSE
    OBVIOUS
  <2>1. other - 1 \in first .. b - 1 /\ other > 1
    OBVIOUS
  <2> QED
    BY <1>1, <2>1
<1>4. first = other
    BY <1>2, <1>3
<1> QED
    BY <1>1, <1>4

(* What a line later in the sequence is does not matter to a block.        *)
LEMMA BlockStays ==
    ASSUME NEW lines \in Seq(Text), NEW one \in Text, NEW b \in 1 .. Len(lines) + 1
    PROVE  Block(Append(lines, one), b) = Block(lines, b)
<1> DEFINE longer == Append(lines, one)
<1>1. /\ longer \in Seq(Text) /\ Len(longer) = Len(lines) + 1 /\ Len(lines) \in Nat
      /\ \A i \in 1 .. Len(lines) : longer[i] = lines[i]
    BY AppendProperties
<1> HIDE DEF longer
<1>2. PICK first \in 1 .. b :
            /\ Block(lines, b) = SubSeq(lines, first, b - 1)
            /\ Block(lines, b) \in Seq(Text)
            /\ \A i \in first .. b - 1 : ~Blank(lines[i])
            /\ first > 1 => Blank(lines[first - 1])
    BY BlockIs
<1>3. b \in 1 .. Len(longer) + 1
    BY <1>1
<1>4. \A i \in first .. b - 1 : ~Blank(longer[i])
  <2> SUFFICES ASSUME NEW i \in first .. b - 1
               PROVE  ~Blank(longer[i])
    OBVIOUS
  <2>1. i \in 1 .. Len(lines)
    BY <1>1
  <2> QED
    BY <1>1, <1>2, <2>1
<1>5. first > 1 => Blank(longer[first - 1])
  <2> SUFFICES ASSUME first > 1
               PROVE  Blank(longer[first - 1])
    OBVIOUS
  <2>1. first - 1 \in 1 .. Len(lines)
    BY <1>1
  <2> QED
    BY <1>1, <1>2, <2>1
<1>6. Block(longer, b) = SubSeq(longer, first, b - 1)
    BY <1>1, <1>3, <1>4, <1>5, OneBlock
<1>7. SubSeq(longer, first, b - 1) = SubSeq(lines, first, b - 1)
  <2>1. \A i \in first .. b - 1 : lines[i] \in Text /\ longer[i] = lines[i]
    <3> SUFFICES ASSUME NEW i \in first .. b - 1
                 PROVE  lines[i] \in Text /\ longer[i] = lines[i]
      OBVIOUS
    <3>1. i \in 1 .. Len(lines)
      BY <1>1
    <3> QED
      BY <1>1, <3>1, ElementOfSeq
  <2> DEFINE s == SubSeq(lines, first, b - 1)
             t == SubSeq(longer, first, b - 1)
  <2>2. /\ s \in Seq(Text) /\ Len(s) = b - first
        /\ \A i \in 1 .. b - first : s[i] = lines[first + i - 1]
    BY <1>1, <2>1, SubSeqProperties
  <2>3. /\ t \in Seq(Text) /\ Len(t) = b - first
        /\ \A i \in 1 .. b - first : t[i] = longer[first + i - 1]
    BY <1>1, <2>1, SubSeqProperties
  <2> HIDE DEF s, t
  <2>4. \A i \in 1 .. b - first : s[i] = t[i]
    <3> SUFFICES ASSUME NEW i \in 1 .. b - first
                 PROVE  s[i] = t[i]
      OBVIOUS
    <3>1. first + i - 1 \in first .. b - 1
      BY <1>1
    <3> QED
      BY <2>1, <2>2, <2>3, <3>1
  <2>5. s = t
    BY <2>2, <2>3, <2>4, SeqEqual
  <2> QED
    BY <2>5 DEF s, t
<1> QED
    BY <1>2, <1>6, <1>7 DEF longer

(* The blocks are gone through line by line.                                *)
LEMMA BlocksAre ==
    ASSUME NEW lines \in Seq(Text)
    PROVE  \E f : /\ f \in [0 .. Len(lines) -> Seq(Seq(Text))] /\ f[0] = << >>
                  /\ \A k \in 1 .. Len(lines) :
                        f[k] = BlockAfter(f[k - 1], lines[k], Block(lines, k))
                  /\ DataOfEachBlock(lines) = f[Len(lines)]
<1> DEFINE n == Len(lines)
           States == Seq(Seq(Text))
           s0 == << >>
           Step(before, k) == BlockAfter(before, lines[k], Block(lines, k))
           turn == [k \in 1 .. n |-> [before \in States |-> Step(before, k)]]
           Body(f) == [k \in 0 .. n |-> IF k = 0 THEN s0 ELSE Step(f[k - 1], k)]
<1>1. n \in Nat /\ \A k \in 1 .. n : lines[k] \in Text /\ k - 1 \in 0 .. n
    OBVIOUS
<1>2. s0 \in States
    OBVIOUS
<1>3. \A k \in 1 .. n, before \in States : Step(before, k) \in States
    BY <1>1, BlockIs, DataGrows DEF BlockAfter
<1> DEFINE upto == CHOOSE f : f = Body(f)
<1>4. DataOfEachBlock(lines) = upto[n]
    BY DEF DataOfEachBlock, BlockAfter
<1> HIDE DEF n, States, s0, Step, turn, Body, upto
<1>5. /\ turn \in [1 .. n -> [States -> States]]
      /\ \A k \in 1 .. n, before \in States : turn[k][before] = Step(before, k)
    BY <1>3 DEF turn
<1>6. PICK f \in [0 .. n -> States] :
            f[0] = s0 /\ \A k \in 1 .. n : f[k] = turn[k][f[k - 1]]
  <2>1. n \in Nat
    BY <1>1
  <2>2. turn \in [1 .. n -> [States -> States]]
    BY <1>5
  <2> QED
    BY ONLY <1>2, <2>1, <2>2, LoopRuns, SMTT(30)
<1>7. f = Body(f)
  <2>1. \A k \in 1 .. n : f[k] = Step(f[k - 1], k)
    BY <1>1, <1>5, <1>6
  <2>2. \A k \in 0 .. n : f[k] = IF k = 0 THEN s0 ELSE Step(f[k - 1], k)
    BY <1>1, <1>6, <2>1
  <2> QED
    BY <1>6, <2>2 DEF Body
<1>8. upto = Body(upto)
    BY <1>7 DEF upto
<1>9. /\ upto \in [0 .. n -> States] /\ upto[0] = s0
      /\ \A k \in 1 .. n : upto[k] = Step(upto[k - 1], k)
  <2>1. upto = [k \in 0 .. n |-> IF k = 0 THEN s0 ELSE Step(upto[k - 1], k)]
    BY <1>8 DEF Body
  <2>2. n \in Nat
    BY <1>1
  <2>3. upto[0] = s0 /\ \A k \in 1 .. n : upto[k] = Step(upto[k - 1], k)
    BY ONLY <2>1, <2>2
  <2>4. \A k \in 1 .. n : upto[k - 1] \in States => upto[k] \in States
    BY <1>3, <2>3
  <2>5. \A k \in 0 .. n : upto[k] \in States
    BY <1>2, <2>2, <2>3, <2>4, LoopKeeps
  <2>6. DOMAIN upto = 0 .. n
    BY ONLY <2>1
  <2>7. upto = [k \in 0 .. n |-> upto[k]]
    BY ONLY <2>1, <2>6
  <2> QED
    BY <2>3, <2>5, <2>7
<1> QED
    BY <1>4, <1>9 DEF n, States, s0, Step

(* One line more.                                                           *)
LEMMA BlocksGrow ==
    /\ DataOfEachBlock(<< >>) = << >>
    /\ \A lines \in Seq(Text) : DataOfEachBlock(lines) \in Seq(Seq(Text))
    /\ \A lines \in Seq(Text), one \in Text :
          DataOfEachBlock(Append(lines, one))
              = BlockAfter(DataOfEachBlock(lines), one, Block(lines, Len(lines) + 1))
<1>1. DataOfEachBlock(<< >>) = << >>
  <2>1. << >> \in Seq(Text) /\ Len(<< >>) = 0
    OBVIOUS
  <2> QED
    BY <2>1, BlocksAre
<1>2. ASSUME NEW lines \in Seq(Text)
      PROVE  DataOfEachBlock(lines) \in Seq(Seq(Text))
  <2>1. Len(lines) \in 0 .. Len(lines)
    OBVIOUS
  <2> QED
    BY <2>1, BlocksAre
<1>3. ASSUME NEW lines \in Seq(Text), NEW one \in Text
      PROVE  DataOfEachBlock(Append(lines, one))
                 = BlockAfter(DataOfEachBlock(lines), one, Block(lines, Len(lines) + 1))
  <2> DEFINE longer == Append(lines, one)
             n == Len(lines)
  <2>1. /\ longer \in Seq(Text) /\ Len(longer) = n + 1 /\ n \in Nat
        /\ \A k \in 1 .. n : longer[k] = lines[k]
        /\ longer[n + 1] = one
    BY AppendProperties
  <2> HIDE DEF longer
  <2>2. PICK f : /\ f \in [0 .. n -> Seq(Seq(Text))] /\ f[0] = << >>
                 /\ \A k \in 1 .. n : f[k] = BlockAfter(f[k - 1], lines[k], Block(lines, k))
                 /\ DataOfEachBlock(lines) = f[n]
    BY BlocksAre
  <2>3. PICK g : /\ g \in [0 .. n + 1 -> Seq(Seq(Text))] /\ g[0] = << >>
                 /\ \A k \in 1 .. n + 1 : g[k] = BlockAfter(g[k - 1], longer[k], Block(longer, k))
                 /\ DataOfEachBlock(longer) = g[n + 1]
    BY <2>1, BlocksAre
  <2> HIDE DEF n
  <2>4. \A k \in 1 .. n : g[k] = BlockAfter(g[k - 1], lines[k], Block(lines, k))
    <3> SUFFICES ASSUME NEW k \in 1 .. n
                 PROVE  g[k] = BlockAfter(g[k - 1], lines[k], Block(lines, k))
      OBVIOUS
    <3>1. k \in 1 .. n + 1 /\ longer[k] = lines[k]
      BY <2>1
    <3>2. Block(longer, k) = Block(lines, k)
      <4>1. k \in 1 .. Len(lines) + 1
        BY <3>1 DEF n
      <4> QED
        BY <4>1, BlockStays DEF longer
    <3> QED
      BY <2>3, <3>1, <3>2
  <2>5. f[n] = g[n]
    <3>1. n \in Nat /\ f[0] = g[0]
      BY <2>1, <2>2, <2>3
    <3>2. \A k \in 1 .. n : f[k - 1] = g[k - 1] => f[k] = g[k]
      BY <2>2, <2>4
    <3> QED
      BY ONLY <3>1, <3>2, LoopsAgree
  <2>6. n + 1 \in 1 .. n + 1 /\ (n + 1) - 1 = n
    BY <2>1
  <2>7. Block(longer, n + 1) = Block(lines, n + 1)
    <3>1. n + 1 \in 1 .. Len(lines) + 1
      BY <2>1 DEF n
    <3> QED
      BY <3>1, BlockStays DEF longer
  <2> QED
    BY <2>1, <2>2, <2>3, <2>5, <2>6, <2>7 DEF longer, n
<1> QED
    BY <1>1, <1>2, <1>3

(* A line that is not blank joins the block, a blank one starts the next.  *)
LEMMA BlockGoesOn ==
    ASSUME NEW lines \in Seq(Text), NEW one \in Text
    PROVE  LET block == Block(lines, Len(lines) + 1)
               next == Block(Append(lines, one), Len(Append(lines, one)) + 1)
           IN  /\ block \in Seq(Text)
               /\ next = IF Blank(one) THEN << >> ELSE Append(block, one)
<1> DEFINE longer == Append(lines, one)
           n == Len(lines)
<1>1. /\ longer \in Seq(Text) /\ Len(longer) = n + 1 /\ n \in Nat
      /\ \A i \in 1 .. n : longer[i] = lines[i]
      /\ longer[n + 1] = one
    BY AppendProperties
<1> HIDE DEF longer
<1>2. PICK first \in 1 .. n + 1 :
            /\ Block(lines, n + 1) = SubSeq(lines, first, n)
            /\ Block(lines, n + 1) \in Seq(Text)
            /\ \A i \in first .. n : ~Blank(lines[i])
            /\ first > 1 => Blank(lines[first - 1])
  <2>1. n + 1 \in 1 .. Len(lines) + 1 /\ (n + 1) - 1 = n
    BY <1>1
  <2> QED
    BY <2>1, BlockIs
<1> HIDE DEF n
<1>3. CASE Blank(one)
  <2>1. Block(longer, n + 2) = SubSeq(longer, n + 2, n + 1)
    <3>1. /\ n + 2 \in 1 .. Len(longer) + 1 /\ n + 2 \in 1 .. n + 2
          /\ (n + 2) - 1 = n + 1
          /\ \A i \in n + 2 .. n + 1 : ~Blank(longer[i])
      BY <1>1
    <3> QED
      BY <1>1, <1>3, <3>1, OneBlock
  <2>2. SubSeq(longer, n + 2, n + 1) = << >>
    BY <1>1
  <2> QED
    BY <1>1, <1>2, <1>3, <2>1, <2>2 DEF longer, n
<1>4. CASE ~Blank(one)
  <2>1. \A i \in first .. n + 1 : ~Blank(longer[i])
    <3> SUFFICES ASSUME NEW i \in first .. n + 1
                 PROVE  ~Blank(longer[i])
      OBVIOUS
    <3>1. CASE i = n + 1
      BY <1>1, <1>4, <3>1
    <3>2. CASE i # n + 1
      <4>1. i \in 1 .. n /\ i \in first .. n
        BY <1>1, <3>2
      <4> QED
        BY <1>1, <1>2, <4>1
    <3> QED
      BY <3>1, <3>2
  <2>2. first > 1 => Blank(longer[first - 1])
    <3> SUFFICES ASSUME first > 1
                 PROVE  Blank(longer[first - 1])
      OBVIOUS
    <3>1. first - 1 \in 1 .. n
      BY <1>1
    <3> QED
      BY <1>1, <1>2, <3>1
  <2>3. Block(longer, n + 2) = SubSeq(longer, first, n + 1)
    <3>1. n + 2 \in 1 .. Len(longer) + 1 /\ first \in 1 .. n + 2 /\ (n + 2) - 1 = n + 1
      BY <1>1
    <3> QED
      BY <1>1, <2>1, <2>2, <3>1, OneBlock
  <2>4. SubSeq(longer, first, n + 1) = Append(SubSeq(lines, first, n), one)
    <3>1. \A i \in first .. n + 1 : longer[i] \in Text
      <4> SUFFICES ASSUME NEW i \in first .. n + 1
                   PROVE  longer[i] \in Text
        OBVIOUS
      <4>1. i \in 1 .. Len(longer)
        BY <1>1
      <4> QED
        BY <1>1, <4>1, ElementOfSeq
    <3>2. \A i \in first .. n : lines[i] \in Text
      <4> SUFFICES ASSUME NEW i \in first .. n
                   PROVE  lines[i] \in Text
        OBVIOUS
      <4>1. i \in 1 .. Len(lines)
        BY <1>1 DEF n
      <4> QED
        BY <4>1, ElementOfSeq
    <3> DEFINE s == SubSeq(longer, first, n + 1)
               t == SubSeq(lines, first, n)
               u == Append(t, one)
    <3>3. /\ s \in Seq(Text) /\ Len(s) = n + 2 - first
          /\ \A i \in 1 .. n + 2 - first : s[i] = longer[first + i - 1]
      BY <1>1, <3>1, SubSeqProperties
    <3>4. /\ t \in Seq(Text) /\ Len(t) = n + 1 - first
          /\ \A i \in 1 .. n + 1 - first : t[i] = lines[first + i - 1]
      BY <1>1, <3>2, SubSeqProperties
    <3> HIDE DEF s, t
    <3>5. /\ u \in Seq(Text) /\ Len(u) = n + 2 - first
          /\ \A i \in 1 .. n + 1 - first : u[i] = t[i]
          /\ u[n + 2 - first] = one
      <4>1. Len(t) + 1 = n + 2 - first
        BY <1>1, <3>4
      <4> QED
        BY <3>4, <4>1, AppendProperties
    <3> HIDE DEF u
    <3>6. \A i \in 1 .. n + 2 - first : s[i] = u[i]
      <4> SUFFICES ASSUME NEW i \in 1 .. n + 2 - first
                   PROVE  s[i] = u[i]
        OBVIOUS
      <4>1. CASE i = n + 2 - first
        <5>1. first + i - 1 = n + 1
          BY <1>1, <4>1
        <5> QED
          BY <1>1, <3>3, <3>5, <4>1, <5>1
      <4>2. CASE i # n + 2 - first
        <5>1. i \in 1 .. n + 1 - first /\ first + i - 1 \in 1 .. n
          BY <1>1, <4>2
        <5> QED
          BY <1>1, <3>3, <3>4, <3>5, <5>1
      <4> QED
        BY <4>1, <4>2
    <3>7. s = u
      BY <3>3, <3>5, <3>6, SeqEqual
    <3> QED
      BY <3>7 DEF s, t, u
  <2>5. Len(longer) + 1 = n + 2
    BY <1>1
  <2> QED
    BY <1>2, <1>4, <2>3, <2>4, <2>5 DEF longer, n
<1> QED
    BY <1>3, <1>4

-----------------------------------------------------------------------------
(* Texts and lines that follow one another.                                *)

(* Sequences that follow one another are one however they are grouped.     *)
LEMMA Regroup ==
    ASSUME NEW E
    PROVE  \A a, b, c \in Seq(E) : a \o b \in Seq(E) /\ (a \o b) \o c = a \o (b \o c)
BY ONLY ConcatProperties, ConcatAssociative, SMTT(30)

(* Texts that follow one another are a text.                               *)
LEMMA TextsJoin == \A a, b \in Text : a \o b \in Text
BY ConcatProperties DEF Text

(* It is the same one however they are grouped.                            *)
LEMMA TextsGroup == \A a, b, c \in Text : (a \o b) \o c = a \o (b \o c)
BY Regroup DEF Text

(* So it is for lines.                                                     *)
LEMMA LinesGroup ==
    \A a, b, c \in Seq(Text) : (a \o b) \o c = a \o (b \o c)
BY Regroup

(* So it is for events.                                                    *)
LEMMA EventsGroup ==
    \A a, b, c \in Seq(ParsedEvent) : (a \o b) \o c = a \o (b \o c)
BY Regroup

(* What is appended to the second is appended to both.                     *)
LEMMA JoinGrows ==
    ASSUME NEW E, NEW s \in Seq(E), NEW t \in Seq(E), NEW e \in E
    PROVE  s \o Append(t, e) = Append(s \o t, e)
<1>1. Append(t, e) = t \o << e >> /\ << e >> \in Seq(E)
    BY AppendIsConcat
<1>2. s \o (t \o << e >>) = (s \o t) \o << e >>
    BY <1>1, ConcatAssociative
<1>3. s \o t \in Seq(E)
    BY ConcatProperties
<1>4. Append(s \o t, e) = (s \o t) \o << e >>
    BY <1>3, AppendIsConcat
<1> QED
    BY <1>1, <1>2, <1>4

(* A line that is over ends one event at most.                             *)
Ends(s, line) == Blank(line) /\ s.data # << >>

(* What one turn of the loop does to each part of its state.               *)
LEMMA TurnIs ==
    ASSUME NEW s \in LoopState, NEW line \in Text
    PROVE  LET t == ParseSSELine(s, line)
           IN  /\ t \in LoopState
               /\ t.position = s.position + Len(line) + 1
               /\ t.event = IF Is(Event, line) THEN Tail(line)
                            ELSE IF Ends(s, line) THEN NoField ELSE s.event
               /\ t.data = IF Is(Data, line) THEN Append(s.data, Tail(line))
                           ELSE IF Ends(s, line) THEN << >> ELSE s.data
               /\ t.events = IF Ends(s, line) THEN Append(s.events, Complete(s)) ELSE s.events
               /\ t.end = IF Ends(s, line) THEN t.position ELSE s.end
<1> DEFINE at == s.position + Len(line) + 1
           u == [s EXCEPT !.position = at]
           t == ParseSSELine(s, line)
<1>1. /\ u.event = s.event /\ u.data = s.data /\ u.events = s.events /\ u.end = s.end
      /\ u.position = at /\ u = [event |-> u.event, data |-> u.data, events |-> u.events,
                                 position |-> u.position, end |-> u.end]
    BY DEF LoopState
<1>2. t \in LoopState
    BY TurnKeepsTypes
<1>3. Blank(line) => ~Is(Event, line) /\ ~Is(Data, line)
    BY DEF Is
<1>4. ~(Is(Event, line) /\ Is(Data, line))
    BY DEF Is, Event, Data
<1>5. t = IF Is(Event, line) THEN [u EXCEPT !.event = Tail(line)]
          ELSE IF Is(Data, line) THEN [u EXCEPT !.data = Append(@, Tail(line))]
          ELSE IF Ends(s, line)
          THEN [u EXCEPT !.events = Append(@, Complete(s)), !.event = NoField,
                         !.data = << >>, !.end = at]
          ELSE u
    BY DEF ParseSSELine, Ends
<1>6. Ends(s, line) => Blank(line)
    BY DEF Ends
<1> HIDE DEF at, u, t
<1>7. CASE Is(Event, line)
    BY <1>1, <1>2, <1>3, <1>4, <1>5, <1>6, <1>7 DEF at, t
<1>8. CASE ~Is(Event, line) /\ Is(Data, line)
    BY <1>1, <1>2, <1>3, <1>4, <1>5, <1>6, <1>8 DEF at, t
<1>9. CASE ~Is(Event, line) /\ ~Is(Data, line) /\ Ends(s, line)
    BY <1>1, <1>2, <1>5, <1>9 DEF at, t
<1>10. CASE ~Is(Event, line) /\ ~Is(Data, line) /\ ~Ends(s, line)
    BY <1>1, <1>2, <1>5, <1>10 DEF at, t
<1> QED
    BY <1>7, <1>8, <1>9, <1>10

(* After a text that ends at the end of a line, lines start anew.          *)
LEMMA LinesJoin ==
    ASSUME NEW text \in Text, Open(text) = << >>, NEW more \in Text
    PROVE  /\ text \o more \in Text
           /\ Finished(text \o more) = Finished(text) \o Finished(more)
           /\ Open(text \o more) = Open(more)
<1> DEFINE Good == {q \in Text : /\ text \o q \in Text
                                 /\ Finished(text \o q) = Finished(text) \o Finished(q)
                                 /\ Open(text \o q) = Open(q)}
<1>1. << >> \in Good
  <2>1. << >> \in Text /\ text \o << >> = text
    BY ConcatEmptySeq DEF Text
  <2>2. Finished(text) \in Seq(Text) /\ Finished(<< >>) = << >> /\ Open(<< >>) = << >>
    BY FinishedGrows
  <2>3. Finished(text) \o << >> = Finished(text)
    BY <2>2, ConcatEmptySeq
  <2> QED
    BY <2>1, <2>2, <2>3
<1>2. ASSUME NEW q \in Good, NEW c \in Characters
      PROVE  Append(q, c) \in Good
  <2> DEFINE longer == Append(q, c)
             both == text \o q
  <2>1. q \in Text /\ both \in Text /\ Finished(both) = Finished(text) \o Finished(q)
        /\ Open(both) = Open(q)
    OBVIOUS
  <2>2. longer \in Text /\ text \o longer = Append(both, c) /\ Append(both, c) \in Text
    BY <2>1, JoinGrows, AppendProperties DEF Text
  <2>3. /\ Finished(text) \in Seq(Text) /\ Finished(q) \in Seq(Text) /\ Open(q) \in Text
    BY <2>1, FinishedGrows
  <2> HIDE DEF longer, both, Good
  <2>4. CASE c = NewLine
    <3>1. /\ Finished(longer) = Append(Finished(q), Open(q)) /\ Open(longer) = << >>
      BY <2>1, <2>4, FinishedGrows DEF longer
    <3>2. /\ Finished(Append(both, c)) = Append(Finished(both), Open(both))
          /\ Open(Append(both, c)) = << >>
      BY <2>1, <2>4, FinishedGrows
    <3>3. Append(Finished(text) \o Finished(q), Open(q))
             = Finished(text) \o Append(Finished(q), Open(q))
      <4> DEFINE a == Finished(text)
                 b == Finished(q)
                 l == Open(q)
      <4>1. a \in Seq(Text) /\ b \in Seq(Text) /\ l \in Text
        BY <2>3
      <4> HIDE DEF a, b, l
      <4>2. a \o Append(b, l) = Append(a \o b, l)
        BY ONLY <4>1, JoinGrows, SMTT(30)
      <4> QED
        BY <4>2 DEF a, b, l
    <3> QED
      BY <2>1, <2>2, <3>1, <3>2, <3>3 DEF Good, longer
  <2>5. CASE c # NewLine
    <3>1. /\ Finished(longer) = Finished(q) /\ Open(longer) = Append(Open(q), c)
      BY <2>1, <2>5, FinishedGrows DEF longer
    <3>2. /\ Finished(Append(both, c)) = Finished(both)
          /\ Open(Append(both, c)) = Append(Open(both), c)
      BY <2>1, <2>5, FinishedGrows
    <3> QED
      BY <2>1, <2>2, <3>1, <3>2 DEF Good, longer
  <2> QED
    BY <2>4, <2>5 DEF longer
<1> HIDE DEF Good
<1>3. Good = Text
  <2>1. Good \in SUBSET Seq(Characters)
    BY DEF Good, Text
  <2>2. \A s \in Good : \A e \in Characters : Append(s, e) \in Good
    BY <1>2
  <2>3. Good = Seq(Characters)
    BY ONLY <1>1, <2>1, <2>2, AllSequences
  <2> QED
    BY <2>3 DEF Text
<1> QED
    BY <1>3 DEF Good

(* The loop over the lines starts anew where an event has ended.           *)
LEMMA TurnsJoin ==
    ASSUME NEW lines \in Seq(Text), NEW more \in Seq(Text),
           Turns(lines).event = NoField, Turns(lines).data = << >>,
           Turns(lines).end = Turns(lines).position
    PROVE  LET s == Turns(lines)  t == Turns(more)  u == Turns(lines \o more)
           IN  /\ lines \o more \in Seq(Text)
               /\ u.event = t.event /\ u.data = t.data
               /\ u.events = s.events \o t.events
               /\ u.position = s.position + t.position
               /\ u.end = s.position + t.end
<1> DEFINE s == Turns(lines)
           Same(t, u) == /\ u.event = t.event /\ u.data = t.data
                         /\ u.events = s.events \o t.events
                         /\ u.position = s.position + t.position
                         /\ u.end = s.position + t.end
           Good == {q \in Seq(Text) : lines \o q \in Seq(Text)
                                      /\ Same(Turns(q), Turns(lines \o q))}
<1>1. s \in LoopState /\ s.events \in Seq(ParsedEvent) /\ s.position \in Nat
    BY TurnsGrow DEF LoopState
<1>2. << >> \in Good
  <2>1. lines \o << >> = lines /\ << >> \in Seq(Text)
    BY ConcatEmptySeq
  <2>2. Turns(<< >>) = Start
    BY TurnsGrow
  <2>3. s.events \o << >> = s.events
    BY <1>1, ConcatEmptySeq
  <2>4. Same(Start, s)
    BY <1>1, <2>3 DEF Start
  <2> HIDE DEF Same
  <2> QED
    BY <2>1, <2>2, <2>4
<1>3. ASSUME NEW q \in Good, NEW line \in Text
      PROVE  Append(q, line) \in Good
  <2> DEFINE t == Turns(q)
             u == Turns(lines \o q)
             t2 == ParseSSELine(t, line)
             u2 == ParseSSELine(u, line)
  <2>1. q \in Seq(Text) /\ lines \o q \in Seq(Text) /\ Same(t, u)
    OBVIOUS
  <2>2. /\ Append(q, line) \in Seq(Text) /\ Append(lines \o q, line) \in Seq(Text)
        /\ lines \o Append(q, line) = Append(lines \o q, line)
    BY <2>1, JoinGrows, AppendProperties
  <2>3. Turns(Append(q, line)) = t2 /\ Turns(Append(lines \o q, line)) = u2
    BY <2>1, TurnsGrow
  <2>4. t \in LoopState /\ u \in LoopState
    BY <2>1, TurnsGrow
  <2> HIDE DEF s, t, u, Good
  <2>5. t.events \in Seq(ParsedEvent) /\ t.position \in Nat /\ t.end \in Nat
        /\ Len(line) \in Nat
    BY <2>4 DEF LoopState, Text
  <2>6. Ends(t, line) <=> Ends(u, line)
    BY <2>1 DEF Ends
  <2>7. u2.position = s.position + t2.position
    <3>1. t2.position = t.position + Len(line) + 1 /\ u2.position = u.position + Len(line) + 1
      BY <2>4, TurnIs
    <3> HIDE DEF t2, u2
    <3> QED
      BY <1>1, <2>1, <2>5, <3>1
  <2>8. u2.event = t2.event /\ u2.data = t2.data
    <3>1. /\ t2.event = IF Is(Event, line) THEN Tail(line)
                        ELSE IF Ends(t, line) THEN NoField ELSE t.event
          /\ t2.data = IF Is(Data, line) THEN Append(t.data, Tail(line))
                       ELSE IF Ends(t, line) THEN << >> ELSE t.data
      BY <2>4, TurnIs
    <3>2. /\ u2.event = IF Is(Event, line) THEN Tail(line)
                        ELSE IF Ends(u, line) THEN NoField ELSE u.event
          /\ u2.data = IF Is(Data, line) THEN Append(u.data, Tail(line))
                       ELSE IF Ends(u, line) THEN << >> ELSE u.data
      BY <2>4, TurnIs
    <3>3. u.event = t.event /\ u.data = t.data
      BY <2>1
    <3> QED
      BY ONLY <2>6, <3>1, <3>2, <3>3
  <2>9. u2.events = s.events \o t2.events
    <3>1. CASE Ends(t, line)
      <4>1. t2.events = Append(t.events, Complete(t)) /\ u2.events = Append(u.events, Complete(u))
        BY <2>4, <2>6, <3>1, TurnIs
      <4>2. Complete(t) = Complete(u) /\ Complete(t) \in ParsedEvent
        BY <2>1, <2>4 DEF Complete, LoopState, ParsedEvent
      <4>3. s.events \o Append(t.events, Complete(t)) = Append(s.events \o t.events, Complete(t))
        <5> DEFINE a == s.events
                   b == t.events
                   e == Complete(t)
        <5>1. a \in Seq(ParsedEvent) /\ b \in Seq(ParsedEvent) /\ e \in ParsedEvent
          BY <1>1, <2>5, <4>2
        <5> HIDE DEF a, b, e
        <5>2. a \o Append(b, e) = Append(a \o b, e)
          BY ONLY <5>1, JoinGrows, SMTT(30)
        <5> QED
          BY <5>2 DEF a, b, e
      <4> QED
        BY <2>1, <4>1, <4>2, <4>3
    <3>2. CASE ~Ends(t, line)
      BY <2>1, <2>4, <2>6, <3>2, TurnIs
    <3> QED
      BY <3>1, <3>2
  <2>10. u2.end = s.position + t2.end
    <3>1. CASE Ends(t, line)
      BY <2>4, <2>6, <2>7, <3>1, TurnIs
    <3>2. CASE ~Ends(t, line)
      BY <2>1, <2>4, <2>6, <3>2, TurnIs
    <3> QED
      BY <3>1, <3>2
  <2>11. Same(t2, u2)
    BY <2>7, <2>8, <2>9, <2>10
  <2> HIDE DEF t2, u2, Same
  <2> QED
    BY <2>2, <2>3, <2>11 DEF Good
<1> HIDE DEF Good
<1>4. Good = Seq(Text)
  <2>1. Good \in SUBSET Seq(Text)
    BY DEF Good
  <2>2. \A q \in Good : \A e \in Text : Append(q, e) \in Good
    BY <1>3
  <2> QED
    BY <1>2, <2>1, <2>2, AllSequences
<1>5. lines \o more \in Seq(Text) /\ Same(Turns(more), Turns(lines \o more))
  <2>1. more \in Good
    BY <1>4
  <2> HIDE DEF Same
  <2> QED
    BY <2>1 DEF Good
<1> QED
    BY <1>5

-----------------------------------------------------------------------------
(* What the loop has when the lines that are over have been gone through.  *)

(* It is as far in the text as the last line that is over ends.            *)
LEMMA PositionIs ==
    ASSUME NEW text \in Text
    PROVE  Turns(Finished(text)).position + Len(Open(text)) = Len(text)
<1> DEFINE Good == {q \in Text : Turns(Finished(q)).position + Len(Open(q)) = Len(q)}
<1>1. << >> \in Good
  <2>1. << >> \in Text /\ Finished(<< >>) = << >> /\ Open(<< >>) = << >> /\ Len(<< >>) = 0
    BY FinishedGrows DEF Text
  <2>2. Turns(<< >>).position = 0
    BY TurnsGrow DEF Start
  <2> QED
    BY <2>1, <2>2
<1>2. ASSUME NEW q \in Good, NEW c \in Characters
      PROVE  Append(q, c) \in Good
  <2> DEFINE longer == Append(q, c)
             s == Turns(Finished(q))
             t == Turns(Finished(longer))
  <2>1. q \in Text /\ s.position + Len(Open(q)) = Len(q)
    OBVIOUS
  <2>2. longer \in Text /\ Len(longer) = Len(q) + 1 /\ Len(q) \in Nat
    BY <2>1, AppendProperties DEF Text
  <2>3. Finished(q) \in Seq(Text) /\ Open(q) \in Text
    BY <2>1, FinishedGrows
  <2>4. s \in LoopState /\ s.position \in Nat /\ Len(Open(q)) \in Nat
    <3>1. s \in LoopState
      BY <2>3, TurnsGrow
    <3>2. Len(Open(q)) \in Nat
      BY <2>3 DEF Text
    <3> HIDE DEF s
    <3> QED
      BY <3>1, <3>2 DEF LoopState
  <2> HIDE DEF Good
  <2>5. t.position + Len(Open(longer)) = Len(longer)
    <3>1. CASE c = NewLine
      <4>1. Finished(longer) = Append(Finished(q), Open(q)) /\ Open(longer) = << >>
        BY <2>1, <3>1, FinishedGrows
      <4>2. t = ParseSSELine(s, Open(q))
        BY <2>3, <4>1, TurnsGrow
      <4>3. t.position = s.position + Len(Open(q)) + 1
        BY <2>3, <2>4, <4>2, TurnIs
      <4>4. Len(Open(longer)) = 0
        BY <4>1
      <4> HIDE DEF s, t, longer
      <4> QED
        BY <2>1, <2>2, <2>4, <4>3, <4>4
    <3>2. CASE c # NewLine
      <4>1. Finished(longer) = Finished(q) /\ Open(longer) = Append(Open(q), c)
        BY <2>1, <3>2, FinishedGrows
      <4>2. Len(Open(longer)) = Len(Open(q)) + 1
        BY <2>3, <4>1, AppendProperties DEF Text
      <4>3. t = s
        BY <4>1
      <4> HIDE DEF s, t, longer
      <4> QED
        BY <2>1, <2>2, <2>4, <4>2, <4>3
    <3> QED
      BY <3>1, <3>2
  <2> QED
    BY <2>2, <2>5 DEF Good
<1> HIDE DEF Good
<1>3. Good = Text
  <2>1. Good \in SUBSET Seq(Characters)
    BY DEF Good, Text
  <2>2. \A s \in Good : \A e \in Characters : Append(s, e) \in Good
    BY <1>2
  <2> QED
    BY <1>1, <2>1, <2>2, AllSequences DEF Text
<1> QED
    BY <1>3 DEF Good

(* A text is split after front, where the last event ended, with rest left. *)
SplitAt(text, front, rest) ==
    LET s == Turns(Finished(text))
        u == Turns(Finished(front))
    IN  /\ front \in Text /\ rest \in Text
        /\ text = front \o rest /\ Open(front) = << >>
        /\ u.event = NoField /\ u.data = << >> /\ u.events = s.events
        /\ u.position = Len(front) /\ u.end = Len(front) /\ s.end = Len(front)

(* Every text can be.                                                      *)
LEMMA LastEvent ==
    ASSUME NEW text \in Text
    PROVE  \E front, rest \in Text : SplitAt(text, front, rest)
<1> DEFINE Good == {q \in Text : \E front, rest \in Text : SplitAt(q, front, rest)}
<1>1. << >> \in Good
  <2>1. /\ << >> \in Text /\ Finished(<< >>) = << >> /\ Open(<< >>) = << >>
        /\ Turns(<< >>) = Start /\ << >> = << >> \o << >> /\ Len(<< >>) = 0
    BY FinishedGrows, TurnsGrow DEF Text
  <2>2. SplitAt(<< >>, << >>, << >>)
    BY <2>1 DEF SplitAt, Start
  <2> QED
    BY <2>1, <2>2
<1>2. ASSUME NEW q \in Good, NEW c \in Characters
      PROVE  Append(q, c) \in Good
  <2> DEFINE longer == Append(q, c)
             s == Turns(Finished(q))
             t == Turns(Finished(longer))
  <2>1. PICK front \in Text, rest \in Text : SplitAt(q, front, rest)
    OBVIOUS
  <2>2. q \in Text /\ longer \in Text /\ Len(longer) = Len(q) + 1 /\ Len(q) \in Nat
    BY AppendProperties DEF Text
  <2>3. Finished(q) \in Seq(Text) /\ Open(q) \in Text
    BY <2>2, FinishedGrows
  <2>4. s \in LoopState /\ s.position \in Nat /\ Len(Open(q)) \in Nat
    <3>1. s \in LoopState
      BY <2>3, TurnsGrow
    <3>2. Len(Open(q)) \in Nat
      BY <2>3 DEF Text
    <3> HIDE DEF s
    <3> QED
      BY <3>1, <3>2 DEF LoopState
  <2>5. ASSUME t.events = s.events, t.end = s.end
        PROVE  longer \in Good
    <3>1. Append(rest, c) \in Text
      BY AppendProperties DEF Text
    <3>2. longer = front \o Append(rest, c)
      <4>1. front \in Seq(Characters) /\ rest \in Seq(Characters) /\ q = front \o rest
        BY <2>1 DEF SplitAt, Text
      <4>2. front \o Append(rest, c) = Append(front \o rest, c)
        BY ONLY <4>1, c \in Characters, JoinGrows, SMTT(30)
      <4> QED
        BY <4>1, <4>2
    <3>3. SplitAt(longer, front, Append(rest, c))
      BY <2>1, <2>5, <3>1, <3>2 DEF SplitAt
    <3> HIDE DEF longer
    <3> QED
      BY <2>2, <3>1, <3>3
  <2> HIDE DEF Good
  <2>6. CASE c # NewLine
    <3>1. Finished(longer) = Finished(q)
      BY <2>2, <2>6, FinishedGrows
    <3> QED
      BY <2>5, <3>1
  <2>7. CASE c = NewLine
    <3>1. Finished(longer) = Append(Finished(q), Open(q)) /\ Open(longer) = << >>
      BY <2>2, <2>7, FinishedGrows
    <3>2. t = ParseSSELine(s, Open(q))
      BY <2>3, <3>1, TurnsGrow
    <3>3. CASE ~Ends(s, Open(q))
      <4>1. t.events = s.events /\ t.end = s.end
        BY <2>3, <2>4, <3>2, <3>3, TurnIs
      <4> QED
        BY <2>5, <4>1
    <3>4. CASE Ends(s, Open(q))
      <4>1. Open(q) = << >> /\ ~Is(Event, Open(q)) /\ ~Is(Data, Open(q)) /\ Len(Open(q)) = 0
        BY <3>4 DEF Ends, Is, Blank
      <4>2. t.event = NoField /\ t.data = << >> /\ t.end = t.position
        <5> DEFINE line == Open(q)
                   u == ParseSSELine(s, line)
        <5>1. /\ u.event = IF Is(Event, line) THEN Tail(line)
                           ELSE IF Ends(s, line) THEN NoField ELSE s.event
              /\ u.data = IF Is(Data, line) THEN Append(s.data, Tail(line))
                          ELSE IF Ends(s, line) THEN << >> ELSE s.data
              /\ u.end = IF Ends(s, line) THEN u.position ELSE s.end
          BY <2>3, <2>4, TurnIs
        <5>2. Ends(s, line) /\ ~Is(Event, line) /\ ~Is(Data, line)
          BY <3>4, <4>1
        <5> HIDE DEF line
        <5>3. u.event = NoField /\ u.data = << >> /\ u.end = u.position
          BY ONLY <5>1, <5>2
        <5> QED
          BY <3>2, <5>3 DEF line
      <4>3. t.position = Len(longer)
        <5>1. t.position + Len(Open(longer)) = Len(longer) /\ Len(Open(longer)) = 0
          BY <2>2, <3>1, PositionIs
        <5>2. t.position \in Nat
          <6>1. t \in LoopState
            BY <2>3, <2>4, <3>2, TurnIs
          <6> QED
            BY <6>1 DEF LoopState
        <5> HIDE DEF t, longer
        <5> QED
          BY <5>1, <5>2
      <4>4. << >> \in Text /\ longer \o << >> = longer
        BY <2>2, ConcatEmptySeq DEF Text
      <4>5. SplitAt(longer, longer, << >>)
        BY <2>2, <3>1, <4>2, <4>3, <4>4 DEF SplitAt
      <4> HIDE DEF longer
      <4>6. longer \in Good
        BY <2>2, <4>4, <4>5 DEF Good
      <4> QED
        BY <4>6 DEF longer
    <3> QED
      BY <3>3, <3>4
  <2> QED
    BY <2>6, <2>7
<1> HIDE DEF Good
<1>3. Good = Text
  <2>1. Good \in SUBSET Seq(Characters)
    BY DEF Good, Text
  <2>2. \A s \in Good : \A e \in Characters : Append(s, e) \in Good
    BY <1>2
  <2> QED
    BY <1>1, <2>1, <2>2, AllSequences DEF Text
<1> QED
    BY <1>3 DEF Good

-----------------------------------------------------------------------------
(* The data of events is the data of the lines.                            *)

(* Lines that follow one another have their data one after the other.      *)
LEMMA DataJoins ==
    ASSUME NEW lines \in Seq(Text), NEW more \in Seq(Text)
    PROVE  DataOf(lines \o more) = DataOf(lines) \o DataOf(more)
<1> DEFINE Good == {q \in Seq(Text) : DataOf(lines \o q) = DataOf(lines) \o DataOf(q)}
           d == DataOf(lines)
<1>1. d \in Seq(Text)
    BY DataGrows
<1>2. << >> \in Good
  <2>1. lines \o << >> = lines /\ DataOf(<< >>) = << >> /\ d \o << >> = d
    BY <1>1, DataGrows, ConcatEmptySeq
  <2>2. << >> \in Seq(Text)
    OBVIOUS
  <2> HIDE DEF d, Good
  <2> QED
    BY <2>1, <2>2 DEF Good, d
<1>3. ASSUME NEW q \in Good, NEW line \in Text
      PROVE  Append(q, line) \in Good
  <2> DEFINE e == DataOf(q)
             both == lines \o q
  <2>1. q \in Seq(Text) /\ both \in Seq(Text) /\ DataOf(both) = d \o e /\ e \in Seq(Text)
    BY ConcatProperties, DataGrows
  <2>2. lines \o Append(q, line) = Append(both, line) /\ Append(q, line) \in Seq(Text)
    BY <2>1, JoinGrows, AppendProperties
  <2>3. /\ DataOf(Append(both, line)) = DataAfter(d \o e, line)
        /\ DataOf(Append(q, line)) = DataAfter(e, line)
    BY <2>1, DataGrows
  <2> HIDE DEF Good, d, e, both
  <2>4. DataAfter(d \o e, line) = d \o DataAfter(e, line)
    <3>1. CASE Is(Data, line)
      <4>1. Tail(line) \in Text
        BY <3>1 DEF Is, Blank, Text
      <4>2. d \o Append(e, Tail(line)) = Append(d \o e, Tail(line))
        BY ONLY <1>1, <2>1, <4>1, JoinGrows, SMTT(30)
      <4> QED
        BY <3>1, <4>2 DEF DataAfter
    <3> QED
      BY <3>1 DEF DataAfter
  <2> QED
    BY <2>2, <2>3, <2>4 DEF Good, d
<1> HIDE DEF Good
<1>4. Good = Seq(Text)
  <2>1. Good \in SUBSET Seq(Text)
    BY DEF Good
  <2>2. \A q \in Good : \A e \in Text : Append(q, e) \in Good
    BY <1>3
  <2> QED
    BY <1>2, <2>1, <2>2, AllSequences
<1> QED
    BY <1>4 DEF Good

(* Events that follow one another, too.                                    *)
LEMMA FlatJoins ==
    ASSUME NEW events \in Seq(ParsedEvent), NEW more \in Seq(ParsedEvent)
    PROVE  Flat(events \o more) = Flat(events) \o Flat(more)
<1> DEFINE Good == {q \in Seq(ParsedEvent) : Flat(events \o q) = Flat(events) \o Flat(q)}
           d == Flat(events)
<1>1. d \in Seq(Text)
    BY FlatGrows
<1>2. << >> \in Good
  <2>1. events \o << >> = events /\ Flat(<< >>) = << >> /\ d \o << >> = d
    BY <1>1, FlatGrows, ConcatEmptySeq
  <2>2. << >> \in Seq(ParsedEvent)
    OBVIOUS
  <2> HIDE DEF d, Good
  <2> QED
    BY <2>1, <2>2 DEF Good, d
<1>3. ASSUME NEW q \in Good, NEW event \in ParsedEvent
      PROVE  Append(q, event) \in Good
  <2> DEFINE e == Flat(q)
             both == events \o q
  <2>1. /\ q \in Seq(ParsedEvent) /\ both \in Seq(ParsedEvent) /\ Flat(both) = d \o e
        /\ e \in Seq(Text) /\ event.data \in Seq(Text)
    BY ConcatProperties, FlatGrows DEF ParsedEvent
  <2>2. events \o Append(q, event) = Append(both, event) /\ Append(q, event) \in Seq(ParsedEvent)
    BY <2>1, JoinGrows, AppendProperties
  <2>3. /\ Flat(Append(both, event)) = (d \o e) \o event.data
        /\ Flat(Append(q, event)) = e \o event.data
    BY <2>1, FlatGrows
  <2> HIDE DEF Good, d, e, both
  <2>4. (d \o e) \o event.data = d \o (e \o event.data)
    <3> DEFINE g == event.data
    <3>1. g \in Seq(Text)
      BY <2>1
    <3> HIDE DEF g
    <3>2. (d \o e) \o g = d \o (e \o g)
      <4>1. d \in Seq(Text) /\ e \in Seq(Text) /\ g \in Seq(Text)
        BY <1>1, <2>1, <3>1
      <4> QED
        BY ONLY <4>1, LinesGroup, Zenon
    <3> QED
      BY <3>2 DEF g
  <2> QED
    BY <2>2, <2>3, <2>4 DEF Good, d
<1> HIDE DEF Good
<1>4. Good = Seq(ParsedEvent)
  <2>1. Good \in SUBSET Seq(ParsedEvent)
    BY DEF Good
  <2>2. \A q \in Good : \A e \in ParsedEvent : Append(q, e) \in Good
    BY <1>3
  <2> QED
    BY <1>2, <2>1, <2>2, AllSequences
<1> QED
    BY <1>4 DEF Good

(* Each data line is in an event that is over, or in the one under way.    *)
LEMMA DataIsKept ==
    ASSUME NEW lines \in Seq(Text)
    PROVE  DataOf(lines) = Flat(Turns(lines).events) \o Turns(lines).data
<1> DEFINE Kept(s) == Flat(s.events) \o s.data
           Good == {q \in Seq(Text) : DataOf(q) = Kept(Turns(q))}
<1>1. << >> \in Good
  <2>1. DataOf(<< >>) = << >> /\ Flat(<< >>) = << >> /\ Turns(<< >>) = Start
    BY DataGrows, FlatGrows, TurnsGrow
  <2>2. Kept(Start) = << >> \o << >> /\ << >> \in Seq(Text)
    BY <2>1 DEF Start
  <2>3. << >> \o << >> = << >>
    BY <2>2, ConcatEmptySeq
  <2> HIDE DEF Kept
  <2> QED
    BY <2>1, <2>2, <2>3
<1>2. ASSUME NEW q \in Good, NEW line \in Text
      PROVE  Append(q, line) \in Good
  <2> DEFINE s == Turns(q)
             t == ParseSSELine(s, line)
  <2>1. q \in Seq(Text) /\ DataOf(q) = Kept(s) /\ s \in LoopState
    BY TurnsGrow
  <2>2. /\ Append(q, line) \in Seq(Text) /\ Turns(Append(q, line)) = t
        /\ DataOf(Append(q, line)) = DataAfter(DataOf(q), line)
    BY <2>1, TurnsGrow, DataGrows, AppendProperties
  <2> HIDE DEF Good, s
  <2>3. s.events \in Seq(ParsedEvent) /\ s.data \in Seq(Text) /\ Flat(s.events) \in Seq(Text)
    BY <2>1, FlatGrows DEF LoopState
  <2>4. DataAfter(Kept(s), line) = Kept(t)
    <3>1. CASE Is(Data, line)
      <4>1. Tail(line) \in Text /\ ~Ends(s, line)
        BY <3>1 DEF Is, Blank, Text, Ends
      <4>2. t.events = s.events /\ t.data = Append(s.data, Tail(line))
        BY <2>1, <3>1, <4>1, TurnIs
      <4> DEFINE a == Flat(s.events)
                 b == s.data
                 e == Tail(line)
      <4>3. a \in Seq(Text) /\ b \in Seq(Text) /\ e \in Text
        BY <2>3, <4>1
      <4> HIDE DEF a, b, e
      <4>4. a \o Append(b, e) = Append(a \o b, e)
        BY ONLY <4>3, JoinGrows, SMTT(30)
      <4> QED
        BY <3>1, <4>2, <4>4 DEF DataAfter, a, b, e
    <3>2. CASE Ends(s, line)
      <4>1. ~Is(Data, line)
        BY <3>2 DEF Ends, Is
      <4>2. t.events = Append(s.events, Complete(s)) /\ t.data = << >>
        BY <2>1, <3>2, <4>1, TurnIs
      <4>3. Complete(s) \in ParsedEvent /\ Complete(s).data = s.data
        BY <2>1 DEF Complete, ParsedEvent, LoopState
      <4>4. Flat(Append(s.events, Complete(s))) = Flat(s.events) \o s.data
        BY <2>3, <4>3, FlatGrows
      <4>5. Flat(t.events) = Kept(s) /\ Flat(t.events) \in Seq(Text)
        BY <2>3, <4>2, <4>4, ConcatProperties
      <4>6. Kept(t) = Flat(t.events)
        BY <4>2, <4>5, ConcatEmptySeq
      <4> QED
        BY <4>1, <4>5, <4>6 DEF DataAfter
    <3>3. CASE ~Is(Data, line) /\ ~Ends(s, line)
      <4>1. t.events = s.events /\ t.data = s.data
        BY <2>1, <3>3, TurnIs
      <4> QED
        BY <3>3, <4>1 DEF DataAfter
    <3> QED
      BY <3>1, <3>2, <3>3
  <2> HIDE DEF t, Kept
  <2> QED
    BY <2>1, <2>2, <2>4 DEF Good
<1> HIDE DEF Good
<1>3. Good = Seq(Text)
  <2>1. Good \in SUBSET Seq(Text)
    BY DEF Good
  <2>2. \A q \in Good : \A e \in Text : Append(q, e) \in Good
    BY <1>2
  <2> QED
    BY <1>1, <2>1, <2>2, AllSequences
<1> QED
    BY <1>3 DEF Good

(* Event by event, the data is that of the blocks that have some; that of  *)
(* the event under way is the data of the block under way.                 *)
SameData(events, blocks) ==
    /\ Len(events) = Len(blocks)
    /\ \A i \in 1 .. Len(events) : events[i].data = blocks[i]

(* That is so after every number of lines.                                 *)
LEMMA BlocksAreEvents ==
    ASSUME NEW lines \in Seq(Text)
    PROVE  /\ SameData(Turns(lines).events, DataOfEachBlock(lines))
           /\ Turns(lines).data = DataOf(Block(lines, Len(lines) + 1))
<1> DEFINE SameSoFar(q) == /\ SameData(Turns(q).events, DataOfEachBlock(q))
                     /\ Turns(q).data = DataOf(Block(q, Len(q) + 1))
           Good == {q \in Seq(Text) : SameSoFar(q)}
<1>1. << >> \in Good
  <2>1. /\ << >> \in Seq(Text) /\ Turns(<< >>) = Start /\ DataOfEachBlock(<< >>) = << >>
        /\ DataOf(<< >>) = << >> /\ Len(<< >>) = 0
    BY TurnsGrow, BlocksGrow, DataGrows
  <2>2. Block(<< >>, 1) = << >>
    <3>1. 1 \in 1 .. 1 /\ \A i \in 1 .. 0 : FALSE
      OBVIOUS
    <3>2. Block(<< >>, 1) = SubSeq(<< >>, 1, 0)
      <4>1. PICK first \in 1 .. 1 : Block(<< >>, 1) = SubSeq(<< >>, first, 1 - 1)
        <5>1. 1 \in 1 .. Len(<< >>) + 1
          OBVIOUS
        <5> QED
          BY <2>1, <5>1, BlockIs
      <4> QED
        BY <4>1
    <3> QED
      BY <3>2, SubSeqEmpty
  <2>3. SameData(<< >>, << >>)
    BY DEF SameData
  <2> QED
    BY <2>1, <2>2, <2>3 DEF Start
<1>2. ASSUME NEW q \in Good, NEW line \in Text
      PROVE  Append(q, line) \in Good
  <2> DEFINE longer == Append(q, line)
             s == Turns(q)
             t == ParseSSELine(s, line)
             block == Block(q, Len(q) + 1)
             next == Block(longer, Len(longer) + 1)
             blocks == DataOfEachBlock(q)
             more == DataOfEachBlock(longer)
  <2>1. q \in Seq(Text) /\ SameData(s.events, blocks) /\ s.data = DataOf(block)
    OBVIOUS
  <2>2. longer \in Seq(Text) /\ Turns(longer) = t /\ s \in LoopState
    BY <2>1, TurnsGrow, AppendProperties
  <2>3. more = BlockAfter(blocks, line, block) /\ blocks \in Seq(Seq(Text))
    BY <2>1, BlocksGrow
  <2>4. block \in Seq(Text) /\ next = IF Blank(line) THEN << >> ELSE Append(block, line)
    BY <2>1, BlockGoesOn
  <2>5. /\ t.data = IF Is(Data, line) THEN Append(s.data, Tail(line))
                    ELSE IF Ends(s, line) THEN << >> ELSE s.data
        /\ t.events = IF Ends(s, line) THEN Append(s.events, Complete(s)) ELSE s.events
    BY <2>2, TurnIs
  <2>6. s.events \in Seq(ParsedEvent) /\ s.data \in Seq(Text) /\ Complete(s) \in ParsedEvent
        /\ Complete(s).data = s.data
    BY <2>2 DEF LoopState, Complete, ParsedEvent
  <2> HIDE DEF Good, s, t, block, next, blocks, more, longer
  <2>7. t.data = DataOf(next)
    <3>1. CASE Blank(line)
      <4>1. ~Is(Data, line) /\ DataOf(<< >>) = << >>
        BY <3>1, DataGrows DEF Is
      <4>2. t.data = << >>
        BY <2>5, <3>1, <4>1 DEF Ends
      <4> QED
        BY <2>4, <3>1, <4>1, <4>2
    <3>2. CASE ~Blank(line)
      <4>1. DataOf(next) = DataAfter(DataOf(block), line)
        BY <2>4, <3>2, DataGrows
      <4>2. t.data = DataAfter(s.data, line)
        BY <2>5, <3>2 DEF Ends, DataAfter
      <4> QED
        BY <2>1, <4>1, <4>2
    <3> QED
      BY <3>1, <3>2
  <2>8. SameData(t.events, more)
    <3>1. CASE Ends(s, line)
      <4>1. t.events = Append(s.events, Complete(s)) /\ more = Append(blocks, s.data)
        BY <2>1, <2>3, <2>5, <3>1 DEF BlockAfter, Ends
      <4> DEFINE e == Complete(s)
                 d == s.data
                 es == s.events
      <4>2. /\ Len(Append(es, e)) = Len(es) + 1 /\ Append(es, e)[Len(es) + 1] = e
            /\ \A i \in 1 .. Len(es) : Append(es, e)[i] = es[i]
            /\ Len(es) \in Nat
        BY <2>6, AppendProperties
      <4>3. /\ Len(Append(blocks, d)) = Len(blocks) + 1 /\ Append(blocks, d)[Len(blocks) + 1] = d
            /\ \A i \in 1 .. Len(blocks) : Append(blocks, d)[i] = blocks[i]
        BY <2>3, <2>6, AppendProperties
      <4>4. Len(es) = Len(blocks) /\ \A i \in 1 .. Len(es) : es[i].data = blocks[i]
        BY <2>1 DEF SameData
      <4>5. e.data = d
        BY <2>6
      <4> HIDE DEF es, e, d
      <4>6. SameData(Append(es, e), Append(blocks, d))
        <5> SUFFICES ASSUME NEW i \in 1 .. Len(es) + 1
                     PROVE  Append(es, e)[i].data = Append(blocks, d)[i]
          BY <4>2, <4>3, <4>4 DEF SameData
        <5>1. CASE i = Len(es) + 1
          BY <4>2, <4>3, <4>4, <4>5, <5>1
        <5>2. CASE i # Len(es) + 1
          <6>1. i \in 1 .. Len(es)
            BY <4>2, <5>2
          <6> QED
            BY <4>2, <4>3, <4>4, <6>1
        <5> QED
          BY <5>1, <5>2
      <4> QED
        BY <4>1, <4>6 DEF es, e, d
    <3>2. CASE ~Ends(s, line)
      <4>1. t.events = s.events /\ more = blocks
        BY <2>1, <2>3, <2>5, <3>2 DEF BlockAfter, Ends
      <4> QED
        BY <2>1, <4>1
    <3> QED
      BY <3>1, <3>2
  <2>9. SameSoFar(longer)
    BY <2>2, <2>7, <2>8 DEF next, more
  <2>10. longer \in Good
    BY <2>2, <2>9 DEF Good
  <2> QED
    BY <2>10 DEF longer
<1> HIDE DEF Good
<1>3. Good = Seq(Text)
  <2>1. Good \in SUBSET Seq(Text)
    BY DEF Good
  <2>2. \A q \in Good : \A e \in Text : Append(q, e) \in Good
    BY <1>2
  <2> QED
    BY <1>1, <2>1, <2>2, AllSequences
<1> QED
  <2>1. lines \in Good
    BY <1>3
  <2> QED
    BY <2>1 DEF Good

-----------------------------------------------------------------------------
(* What the parser returns, and what it keeps.                             *)

(* It takes the line that is not over for one that is.                     *)
LEMMA ParsedIs ==
    ASSUME NEW text \in Text
    PROVE  /\ Turns(Finished(text)) \in LoopState
           /\ Open(text) \in Text
           /\ Parsed(text) = ParseSSELine(Turns(Finished(text)), Open(text))
<1>1. /\ Finished(text) \in Seq(Text) /\ Open(text) \in Text
      /\ Lines(text) = Append(Finished(text), Open(text))
    BY FinishedGrows
<1> QED
    BY <1>1, TurnsGrow DEF Parsed

(* What the parser returns is what the lines before front say; it keeps    *)
(* the rest.  An event is over at the end of front, or front is the text   *)
(* up to the end of a line of an event that may go on.                     *)
Over(text, front) ==
    LET u == Turns(Finished(front))
    IN  /\ u.event = NoField /\ u.data = << >> /\ u.end = u.position
        /\ u.events = ParseSSEBuffer(text).events

CutIn(text) == Open(text) = << >> /\ Turns(Finished(text)).data # << >>

Splits(text, front, rest) ==
    /\ front \in Text /\ rest \in Text
    /\ text = front \o rest /\ Open(front) = << >>
    /\ DataOf(Finished(front)) = Flat(ParseSSEBuffer(text).events)
    /\ ParseSSEBuffer(text).remaining = rest
    /\ Over(text, front) \/ CutIn(text)

(* Every text splits like this.                                            *)
LEMMA ParserSplits ==
    ASSUME NEW text \in Text
    PROVE  \E front, rest \in Text : Splits(text, front, rest)
<1> DEFINE s == Turns(Finished(text))
           line == Open(text)
           t == Parsed(text)
<1>1. s \in LoopState /\ line \in Text /\ t = ParseSSELine(s, line)
    BY ParsedIs
<1>2. s.position + Len(line) = Len(text)
    BY PositionIs
<1>3. Finished(text) \in Seq(Text)
    BY FinishedGrows
<1>4. DataOf(Finished(text)) = Flat(s.events) \o s.data
    BY <1>3, DataIsKept
<1>5. /\ ParseSSEBuffer(text).events = t.events
      /\ ParseSSEBuffer(text).remaining =
             IF t.end < Len(text) THEN SubSeq(text, t.end + 1, Len(text)) ELSE << >>
    BY DEF ParseSSEBuffer
<1>6. /\ t.events = IF Ends(s, line) THEN Append(s.events, Complete(s)) ELSE s.events
      /\ t.end = IF Ends(s, line) THEN s.position + Len(line) + 1 ELSE s.end
    BY <1>1, TurnIs
<1> HIDE DEF s, line, t
<1>7. s.events \in Seq(ParsedEvent) /\ Complete(s) \in ParsedEvent /\ Complete(s).data = s.data
      /\ Len(text) \in Nat
    BY <1>1 DEF LoopState, ParsedEvent, Complete, Text
<1>8. CASE Ends(s, line)
  <2>1. Flat(t.events) = DataOf(Finished(text))
    BY <1>4, <1>6, <1>7, <1>8, FlatGrows
  <2>2. ~(t.end < Len(text))
    <3>1. t.end = s.position + Len(line) + 1 /\ s.position \in Nat /\ Len(line) \in Nat
      BY <1>1, <1>6, <1>8 DEF LoopState, Text
    <3> QED
      BY <1>2, <1>7, <3>1
  <2>3. line = << >> /\ s.data # << >>
    BY <1>8 DEF Ends, Blank
  <2>4. << >> \in Text /\ text \o << >> = text
    BY ConcatEmptySeq DEF Text
  <2>5. CutIn(text) /\ Open(text) = << >>
    BY <2>3 DEF CutIn, s, line
  <2>6. Splits(text, text, << >>)
    BY <1>5, <2>1, <2>2, <2>4, <2>5 DEF Splits
  <2> QED
    BY <2>4, <2>6
<1>9. CASE ~Ends(s, line)
  <2>1. PICK front \in Text, rest \in Text : SplitAt(text, front, rest)
    BY LastEvent
  <2> DEFINE u == Turns(Finished(front))
  <2>2. /\ text = front \o rest /\ Open(front) = << >>
        /\ u.event = NoField /\ u.data = << >> /\ u.events = s.events
        /\ u.position = Len(front) /\ u.end = Len(front) /\ s.end = Len(front)
    BY <2>1 DEF SplitAt, s
  <2>3. Finished(front) \in Seq(Text)
    BY FinishedGrows
  <2>4. DataOf(Finished(front)) = Flat(u.events) \o u.data
    BY <2>3, DataIsKept
  <2> HIDE DEF u
  <2>5. t.events = s.events /\ t.end = Len(front)
    BY <1>6, <1>9, <2>2
  <2>6. DataOf(Finished(front)) = Flat(t.events)
    <3>1. Flat(s.events) \in Seq(Text)
      BY <1>7, FlatGrows
    <3>2. DataOf(Finished(front)) = Flat(s.events) \o << >>
      BY <2>2, <2>4
    <3> QED
      BY <2>5, <3>1, <3>2, ConcatEmptySeq
  <2>7. ParseSSEBuffer(text).remaining = rest
    <3>1. /\ front \in Seq(Characters) /\ rest \in Seq(Characters)
          /\ Len(text) = Len(front) + Len(rest) /\ Len(front) \in Nat /\ Len(rest) \in Nat
      BY <2>2, ConcatProperties DEF Text
    <3>2. SubSeq(text, Len(front) + 1, Len(text)) = rest
      BY <2>2, <3>1, SecondPart
    <3>3. CASE Len(front) < Len(text)
      BY <1>5, <2>5, <3>2, <3>3
    <3>4. CASE ~(Len(front) < Len(text))
      <4>1. Len(rest) = 0
        BY <3>1, <3>4
      <4>2. rest = << >>
        BY <3>1, <4>1
      <4> QED
        BY <1>5, <2>5, <3>4, <4>2
    <3> QED
      BY <3>3, <3>4
  <2>8. Over(text, front)
    BY <1>5, <2>2, <2>5 DEF Over, u
  <2>9. Splits(text, front, rest)
    BY <1>5, <2>2, <2>6, <2>7, <2>8 DEF Splits
  <2> QED
    BY <2>9
<1> QED
    BY <1>8, <1>9

(* The data of what is returned comes before that of what follows.         *)
LEMMA DataAfterwards ==
    ASSUME NEW text \in Text, NEW more \in Text
    PROVE  DataOf(Finished(text \o more))
              = Flat(ParseSSEBuffer(text).events)
                    \o DataOf(Finished(ParseSSEBuffer(text).remaining \o more))
<1>1. PICK front \in Text, rest \in Text : Splits(text, front, rest)
    BY ParserSplits
<1>2. rest \o more \in Text /\ text \o more = front \o (rest \o more)
  <2>1. front \in Text /\ rest \in Text /\ more \in Text
    OBVIOUS
  <2>2. (front \o rest) \o more = front \o (rest \o more)
    BY ONLY <2>1, TextsGroup, Zenon
  <2>3. rest \o more \in Text
    BY ONLY <2>1, TextsJoin, Zenon
  <2> QED
    BY <1>1, <2>2, <2>3 DEF Splits
<1>3. Finished(front \o (rest \o more)) = Finished(front) \o Finished(rest \o more)
    BY <1>1, <1>2, LinesJoin DEF Splits
<1>4. Finished(front) \in Seq(Text) /\ Finished(rest \o more) \in Seq(Text)
    BY <1>2, FinishedGrows
<1>5. DataOf(Finished(front) \o Finished(rest \o more))
          = DataOf(Finished(front)) \o DataOf(Finished(rest \o more))
    BY <1>4, DataJoins
<1> QED
    BY <1>1, <1>2, <1>3, <1>5 DEF Splits

(* Where an event was over, the events of what is kept follow.             *)
LEMMA EventsAfterwards ==
    ASSUME NEW text \in Text, ~CutIn(text), NEW more \in Text
    PROVE  Parsed(text \o more).events
              = ParseSSEBuffer(text).events
                    \o Parsed(ParseSSEBuffer(text).remaining \o more).events
<1>1. PICK front \in Text, rest \in Text : Splits(text, front, rest)
    BY ParserSplits
<1> DEFINE after == rest \o more
           lines == Finished(front)
<1>2. after \in Text /\ text \o more = front \o after
  <2>1. front \in Text /\ rest \in Text /\ more \in Text
    OBVIOUS
  <2>2. (front \o rest) \o more = front \o (rest \o more)
    BY ONLY <2>1, TextsGroup, Zenon
  <2>3. rest \o more \in Text
    BY ONLY <2>1, TextsJoin, Zenon
  <2> QED
    BY <1>1, <2>2, <2>3 DEF Splits
<1>3. lines \in Seq(Text) /\ Lines(after) \in Seq(Text)
    BY <1>2, FinishedGrows, LinesGrow DEF SomeLines
<1> HIDE DEF after, lines
<1>4. Lines(front \o after) = lines \o Lines(after)
  <2>1. /\ Finished(front \o after) = lines \o Finished(after)
        /\ Open(front \o after) = Open(after) /\ front \o after \in Text
    BY <1>1, <1>2, LinesJoin DEF Splits, lines
  <2>2. /\ Lines(front \o after) = Append(Finished(front \o after), Open(front \o after))
        /\ Lines(after) = Append(Finished(after), Open(after))
        /\ Finished(after) \in Seq(Text) /\ Open(after) \in Text
    BY <1>2, <2>1, FinishedGrows
  <2> DEFINE b == Finished(after)
             l == Open(after)
  <2>3. b \in Seq(Text) /\ l \in Text
    BY <2>2
  <2> HIDE DEF b, l
  <2>4. lines \o Append(b, l) = Append(lines \o b, l)
    BY ONLY <1>3, <2>3, JoinGrows, SMTT(30)
  <2> QED
    BY <2>1, <2>2, <2>4 DEF b, l
<1>5. /\ Turns(lines).event = NoField /\ Turns(lines).data = << >>
      /\ Turns(lines).end = Turns(lines).position
      /\ Turns(lines).events = ParseSSEBuffer(text).events
    BY <1>1 DEF Splits, Over, lines
<1>6. Turns(lines \o Lines(after)).events = Turns(lines).events \o Turns(Lines(after)).events
  <2> DEFINE later == Lines(after)
  <2>1. later \in Seq(Text)
    BY <1>3
  <2> HIDE DEF later
  <2>2. Turns(lines \o later).events = Turns(lines).events \o Turns(later).events
    BY <1>3, <1>5, <2>1, TurnsJoin
  <2> QED
    BY <2>2 DEF later
<1> QED
    BY <1>1, <1>2, <1>4, <1>5, <1>6 DEF Parsed, after, Splits

(* A text that is cut in an event ends with the end of a line of it.       *)
LEMMA CutInALine ==
    ASSUME NEW text \in Text, CutIn(text)
    PROVE  \E t \in Text, a \in Characters :
              /\ NewLine \in Characters /\ a # NewLine
              /\ text = Append(Append(t, a), NewLine)
<1>1. text # << >>
    BY FinishedGrows, TurnsGrow DEF CutIn, Start
<1>2. PICK s \in Text, c \in Characters : text = Append(s, c)
    BY <1>1, SequenceEmptyOrAppend DEF Text
<1>3. c = NewLine
  <2> SUFFICES ASSUME c # NewLine
               PROVE  FALSE
    OBVIOUS
  <2>1. Open(text) = Append(Open(s), c) /\ Open(s) \in Text
    BY <1>2, FinishedGrows
  <2> QED
    BY <2>1, AppendProperties DEF CutIn, Text
<1>4. /\ Finished(text) = Append(Finished(s), Open(s))
      /\ Finished(s) \in Seq(Text) /\ Open(s) \in Text
    BY <1>2, <1>3, FinishedGrows
<1>5. Turns(Finished(text)) = ParseSSELine(Turns(Finished(s)), Open(s))
      /\ Turns(Finished(s)) \in LoopState
    BY <1>4, TurnsGrow
<1>6. Open(s) # << >>
  <2> SUFFICES ASSUME Open(s) = << >>
               PROVE  FALSE
    OBVIOUS
  <2>1. ~Is(Data, Open(s)) /\ Blank(Open(s))
    BY DEF Is, Blank
  <2>2. Turns(Finished(text)).data = << >>
    <3> DEFINE u == Turns(Finished(s))
               l == Open(s)
    <3>1. ParseSSELine(u, l).data
              = IF Is(Data, l) THEN Append(u.data, Tail(l))
                ELSE IF Ends(u, l) THEN << >> ELSE u.data
      BY <1>4, <1>5, TurnIs
    <3>2. ~Is(Data, l) /\ Blank(l)
      BY <2>1
    <3> HIDE DEF u, l
    <3>3. ParseSSELine(u, l).data = << >>
      BY <3>1, <3>2 DEF Ends
    <3> QED
      BY <1>5, <3>3 DEF u, l
  <2> QED
    BY <2>2 DEF CutIn
<1>7. s # << >>
    BY <1>6, FinishedGrows
<1>8. PICK t \in Text, a \in Characters : s = Append(t, a)
    BY <1>7, SequenceEmptyOrAppend DEF Text
<1>9. a # NewLine
    BY <1>6, <1>8, FinishedGrows
<1> QED
    BY <1>2, <1>3, <1>8, <1>9

-----------------------------------------------------------------------------
(* A stream is over with a blank line: no event is left open, and the      *)
(* events are the blocks that have data.                                   *)

(* The blank line at the end leaves no data.                               *)
LEMMA BlankLeavesNone ==
    ASSUME NEW s \in LoopState
    PROVE  LET t == ParseSSELine(s, << >>)
           IN  /\ t.data = << >>
               /\ s.data = << >> => t.events = s.events
<1> DEFINE t == ParseSSELine(s, << >>)
           line == << >>
<1>1. line \in Text /\ ~Is(Data, line) /\ Blank(line)
    BY DEF Is, Blank, Text
<1> HIDE DEF line
<1>2. LET u == ParseSSELine(s, line)
      IN  /\ u.data = IF Is(Data, line) THEN Append(s.data, Tail(line))
                      ELSE IF Ends(s, line) THEN << >> ELSE s.data
          /\ u.events = IF Ends(s, line) THEN Append(s.events, Complete(s)) ELSE s.events
    BY <1>1, TurnIs
<1>3. LET u == ParseSSELine(s, line)
      IN  u.data = << >> /\ (s.data = << >> => u.events = s.events)
    BY <1>1, <1>2 DEF Ends
<1> QED
    BY <1>3 DEF line

(* The last two line breaks of a stream.                                   *)
LEMMA StreamIsOver ==
    ASSUME NEW s \in Streams
    PROVE  /\ s \in Text /\ Open(s) = << >>
           /\ Turns(Finished(s)).data = << >>
<1>1. s \in Text
  <2>1. s \in Seq(ToSet(s)) /\ ToSet(s) \subseteq Characters
    BY StreamsAssumption DEF Characters
  <2> QED
    BY <2>1, SeqMonotonic DEF Text
<1>2. CASE s = << >>
    BY <1>1, <1>2, FinishedGrows, TurnsGrow DEF Start
<1>3. CASE s # << >>
  <2>1. PICK t \in Text, c \in Characters : s = Append(t, c)
    BY <1>1, <1>3, SequenceEmptyOrAppend DEF Text
  <2>2. /\ Len(s) = Len(t) + 1 /\ s[Len(s)] = c /\ Len(t) \in Nat
        /\ \A i \in 1 .. Len(t) : s[i] = t[i]
    BY <2>1, AppendProperties DEF Text
  <2>3. c = NewLine /\ (Len(s) > 1 => s[Len(s) - 1] = NewLine)
    BY <1>3, <2>2, StreamsAssumption
  <2>4. Open(t) = << >>
    <3>1. CASE t = << >>
      BY <3>1, FinishedGrows
    <3>2. CASE t # << >>
      <4>1. PICK r \in Text, d \in Characters : t = Append(r, d)
        BY <3>2, SequenceEmptyOrAppend DEF Text
      <4>2. Len(t) = Len(r) + 1 /\ t[Len(t)] = d /\ Len(r) \in Nat
        BY <4>1, AppendProperties DEF Text
      <4>3. d = NewLine
        <5>1. Len(s) > 1 /\ Len(s) - 1 = Len(t) /\ Len(t) \in 1 .. Len(t)
          BY <2>2, <4>2
        <5> QED
          BY <2>2, <2>3, <4>2, <5>1
      <4> QED
        BY <4>1, <4>3, FinishedGrows
    <3> QED
      BY <3>1, <3>2
  <2>5. /\ Open(s) = << >> /\ Finished(s) = Append(Finished(t), Open(t))
        /\ Finished(t) \in Seq(Text) /\ Open(t) \in Text
    BY <2>1, <2>3, FinishedGrows
  <2>6. Turns(Finished(s)) = ParseSSELine(Turns(Finished(t)), << >>)
        /\ Turns(Finished(t)) \in LoopState
    BY <2>4, <2>5, TurnsGrow
  <2> QED
    BY <1>1, <2>5, <2>6, BlankLeavesNone
<1> QED
    BY <1>2, <1>3

(* So the whole of it has been parsed when the last line has.              *)
LEMMA StreamParsed ==
    ASSUME NEW s \in Streams
    PROVE  /\ ParseSSEEvents(s) = Parsed(s).events
           /\ Parsed(s).events = Turns(Finished(s)).events
<1> DEFINE u == Turns(Finished(s))
<1>1. s \in Text /\ Open(s) = << >> /\ u.data = << >>
    BY StreamIsOver
<1>2. u \in LoopState /\ Parsed(s) = ParseSSELine(u, << >>)
    BY <1>1, ParsedIs
<1> HIDE DEF u
<1>3. Parsed(s).data = << >> /\ Parsed(s).events = u.events
    BY <1>1, <1>2, BlankLeavesNone
<1> QED
    BY <1>3 DEF ParseSSEEvents, u

(* The events of a stream are the blocks that have data.                   *)
LEMMA StreamBlocks ==
    ASSUME stream \in Streams
    PROVE  DataOfBlocks
<1> DEFINE events == ParseSSEEvents(stream)
           lines == Finished(stream)
           blocks == DataOfEachBlock(lines)
<1>1. stream \in Text /\ events = Turns(lines).events
    BY StreamIsOver, StreamParsed
<1>2. lines \in Seq(Text)
    BY <1>1, FinishedGrows
<1>3. blocks \in Seq(Seq(Text)) /\ events \in Seq(ParsedEvent)
    BY <1>1, <1>2, BlocksGrow, TurnsGrow DEF LoopState
<1>4. SameData(events, blocks)
    BY <1>1, <1>2, BlocksAreEvents
<1>5. [i \in DOMAIN events |-> events[i].data] = blocks
  <2> HIDE DEF events, blocks, lines
  <2>1. /\ DOMAIN events = 1 .. Len(events) /\ DOMAIN blocks = 1 .. Len(blocks)
        /\ blocks = [i \in 1 .. Len(blocks) |-> blocks[i]]
    BY <1>3
  <2> QED
    BY <1>4, <2>1 DEF SameData
<1> QED
    BY <1>5 DEF DataOfBlocks

-----------------------------------------------------------------------------
(* What has arrived is read once.                                          *)

Sent == SubSeq(stream, 1, sent)

\* what has been read, whatever follows it, is what has been received and
\* what the buffer says with the same after it
Continues ==
    /\ sent <= Len(stream)
    /\ \E before \in Text : Sent = before \o buffer
    /\ \A more \in Text :
          DataOf(Finished(Sent \o more)) = Flat(received) \o DataOf(Finished(buffer \o more))
    /\ ~cutShort => /\ Parsed(buffer).events = << >>
                    /\ \A more \in Text :
                          Parsed(Sent \o more).events = received \o Parsed(buffer \o more).events

(* A chunk ends with the line break of a line that is not blank whenever   *)
(* the parser takes it for the end of an event that may go on.             *)
LEMMA CutIsCutShort ==
    ASSUME NEW text \in Text, NEW before \in Text, CutIn(text), NEW n \in Nat,
           n <= Len(stream), stream \in Text, SubSeq(stream, 1, n) = before \o text
    PROVE  CutsShort(n)
<1>1. PICK t \in Text, a \in Characters : /\ NewLine \in Characters /\ a # NewLine
                                          /\ text = Append(Append(t, a), NewLine)
    BY CutInALine
<1> DEFINE front == before \o t
           whole == Append(Append(front, a), NewLine)
<1>2. front \in Text /\ Len(front) \in Nat
    BY ConcatProperties DEF Text
<1>3. before \o text = whole
  <2> DEFINE nl == NewLine
             s == Append(t, a)
  <2>1. /\ before \in Seq(Characters) /\ t \in Seq(Characters) /\ s \in Seq(Characters)
        /\ nl \in Characters
    BY <1>1, AppendProperties DEF Text
  <2> HIDE DEF nl
  <2>2. before \o s = Append(before \o t, a)
    BY <2>1, JoinGrows
  <2> HIDE DEF s
  <2>3. before \o Append(s, nl) = Append(before \o s, nl)
    BY <2>1, JoinGrows
  <2> QED
    BY <1>1, <2>2, <2>3 DEF s, nl
<1> HIDE DEF front
<1>4. /\ Append(front, a) \in Seq(Characters) /\ Len(Append(front, a)) = Len(front) + 1
      /\ Append(front, a)[Len(front) + 1] = a
    BY <1>2, AppendProperties DEF Text
<1> DEFINE s == Append(front, a)
<1> HIDE DEF s
<1>5. /\ s \in Seq(Characters) /\ Len(s) = Len(front) + 1 /\ s[Len(front) + 1] = a
    BY <1>4 DEF s
<1>6. /\ Len(whole) = Len(front) + 2 /\ whole[Len(front) + 2] = NewLine
      /\ whole[Len(front) + 1] = a
  <2>1. whole = Append(s, NewLine)
    BY DEF s
  <2>2. /\ Len(Append(s, NewLine)) = Len(s) + 1 /\ Append(s, NewLine)[Len(s) + 1] = NewLine
        /\ \A i \in 1 .. Len(s) : Append(s, NewLine)[i] = s[i]
    BY <1>1, <1>5, AppendProperties
  <2>3. Len(s) + 1 = Len(front) + 2 /\ Len(front) + 1 \in 1 .. Len(s)
    BY <1>2, <1>5
  <2> QED
    BY <1>5, <2>1, <2>2, <2>3
<1> HIDE DEF whole
<1>7. /\ Len(SubSeq(stream, 1, n)) = n
      /\ \A i \in 1 .. n : SubSeq(stream, 1, n)[i] = stream[i]
  <2>1. \A i \in 1 .. n : stream[i] \in Characters
    BY DEF Text
  <2> QED
    BY <2>1, SubSeqProperties
<1>8. n = Len(front) + 2
    BY <1>3, <1>6, <1>7
<1>9. n \in 1 .. n /\ n - 1 \in 1 .. n /\ n - 1 = Len(front) + 1 /\ n > 1
    BY <1>2, <1>8
<1>10. stream[n] = NewLine /\ stream[n - 1] = a
    BY <1>3, <1>6, <1>7, <1>8, <1>9
<1> QED
    BY <1>1, <1>9, <1>10 DEF CutsShort

(* Reading a chunk keeps it so.                                            *)
LEMMA ChunkContinues ==
    ASSUME ReaderTyped, Continues, NEW n, Chunk(n)
    PROVE  Continues'
<1> DEFINE chunk == SubSeq(stream, sent + 1, n)
           text == buffer \o chunk
           events == ParseSSEBuffer(text).events
           rest == ParseSSEBuffer(text).remaining
<1>1. /\ n \in Nat /\ n > sent /\ n <= Len(stream) /\ Len(stream) \in Nat
      /\ sent \in Nat /\ sent <= Len(stream)
    BY DEF Chunk, ReaderTyped, Text, Continues
<1>2. chunk \in Text
  <2>1. \A i \in sent + 1 .. n : stream[i] \in Characters
    BY <1>1 DEF ReaderTyped, Text
  <2> QED
    BY <1>1, <2>1, SubSeqProperties DEF Text
<1>3. /\ received' = received \o events /\ buffer' = rest
      /\ sent' = n /\ stream' = stream /\ cutShort' = (cutShort \/ CutsShort(n))
    BY DEF Chunk
<1>4. Sent \in Text /\ Sent' = Sent \o chunk
  <2>1. \A i \in 1 .. sent : stream[i] \in Characters
    BY <1>1 DEF ReaderTyped, Text
  <2>2. Sent \in Text
    BY <1>1, <2>1, SubSeqProperties DEF Text, Sent
  <2>3. SubSeq(stream, 1, sent) \o SubSeq(stream, sent + 1, n) = SubSeq(stream, 1, n)
    <3>1. /\ stream \in Seq(Characters) /\ 1 \in 1 .. Len(stream) + 1
          /\ sent \in 1 - 1 .. Len(stream) /\ n \in sent .. Len(stream)
      BY <1>1 DEF ReaderTyped, Text
    <3> QED
      BY <3>1, ConcatAdjacentSubSeq
  <2> QED
    BY <1>3, <2>2, <2>3 DEF Sent
<1>5. PICK before \in Text : Sent = before \o buffer
    BY DEF Continues
<1>6. /\ \A more \in Text :
            DataOf(Finished(Sent \o more)) = Flat(received) \o DataOf(Finished(buffer \o more))
      /\ ~cutShort => \A more \in Text :
            Parsed(Sent \o more).events = received \o Parsed(buffer \o more).events
    BY DEF Continues
<1>7. buffer \in Text /\ received \in Seq(ParsedEvent)
    BY DEF ReaderTyped
<1> HIDE DEF chunk
<1>8. text \in Text
    BY <1>2, <1>7, ConcatProperties DEF Text
<1> HIDE DEF text
<1>9. events \in Seq(ParsedEvent) /\ rest \in Text
    BY <1>8, ParserReturns
<1>10. PICK front \in Text : text = front \o rest
    BY <1>8, ParserSplits DEF Splits
<1>11. Parsed(text).events = events
    BY DEF ParseSSEBuffer
<1> HIDE DEF events, rest
<1>12. Sent' = before \o text
  <2>1. before \in Text /\ buffer \in Text /\ chunk \in Text
    BY <1>2, <1>7
  <2>2. (before \o buffer) \o chunk = before \o (buffer \o chunk)
    BY ONLY <2>1, TextsGroup, Zenon
  <2> QED
    BY <1>4, <1>5, <2>2 DEF text
<1>13. ASSUME NEW more \in Text
       PROVE  /\ chunk \o more \in Text
              /\ Sent' \o more = Sent \o (chunk \o more)
              /\ buffer \o (chunk \o more) = text \o more
  <2>1. chunk \o more \in Text
    BY <1>2, ConcatProperties DEF Text
  <2>2. (Sent \o chunk) \o more = Sent \o (chunk \o more)
    <3>1. Sent \in Text /\ chunk \in Text /\ more \in Text
      BY <1>2, <1>4
    <3> QED
      BY ONLY <3>1, TextsGroup, Zenon
  <2>3. (buffer \o chunk) \o more = buffer \o (chunk \o more)
    <3>1. buffer \in Text /\ chunk \in Text /\ more \in Text
      BY <1>2, <1>7
    <3> QED
      BY ONLY <3>1, TextsGroup, Zenon
  <2> QED
    BY <1>4, <2>1, <2>2, <2>3 DEF text
<1>14. \E b \in Text : Sent' = b \o buffer'
  <2>1. before \o (front \o rest) = (before \o front) \o rest /\ before \o front \in Text
    BY <1>9, TextsJoin
  <2> QED
    BY <1>3, <1>10, <1>12, <2>1
<1>15. ASSUME NEW more \in Text
       PROVE  DataOf(Finished(Sent' \o more))
                  = Flat(received') \o DataOf(Finished(buffer' \o more))
  <2> DEFINE a == Flat(received)
             b == Flat(events)
             c == DataOf(Finished(rest \o more))
  <2>1. DataOf(Finished(Sent' \o more)) = a \o DataOf(Finished(text \o more))
    <3> DEFINE q == chunk \o more
    <3>1. q \in Text /\ Sent' \o more = Sent \o q /\ buffer \o q = text \o more
      BY <1>13
    <3> HIDE DEF q
    <3>2. DataOf(Finished(Sent \o q)) = Flat(received) \o DataOf(Finished(buffer \o q))
      BY <1>6, <3>1
    <3> QED
      BY <3>1, <3>2
  <2>2. DataOf(Finished(text \o more)) = b \o c
    BY <1>8, DataAfterwards DEF events, rest
  <2>3. a \in Seq(Text) /\ b \in Seq(Text)
    BY <1>7, <1>9, FlatGrows
  <2>4. c \in Seq(Text)
    <3>1. rest \o more \in Text
      BY <1>9, ConcatProperties DEF Text
    <3> QED
      BY <3>1, FinishedGrows, DataGrows
  <2>5. Flat(received \o events) = a \o b
    BY <1>7, <1>9, FlatJoins
  <2> HIDE DEF a, b, c
  <2>6. a \o (b \o c) = (a \o b) \o c
    BY ONLY <2>3, <2>4, LinesGroup, Zenon
  <2> QED
    BY <1>3, <2>1, <2>2, <2>5, <2>6 DEF c
<1>16. ASSUME ~cutShort'
       PROVE  /\ Parsed(buffer').events = << >>
              /\ \A more \in Text :
                    Parsed(Sent' \o more).events = received' \o Parsed(buffer' \o more).events
  <2>1. ~cutShort /\ ~CutsShort(n)
    BY <1>3, <1>16
  <2>2. ~CutIn(text)
    <3>1. SubSeq(stream, 1, n) = before \o text
      BY <1>3, <1>12 DEF Sent
    <3> QED
      BY <1>1, <1>8, <2>1, <3>1, CutIsCutShort DEF ReaderTyped
  <2>3. ASSUME NEW more \in Text
        PROVE  /\ Parsed(text \o more).events = events \o Parsed(rest \o more).events
               /\ Parsed(rest \o more).events \in Seq(ParsedEvent)
    <3>1. rest \o more \in Text
      BY <1>9, ConcatProperties DEF Text
    <3>2. Parsed(rest \o more) \in LoopState
      BY <3>1, LoopIsTyped
    <3> QED
      BY <1>8, <2>2, <3>2, EventsAfterwards DEF events, rest, LoopState
  <2>4. Parsed(rest).events = << >>
    <3>1. << >> \in Text /\ text \o << >> = text /\ rest \o << >> = rest
      BY <1>8, <1>9, ConcatEmptySeq DEF Text
    <3> DEFINE e == Parsed(rest).events
    <3>2. events = events \o e /\ e \in Seq(ParsedEvent)
      BY <1>11, <2>3, <3>1
    <3> HIDE DEF e
    <3>3. e = << >>
      BY <1>9, <3>2, ConcatEqualIffEmpty
    <3> QED
      BY <3>3 DEF e
  <2>5. ASSUME NEW more \in Text
        PROVE  Parsed(Sent' \o more).events = received' \o Parsed(buffer' \o more).events
    <3> DEFINE e == Parsed(rest \o more).events
    <3>1. Parsed(Sent' \o more).events = received \o Parsed(text \o more).events
      <4> DEFINE q == chunk \o more
      <4>1. q \in Text /\ Sent' \o more = Sent \o q /\ buffer \o q = text \o more
        BY <1>13
      <4> HIDE DEF q
      <4>2. Parsed(Sent \o q).events = received \o Parsed(buffer \o q).events
        BY <1>6, <2>1, <4>1
      <4> QED
        BY <4>1, <4>2
    <3>2. Parsed(text \o more).events = events \o e /\ e \in Seq(ParsedEvent)
      BY <2>3
    <3> HIDE DEF e
    <3>3. received \o (events \o e) = (received \o events) \o e
      <4>1. /\ received \in Seq(ParsedEvent) /\ events \in Seq(ParsedEvent)
            /\ e \in Seq(ParsedEvent)
        BY <1>7, <1>9, <3>2
      <4> QED
        BY ONLY <4>1, EventsGroup, Zenon
    <3> QED
      BY <1>3, <3>1, <3>2, <3>3 DEF e
  <2> QED
    BY <1>3, <2>4, <2>5
<1>17. sent' <= Len(stream')
    BY <1>1, <1>3
<1> QED
    BY <1>14, <1>15, <1>16, <1>17 DEF Continues

(* What the consumer may rely on while this is so.                         *)
LEMMA ContinuesMeans ==
    ASSUME ReaderTyped, Continues, stream \in Streams
    PROVE  DataArrivesOnce /\ ChunksDoNotMatter
<1>1. /\ stream \in Text /\ sent \in Nat /\ buffer \in Text /\ received \in Seq(ParsedEvent)
      /\ sent <= Len(stream) /\ Len(stream) \in Nat /\ << >> \in Text
    BY DEF ReaderTyped, Continues, Text
<1>2. Sent \in Text /\ Sent \o << >> = Sent /\ buffer \o << >> = buffer
  <2>1. \A i \in 1 .. sent : stream[i] \in Characters
    BY <1>1 DEF Text
  <2>2. Sent \in Text
    BY <1>1, <2>1, SubSeqProperties DEF Text, Sent
  <2> QED
    BY <1>1, <2>2, ConcatEmptySeq DEF Text
<1>3. DataArrivesOnce
  <2>1. DataOf(Finished(Sent \o << >>)) = Flat(received) \o DataOf(Finished(buffer \o << >>))
    BY <1>1 DEF Continues
  <2> QED
    BY <1>2, <2>1 DEF DataArrivesOnce, Sent
<1>4. ASSUME ~cutShort
      PROVE  SameAsWhole
  <2> DEFINE whole == ParseSSEEvents(stream)
             left == SubSeq(stream, sent + 1, Len(stream))
             later == Parsed(buffer \o left).events
  <2>1. whole = Parsed(stream).events
    BY StreamParsed
  <2>2. left \in Text /\ Sent \o left = stream
    <3>1. \A i \in sent + 1 .. Len(stream) : stream[i] \in Characters
      BY <1>1 DEF Text
    <3>2. left \in Text
      BY <1>1, <3>1, SubSeqProperties DEF Text
    <3>3. SubSeq(stream, 1, sent) \o SubSeq(stream, sent + 1, Len(stream))
              = SubSeq(stream, 1, Len(stream))
      <4>1. /\ stream \in Seq(Characters) /\ 1 \in 1 .. Len(stream) + 1
            /\ sent \in 1 - 1 .. Len(stream) /\ Len(stream) \in sent .. Len(stream)
        BY <1>1 DEF Text
      <4> QED
        BY <4>1, ConcatAdjacentSubSeq
    <3>4. SubSeq(stream, 1, Len(stream)) = stream
      BY <1>1, SubSeqFull DEF Text
    <3> QED
      BY <3>2, <3>3, <3>4 DEF Sent
  <2>3. later \in Seq(ParsedEvent)
    <3>1. buffer \o left \in Text
      BY <1>1, <2>2, ConcatProperties DEF Text
    <3> QED
      BY <3>1, LoopIsTyped DEF LoopState
  <2>4. whole = received \o later
    <3> HIDE DEF left
    <3>1. Parsed(Sent \o left).events = received \o Parsed(buffer \o left).events
      BY <1>4, <2>2 DEF Continues
    <3> QED
      BY <2>1, <2>2, <3>1
  <2>5. ASSUME sent = Len(stream)
        PROVE  later = << >>
    <3>1. left = << >>
      BY <1>1, <2>5, SubSeqEmpty
    <3>2. Parsed(buffer).events = << >>
      BY <1>4 DEF Continues
    <3> QED
      BY <1>2, <3>1, <3>2
  <2> HIDE DEF whole, left, later
  <2>6. IsPrefix(received, whole)
    <3>1. Len(whole) = Len(received) + Len(later) /\ Len(later) \in Nat /\ Len(received) \in Nat
      BY <1>1, <2>3, <2>4, ConcatProperties
    <3>2. SubSeq(whole, 1, Len(received)) = SubSeq(received, 1, Len(received))
      <4>1. CASE Len(received) = 0
        BY <4>1, SubSeqEmpty
      <4>2. CASE Len(received) # 0
        <5>1. 1 \in 1 .. Len(received) /\ Len(received) \in 1 .. Len(received)
          BY <3>1, <4>2
        <5> QED
          BY <1>1, <2>3, <2>4, <5>1, SubSeqOfConcat1
      <4> QED
        BY <4>1, <4>2
    <3> QED
      BY <3>1, <3>2 DEF IsPrefix
  <2>7. sent = Len(stream) => received = whole
    BY <1>1, <2>4, <2>5, ConcatEmptySeq
  <2> QED
    BY <2>6, <2>7 DEF SameAsWhole, whole
<1> QED
    BY <1>3, <1>4 DEF ChunksDoNotMatter

\* the chunks that wait go on where those read stop, up to what has arrived
Waiting ==
    /\ unread \in Seq(Nat)
    /\ IF unread = << >> THEN sent = arrived ELSE unread[Len(unread)] = arrived

ArriveInv ==
    /\ HandInv /\ stream \in Streams /\ skipped \in BOOLEAN
    /\ ~skipped => Waiting /\ Continues

(* Nothing has been read yet.                                              *)
LEMMA ArriveAtFirst ==
    ASSUME InitClient
    PROVE  ArriveInv
<1>1. /\ HandInv /\ stream \in Streams /\ sent = 0 /\ buffer = << >> /\ received = << >>
      /\ arrived = 0 /\ unread = << >> /\ skipped = FALSE
    BY HandAtFirst DEF InitClient, Init
<1>2. Sent = << >> /\ << >> \in Text /\ << >> \in Seq(Nat) /\ << >> = << >> \o << >>
  <2>1. SubSeq(stream, 1, 0) = << >>
    BY SubSeqEmpty
  <2> QED
    BY <1>1, <2>1 DEF Sent, Text
<1>3. sent <= Len(stream)
  <2>1. Len(stream) \in Nat
    BY <1>1 DEF HandInv, ReaderTyped, Text
  <2> QED
    BY <1>1, <2>1
<1>4. ASSUME NEW more \in Text
      PROVE  DataOf(Finished(Sent \o more)) = Flat(received) \o DataOf(Finished(buffer \o more))
  <2> DEFINE d == DataOf(Finished(buffer \o more))
  <2>1. << >> \o more = more
    BY ConcatEmptySeq DEF Text
  <2>2. d \in Seq(Text)
    BY <1>1, <2>1, FinishedGrows, DataGrows
  <2>3. Flat(received) = << >> /\ DataOf(Finished(Sent \o more)) = d
    BY <1>1, <1>2, FlatGrows
  <2> HIDE DEF d
  <2>4. << >> \o d = d
    BY <2>2, ConcatEmptySeq
  <2> QED
    BY <2>3, <2>4 DEF d
<1>5. ASSUME NEW more \in Text
      PROVE  Parsed(Sent \o more).events = received \o Parsed(buffer \o more).events
  <2> DEFINE d == Parsed(buffer \o more).events
  <2>1. << >> \o more = more
    BY ConcatEmptySeq DEF Text
  <2>2. d \in Seq(ParsedEvent)
    BY <1>1, <2>1, LoopIsTyped DEF LoopState
  <2>3. Parsed(Sent \o more).events = d
    BY <1>1, <1>2
  <2> HIDE DEF d
  <2>4. << >> \o d = d
    BY <2>2, ConcatEmptySeq
  <2> QED
    BY <1>1, <2>3, <2>4 DEF d
<1>6. Parsed(buffer).events = << >>
  <2>1. Finished(<< >>) = << >> /\ Open(<< >>) = << >> /\ Turns(<< >>) = Start
    BY FinishedGrows, TurnsGrow
  <2>2. Start \in LoopState /\ Parsed(<< >>) = ParseSSELine(Start, << >>)
    BY <1>2, <2>1, ParsedIs
  <2>3. ParseSSELine(Start, << >>).events = Start.events
    BY <2>2, BlankLeavesNone DEF Start
  <2> QED
    BY <1>1, <2>2, <2>3 DEF Start
<1>7. Continues
  <2>1. \E before \in Text : Sent = before \o buffer
    BY <1>1, <1>2
  <2> QED
    BY <1>3, <1>4, <1>5, <1>6, <2>1 DEF Continues
<1>8. Waiting
    BY <1>1, <1>2 DEF Waiting
<1> QED
    BY <1>1, <1>7, <1>8 DEF ArriveInv

(* A step that reads nothing and loses nothing.                            *)
LEMMA ArriveStill ==
    ASSUME ArriveInv, HandInv', UNCHANGED <<vars, arrived, unread, skipped>>
    PROVE  ArriveInv'
BY DEF ArriveInv, Waiting, Continues, Sent, vars

(* A chunk waits behind the others, or is lost.                            *)
LEMMA ArriveAtArrival ==
    ASSUME ArriveInv, HandInv', NEW n \in 1 .. Len(stream), Arrive(n)
    PROVE  ArriveInv'
<1>1. CASE orphans > 0
    BY <1>1 DEF Arrive, ArriveInv
<1>2. CASE ~(orphans > 0)
  <2>1. /\ UNCHANGED <<vars, skipped>> /\ unread' = Append(unread, n) /\ arrived' = n
    BY <1>2 DEF Arrive
  <2>2. n \in Nat
    OBVIOUS
  <2>3. ASSUME ~skipped'
        PROVE  Waiting' /\ Continues'
    <3>1. Waiting /\ Continues
      BY <2>1, <2>3 DEF ArriveInv
    <3>2. /\ unread' \in Seq(Nat) /\ unread' # << >> /\ unread'[Len(unread')] = n
      <4>1. unread \in Seq(Nat)
        BY <3>1 DEF Waiting
      <4>2. /\ Append(unread, n) \in Seq(Nat) /\ Append(unread, n) # << >>
            /\ Len(Append(unread, n)) = Len(unread) + 1
            /\ Append(unread, n)[Len(unread) + 1] = n
        BY <2>2, <4>1, AppendProperties
      <4> QED
        BY <2>1, <4>2
    <3> QED
      BY <2>1, <3>1, <3>2 DEF Waiting, Continues, Sent, vars
  <2> QED
    BY <2>1, <2>3 DEF ArriveInv, vars
<1> QED
    BY <1>1, <1>2

(* Chunks that wait are lost when the connection is.                       *)
LEMMA ArriveAtLoss ==
    ASSUME ArriveInv, HandInv', ConnectionFails \/ Close
    PROVE  ArriveInv'
<1>1. /\ UNCHANGED <<vars, arrived>> /\ unread' = << >>
      /\ skipped' = (skipped \/ unread # << >>)
    BY DEF ConnectionFails, Close
<1>2. skipped \in BOOLEAN /\ skipped' \in BOOLEAN
    BY <1>1 DEF ArriveInv
<1>3. ASSUME ~skipped'
      PROVE  Waiting' /\ Continues'
  <2>1. ~skipped /\ unread = << >>
    BY <1>1, <1>3
  <2>2. Waiting /\ Continues /\ unread' = unread
    BY <1>1, <2>1 DEF ArriveInv
  <2> QED
    BY <1>1, <2>2 DEF Waiting, Continues, Sent, vars
<1> QED
    BY <1>1, <1>2, <1>3 DEF ArriveInv, vars

(* The chunk that has waited longest is read.                              *)
LEMMA ArriveAtRead ==
    ASSUME ArriveInv, HandInv', Read
    PROVE  ArriveInv'
<1>1. /\ unread # << >> /\ Chunk(Head(unread)) /\ unread' = Tail(unread)
      /\ UNCHANGED <<arrived, skipped>>
    BY DEF Read
<1>2. ASSUME ~skipped'
      PROVE  Waiting' /\ Continues'
  <2>1. Waiting /\ Continues
    BY <1>1, <1>2 DEF ArriveInv
  <2>2. Continues'
    BY <1>1, <2>1, ChunkContinues DEF ArriveInv, HandInv
  <2>3. /\ unread \in Seq(Nat) /\ unread[Len(unread)] = arrived
    BY <1>1, <2>1 DEF Waiting
  <2>4. /\ Tail(unread) \in Seq(Nat) /\ Len(Tail(unread)) = Len(unread) - 1
        /\ \A i \in 1 .. Len(Tail(unread)) : Tail(unread)[i] = unread[i + 1]
        /\ Len(unread) \in Nat
    BY <1>1, <2>3, HeadTailProperties
  <2>5. sent' = Head(unread)
    BY <1>1 DEF Chunk
  <2>6. CASE Tail(unread) = << >>
    <3>1. Len(unread) = 1
      <4> DEFINE t == Tail(unread)
      <4>1. t = << >> /\ Len(t) = Len(unread) - 1 /\ Len(unread) \in Nat
        BY <2>4, <2>6
      <4> HIDE DEF t
      <4> QED
        BY ONLY <4>1
    <3>2. Head(unread) = unread[1]
      BY <1>1, <2>3
    <3> QED
      BY <1>1, <2>2, <2>3, <2>4, <2>5, <2>6, <3>1, <3>2 DEF Waiting
  <2>7. CASE Tail(unread) # << >>
    <3>1. Len(Tail(unread)) # 0
      BY <2>4, <2>7
    <3>2. Len(Tail(unread)) \in 1 .. Len(Tail(unread)) /\ Len(Tail(unread)) + 1 = Len(unread)
      BY <2>4, <3>1
    <3>3. Tail(unread)[Len(Tail(unread))] = unread[Len(unread)]
      BY <2>4, <3>2
    <3> QED
      BY <1>1, <2>2, <2>3, <2>4, <2>7, <3>3 DEF Waiting
  <2> QED
    BY <2>6, <2>7
<1>3. stream' = stream
    BY <1>1 DEF Chunk
<1> QED
    BY <1>1, <1>2, <1>3 DEF ArriveInv

(* What has been read is what was sent, followed by what waits: its data   *)
(* lines have been received or are in the buffer whatever comes next, and  *)
(* so are its events unless a chunk ended in one of them.                  *)
THEOREM ArriveInvariant == ClientSpec => []ArriveInv
<1>1. InitClient => ArriveInv
    BY ArriveAtFirst
<1>2. ArriveInv /\ HandInv' /\ [NextClient]_clientVars => ArriveInv'
  <2> SUFFICES ASSUME ArriveInv, HandInv', [NextClient]_clientVars
               PROVE  ArriveInv'
    OBVIOUS
  <2>1. CASE \E n \in 1 .. Len(stream) : Arrive(n)
    BY <2>1, ArriveAtArrival
  <2>2. CASE ConnectionFails \/ Close
    BY <2>2, ArriveAtLoss
  <2>3. CASE Read
    BY <2>3, ArriveAtRead
  <2>4. CASE \/ \E awaiting \in BOOLEAN : Connect(awaiting)
             \/ ServerConnection \/ SpyTimesOut \/ ServerEnds
             \/ UNCHANGED clientVars
    <3>1. UNCHANGED <<vars, arrived, unread, skipped>>
      BY <2>4 DEF Connect, ServerConnection, SpyTimesOut, ServerEnds, consumer, connection,
                  clientVars
    <3> QED
      BY <3>1, ArriveStill
  <2>5. CASE (\E want \in Wants : CollectEvents(want)) \/ Iterate \/ Resume \/ Break
    <3>1. UNCHANGED <<vars, arrived, unread, skipped>>
      BY <2>5 DEF CollectEvents, Iterate, Resume, Break, connection
    <3> QED
      BY <3>1, ArriveStill
  <2>6. CASE EndOfResponse \/ ReadFails \/ Abort
    <3>1. UNCHANGED <<vars, arrived, unread, skipped>>
      BY <2>6 DEF EndOfResponse, ReadFails, Abort, connection
    <3> QED
      BY <3>1, ArriveStill
  <2> QED
    BY <2>1, <2>2, <2>3, <2>4, <2>5, <2>6 DEF NextClient
<1> QED
    BY <1>1, <1>2, HandInvariant, PTL DEF ClientSpec

(* However a stream is cut into chunks, and calls, timeouts and the end of *)
(* the connection fall, what arrives is read once, in order and as the     *)
(* events it is, or still waits: unless the connection ended before it was *)
(* read, or a chunk went to a read that had been given up                  *)
(* (sseHttpClient.ts:285, sseParser.ts:243).                               *)
THEOREM ArrivesInOrder == ClientSpec => []ArrivesOnce
<1>1. ArriveInv => ArrivesOnce
  <2> SUFFICES ASSUME ArriveInv, ~skipped
               PROVE  /\ DataArrivesOnce
                      /\ unread = << >> => sent = arrived
                      /\ ChunksDoNotMatter
                      /\ sent = Len(stream) => DataOfBlocks
    BY DEF ArrivesOnce
  <2>1. ReaderTyped /\ Waiting /\ Continues /\ stream \in Streams
    BY DEF ArriveInv, HandInv
  <2> QED
    BY <2>1, ContinuesMeans, StreamBlocks DEF Waiting
<1> QED
    BY <1>1, ArriveInvariant, PTL

================================================================================
