------------------------- MODULE ApplicationProofs --------------------------
(***************************************************************************)
(* Proofs about registration, start and shutdown, for any applications, and*)
(* about what the gateways in front of them are given.                     *)
(***************************************************************************)
EXTENDS Application, FiniteSetTheorems, SequenceTheorems, TLAPS

-----------------------------------------------------------------------------
(* Loops.                                                                  *)

(* The least counterexample: a set of numbers that has 0 and, with each    *)
(* number, the next one has them all.  Strict inclusion of the sets 0 .. n *)
(* is well-founded.                                                        *)
LEMMA AllNumbers ==
    ASSUME NEW S \in SUBSET Nat, 0 \in S, \A n \in S : n + 1 \in S
    PROVE  S = Nat
<1> SUFFICES ASSUME Nat \ S # {}
             PROVE  FALSE
    OBVIOUS
<1> DEFINE T == {0 .. n : n \in Nat \ S}
<1>1. T \subseteq FiniteSubsetsOf(Nat) /\ T # {}
  <2>1. \A n \in Nat : 0 .. n \in SUBSET Nat /\ IsFiniteSet(0 .. n)
    BY FS_Interval
  <2> QED
    BY <2>1 DEF FiniteSubsetsOf
<1>2. PICK x \in T : \A y \in T : <<y, x>> \notin StrictSubsetOrdering(Nat)
    BY <1>1, FS_StrictSubsetOrderingWellFounded, WFMin
<1>3. PICK n \in Nat \ S : x = 0 .. n
    OBVIOUS
<1>4. n # 0 /\ n - 1 \in Nat /\ n - 1 \notin S
    OBVIOUS
<1>5. 0 .. n - 1 \subseteq 0 .. n /\ n \in 0 .. n /\ n \notin 0 .. n - 1
    OBVIOUS
<1>6. <<0 .. n - 1, 0 .. n>> \in StrictSubsetOrdering(Nat)
    BY <1>5 DEF StrictSubsetOrdering
<1>7. 0 .. n - 1 \in T
    BY <1>4
<1> QED
    BY <1>2, <1>3, <1>6, <1>7

(* A loop over the elements of a sequence has a state after each of them,  *)
(* of the type its turns keep.                                             *)
LEMMA LoopRuns ==
    ASSUME NEW S, NEW s0 \in S, NEW n \in Nat, NEW turn \in [1 .. n -> [S -> S]]
    PROVE  \E f \in [0 .. n -> S] :
              f[0] = s0 /\ \A k \in 1 .. n : f[k] = turn[k][f[k - 1]]
<1> DEFINE Runs(m, f) == /\ f \in [0 .. m -> S] /\ f[0] = s0
                         /\ \A k \in 1 .. m : f[k] = turn[k][f[k - 1]]
           Good == {m \in Nat : m <= n => \E f : Runs(m, f)}
<1>1. 0 \in Good
  <2>1. Runs(0, [k \in 0 .. 0 |-> s0])
    OBVIOUS
  <2> QED
    BY <2>1
<1>2. ASSUME NEW m \in Good
      PROVE  m + 1 \in Good
  <2> HIDE DEF Runs
  <2> SUFFICES ASSUME m + 1 <= n
               PROVE  \E f : Runs(m + 1, f)
    OBVIOUS
  <2>1. PICK f : Runs(m, f)
    <3>1. m \in Nat /\ m <= n
      OBVIOUS
    <3> QED
      BY <3>1
  <2> USE DEF Runs
  <2> DEFINE g == [k \in 0 .. m + 1 |-> IF k = m + 1 THEN turn[m + 1][f[m]] ELSE f[k]]
  <2>2. m \in 0 .. m /\ m + 1 \in 1 .. n
    OBVIOUS
  <2>3. f[m] \in S /\ turn[m + 1][f[m]] \in S
    <3>1. f[m] \in S /\ turn[m + 1] \in [S -> S]
      BY <2>1, <2>2
    <3> QED
      BY <3>1
  <2>4. \A k \in 0 .. m : g[k] = f[k] /\ k \in 0 .. m + 1
    OBVIOUS
  <2>5. g[m + 1] = turn[m + 1][f[m]]
    OBVIOUS
  <2>6. g \in [0 .. m + 1 -> S]
    BY <2>1, <2>3
  <2> HIDE DEF g
  <2>7. \A k \in 1 .. m + 1 : g[k] = turn[k][g[k - 1]]
    <3> SUFFICES ASSUME NEW k \in 1 .. m + 1
                 PROVE  g[k] = turn[k][g[k - 1]]
      OBVIOUS
    <3>1. CASE k = m + 1
      BY <2>4, <2>5, <3>1
    <3>2. CASE k # m + 1
      <4>1. k \in 1 .. m /\ k \in 0 .. m /\ k - 1 \in 0 .. m
        BY <3>2
      <4> QED
        BY <2>1, <2>4, <4>1
    <3> QED
      BY <3>1, <3>2
  <2>8. Runs(m + 1, g)
    BY <2>1, <2>4, <2>6, <2>7
  <2> QED
    BY <2>8
<1> HIDE DEF Good
<1>3. n \in Good
    BY <1>1, <1>2, AllNumbers DEF Good
<1>4. PICK f : Runs(n, f)
    BY <1>3 DEF Good
<1> QED
    BY <1>4

(* What a loop starts with and every turn keeps, it has at the end.        *)
LEMMA LoopKeeps ==
    ASSUME NEW S, NEW f, NEW n \in Nat, f[0] \in S,
           \A k \in 1 .. n : f[k - 1] \in S => f[k] \in S
    PROVE  \A k \in 0 .. n : f[k] \in S
<1> DEFINE Good == {m \in Nat : m <= n => f[m] \in S}
<1>1. 0 \in Good
    OBVIOUS
<1>2. ASSUME NEW m \in Good
      PROVE  m + 1 \in Good
  <2> SUFFICES ASSUME m + 1 <= n
               PROVE  f[m + 1] \in S
    OBVIOUS
  <2>1. f[m] \in S /\ m + 1 \in 1 .. n /\ (m + 1) - 1 = m
    OBVIOUS
  <2> QED
    BY <2>1
<1> HIDE DEF Good
<1>3. Good = Nat
    BY <1>1, <1>2, AllNumbers DEF Good
<1> QED
    BY <1>3 DEF Good

-----------------------------------------------------------------------------
(* Objects that are assigned one after the other.                          *)

(* What each entry of the result is: that of the last object that has one. *)
LEMMA AssignedIs ==
    ASSUME NEW objects, Len(objects) \in Nat
    PROVE  /\ \A i \in 1 .. Len(objects) :
                 DOMAIN objects[i] \subseteq DOMAIN Assigned(objects)
           /\ \A n \in DOMAIN Assigned(objects) :
                 \E i \in 1 .. Len(objects) :
                    /\ n \in DOMAIN objects[i] /\ Assigned(objects)[n] = objects[i][n]
                    /\ \A j \in i + 1 .. Len(objects) : n \notin DOMAIN objects[j]
<1> DEFINE len == Len(objects)
           N == UNION {DOMAIN objects[i] : i \in 1 .. len}
           V == UNION {{objects[i][n] : n \in DOMAIN objects[i]} : i \in 1 .. len}
           S == UNION {[D -> V] : D \in SUBSET N}
           turn == [i \in 1 .. len |-> [f \in S |-> objects[i] ++ f]]
           Body(f) == [i \in 0 .. len |-> IF i = 0 THEN Nothing ELSE objects[i] ++ f[i - 1]]
<1>1. ASSUME NEW i \in 1 .. len, NEW f \in S
      PROVE  objects[i] ++ f \in S
  <2> DEFINE g == objects[i] ++ f
             D == DOMAIN objects[i] \cup DOMAIN f
  <2>1. g = [n \in D |-> IF n \in DOMAIN objects[i] THEN objects[i][n] ELSE f[n]]
    BY DEF ++
  <2>2. D \in SUBSET N /\ \A n \in DOMAIN f : f[n] \in V
    <3>1. DOMAIN objects[i] \in SUBSET N
      OBVIOUS
    <3>2. PICK E \in SUBSET N : f \in [E -> V]
      <4> HIDE DEF N, V
      <4> QED
        OBVIOUS
    <3> HIDE DEF N, V
    <3> QED
      BY <3>1, <3>2
  <2>3. \A n \in DOMAIN objects[i] : objects[i][n] \in V
    OBVIOUS
  <2> HIDE DEF V, N
  <2>4. g \in [D -> V]
    BY <2>1, <2>2, <2>3
  <2> QED
    BY <2>2, <2>4
<1>2. Nothing \in S
  <2>1. Nothing \in [{} -> V] /\ {} \in SUBSET N
    BY DEF Nothing
  <2> HIDE DEF N, V
  <2> QED
    BY <2>1
<1> HIDE DEF S
<1>3. \E f : f = Body(f)
  <2> HIDE DEF Body, N, V
  <2>1. len \in Nat /\ Nothing \in S /\ turn \in [1 .. len -> [S -> S]]
    BY <1>1, <1>2
  <2>2. \A k \in 1 .. len, f \in S : turn[k][f] = objects[k] ++ f
    OBVIOUS
  <2> HIDE DEF turn, len
  <2>3. PICK f \in [0 .. len -> S] :
            f[0] = Nothing /\ \A k \in 1 .. len : f[k] = turn[k][f[k - 1]]
    BY ONLY <2>1, LoopRuns
  <2>4. \A k \in 1 .. len : f[k - 1] \in S
    BY <2>1, <2>3
  <2>5. \A i \in 0 .. len : f[i] = IF i = 0 THEN Nothing ELSE objects[i] ++ f[i - 1]
    BY <2>1, <2>2, <2>3, <2>4
  <2>6. f = [i \in 0 .. len |-> IF i = 0 THEN Nothing ELSE objects[i] ++ f[i - 1]]
    BY <2>3, <2>5
  <2> QED
    BY <2>6 DEF Body, len
<1> DEFINE upto == CHOOSE f : f = Body(f)
<1>4. upto = Body(upto)
    BY <1>3
<1>5. Assigned(objects) = upto[len]
    BY DEF Assigned
<1> HIDE DEF upto
<1>6. /\ upto[0] = Nothing
      /\ \A i \in 1 .. len : upto[i] = objects[i] ++ upto[i - 1]
    BY <1>4
<1> HIDE DEF Body, N, V, turn
<1> DEFINE Is(m) == /\ \A i \in 1 .. m : DOMAIN objects[i] \subseteq DOMAIN upto[m]
                    /\ \A n \in DOMAIN upto[m] :
                         \E i \in 1 .. m :
                            /\ n \in DOMAIN objects[i] /\ upto[m][n] = objects[i][n]
                            /\ \A j \in i + 1 .. m : n \notin DOMAIN objects[j]
           Good == {m \in Nat : m <= len => Is(m)}
<1>7. 0 \in Good
  <2>1. DOMAIN upto[0] = {}
    BY <1>6 DEF Nothing
  <2> QED
    BY <2>1
<1>8. ASSUME NEW m \in Good
      PROVE  m + 1 \in Good
  <2> SUFFICES ASSUME m + 1 <= len
               PROVE  Is(m + 1)
    OBVIOUS
  <2>1. m \in Nat /\ m <= len /\ Is(m)
    OBVIOUS
  <2>2. upto[m + 1] = objects[m + 1] ++ upto[m]
    <3>1. m + 1 \in 1 .. len /\ (m + 1) - 1 = m
      BY <2>1
    <3> QED
      BY <1>6, <3>1
  <2>3. /\ DOMAIN upto[m + 1] = DOMAIN objects[m + 1] \cup DOMAIN upto[m]
        /\ \A n \in DOMAIN objects[m + 1] : upto[m + 1][n] = objects[m + 1][n]
        /\ \A n \in DOMAIN upto[m] \ DOMAIN objects[m + 1] : upto[m + 1][n] = upto[m][n]
    BY <2>2 DEF ++
  <2>4. \A i \in 1 .. m + 1 : DOMAIN objects[i] \subseteq DOMAIN upto[m + 1]
    <3>1. \A i \in 1 .. m + 1 : i = m + 1 \/ i \in 1 .. m
      BY <2>1
    <3> QED
      BY <2>1, <2>3, <3>1
  <2>5. ASSUME NEW n \in DOMAIN upto[m + 1]
        PROVE  \E i \in 1 .. m + 1 :
                  /\ n \in DOMAIN objects[i] /\ upto[m + 1][n] = objects[i][n]
                  /\ \A j \in i + 1 .. m + 1 : n \notin DOMAIN objects[j]
    <3>1. CASE n \in DOMAIN objects[m + 1]
      <4>1. m + 1 \in 1 .. m + 1 /\ (m + 1) + 1 .. m + 1 = {}
        BY <2>1
      <4> QED
        BY <2>3, <3>1, <4>1
    <3>2. CASE n \notin DOMAIN objects[m + 1]
      <4>1. n \in DOMAIN upto[m] /\ upto[m + 1][n] = upto[m][n]
        BY <2>3, <3>2
      <4>2. PICK i \in 1 .. m : /\ n \in DOMAIN objects[i] /\ upto[m][n] = objects[i][n]
                                /\ \A j \in i + 1 .. m : n \notin DOMAIN objects[j]
        BY <2>1, <4>1
      <4>3. i \in 1 .. m + 1 /\ \A j \in i + 1 .. m + 1 : j = m + 1 \/ j \in i + 1 .. m
        BY <2>1
      <4> QED
        BY <3>2, <4>1, <4>2, <4>3
    <3> QED
      BY <3>1, <3>2
  <2> QED
    BY <2>4, <2>5
<1> HIDE DEF Good
<1>9. len \in Good
    BY <1>7, <1>8, AllNumbers DEF Good
<1>10. Is(len)
    BY <1>9 DEF Good
<1> QED
    BY <1>5, <1>10

-----------------------------------------------------------------------------
(* What a module offers.                                                   *)

Resolved == {"sse", "dual", "api"}

(* The controllers of a module that go into the container.                 *)
FiledAs(a, module, n) ==
    {j \in DOMAIN module.controllers :
        /\ a.resolveControllers /\ module.controllers[j].name = n
        /\ module.controllers[j].resolver.controller \in Resolved}

(* A name is that of a controller, or else of a dependency.                *)
LEMMA OfferedIs ==
    ASSUME NEW a, NEW module, NamedOnce(module.controllers)
    PROVE  /\ \A n : n \in DOMAIN Offered(a, module) <=>
                        FiledAs(a, module, n) # {} \/ n \in DOMAIN module.deps
           /\ \A n : \A j \in FiledAs(a, module, n) :
                 /\ Offered(a, module)[n] = module.controllers[j].resolver
                 /\ FiledAs(a, module, n) = {j}
           /\ \A n : FiledAs(a, module, n) = {} /\ n \in DOMAIN module.deps =>
                    Offered(a, module)[n] = module.deps[n]
<1> DEFINE filed == {i \in DOMAIN module.controllers :
                       /\ a.resolveControllers
                       /\ module.controllers[i].resolver.controller \in {"sse", "dual", "api"}}
           At(n) == CHOOSE i \in filed : module.controllers[i].name = n
           own == [n \in {module.controllers[i].name : i \in filed} |->
                      module.controllers[At(n)].resolver]
<1>1. Offered(a, module) = own ++ module.deps
    BY DEF Offered
<1>2. \A n : FiledAs(a, module, n) = {i \in filed : module.controllers[i].name = n}
    BY DEF FiledAs, Resolved
<1>3. \A n : n \in DOMAIN own <=> FiledAs(a, module, n) # {}
    BY <1>2
<1>4. ASSUME NEW n, NEW j \in FiledAs(a, module, n)
      PROVE  own[n] = module.controllers[j].resolver /\ FiledAs(a, module, n) = {j}
  <2>1. \A i \in FiledAs(a, module, n) : i = j
    BY DEF FiledAs, NamedOnce
  <2>2. At(n) \in FiledAs(a, module, n)
    BY <1>2
  <2>3. At(n) = j /\ n \in {module.controllers[i].name : i \in filed}
    BY <1>2, <2>1, <2>2
  <2> HIDE DEF filed, At
  <2> QED
    BY <2>1, <2>3
<1> HIDE DEF own
<1>5. /\ DOMAIN (own ++ module.deps) = DOMAIN own \cup DOMAIN module.deps
      /\ \A n \in DOMAIN own : (own ++ module.deps)[n] = own[n]
      /\ \A n \in DOMAIN module.deps \ DOMAIN own : (own ++ module.deps)[n] = module.deps[n]
    BY DEF ++
<1>6. \A n : n \in DOMAIN Offered(a, module) <=>
                 FiledAs(a, module, n) # {} \/ n \in DOMAIN module.deps
    BY <1>1, <1>3, <1>5
<1>7. ASSUME NEW n, NEW j \in FiledAs(a, module, n)
      PROVE  Offered(a, module)[n] = module.controllers[j].resolver
    BY <1>1, <1>3, <1>4, <1>5
<1>8. \A n : FiledAs(a, module, n) = {} /\ n \in DOMAIN module.deps =>
                    Offered(a, module)[n] = module.deps[n]
    BY <1>1, <1>3, <1>5
<1> QED
    BY <1>4, <1>6, <1>7, <1>8

(* What all modules offer, in the order they are registered in.            *)
Offers(a) == [i \in DOMAIN a.modules |-> Offered(a, a.modules[i])]
               \o [i \in DOMAIN a.secondary |-> Public(a.secondary[i].deps)]

(* Primary modules come first.                                             *)
LEMMA OffersAre ==
    ASSUME NEW a \in Apps
    PROVE  /\ Len(a.modules) \in Nat /\ DOMAIN a.modules = 1 .. Len(a.modules)
           /\ Len(a.secondary) \in Nat /\ DOMAIN a.secondary = 1 .. Len(a.secondary)
           /\ Len(Offers(a)) = Len(a.modules) + Len(a.secondary)
           /\ \A i \in 1 .. Len(a.modules) : Offers(a)[i] = Offered(a, a.modules[i])
           /\ \A i \in 1 .. Len(a.secondary) :
                 Offers(a)[Len(a.modules) + i] = Public(a.secondary[i].deps)
<1>1. /\ Len(a.modules) \in Nat /\ DOMAIN a.modules = 1 .. Len(a.modules)
      /\ Len(a.secondary) \in Nat /\ DOMAIN a.secondary = 1 .. Len(a.secondary)
  <2>1. a.modules \in Seq(ToSet(a.modules)) /\ a.secondary \in Seq(ToSet(a.secondary))
    BY AppsAssumption
  <2> QED
    BY <2>1
<1> DEFINE p == Len(a.modules)
           s == Len(a.secondary)
           first == [i \in 1 .. p |-> Offered(a, a.modules[i])]
           second == [i \in 1 .. s |-> Public(a.secondary[i].deps)]
           Both == {Offered(a, a.modules[i]) : i \in 1 .. p}
                    \cup {Public(a.secondary[i].deps) : i \in 1 .. s}
<1>2. p \in Nat /\ s \in Nat /\ Offers(a) = first \o second
    BY <1>1 DEF Offers
<1>3. first \in Seq(Both) /\ second \in Seq(Both) /\ Len(first) = p /\ Len(second) = s
  <2>1. \A i \in 1 .. p : first[i] \in Both
    OBVIOUS
  <2>2. \A i \in 1 .. s : second[i] \in Both
    OBVIOUS
  <2>3. DOMAIN first = 1 .. p /\ first = [i \in 1 .. p |-> first[i]]
    OBVIOUS
  <2>4. DOMAIN second = 1 .. s /\ second = [i \in 1 .. s |-> second[i]]
    OBVIOUS
  <2> HIDE DEF first, second, Both, p, s
  <2>5. first \in [1 .. p -> Both] /\ second \in [1 .. s -> Both]
    BY <2>1, <2>2, <2>3, <2>4
  <2> QED
    BY <1>2, <2>5
<1>4. /\ \A i \in 1 .. p : first[i] = Offered(a, a.modules[i])
      /\ \A i \in 1 .. s : second[i] = Public(a.secondary[i].deps)
    OBVIOUS
<1>8. p \in Nat /\ s \in Nat
    BY <1>2
<1> HIDE DEF first, second, Both, p, s
<1>5. /\ Len(first \o second) = p + s
      /\ \A i \in 1 .. p + s : (first \o second)[i] =
                                IF i <= p THEN first[i] ELSE second[i - p]
  <2>1. /\ Len(first \o second) = Len(first) + Len(second)
        /\ \A i \in 1 .. Len(first) + Len(second) :
              (first \o second)[i] = IF i <= Len(first) THEN first[i]
                                    ELSE second[i - Len(first)]
    BY <1>3, ConcatProperties
  <2> QED
    BY <1>3, <2>1
<1>6. /\ \A i \in 1 .. p : i \in 1 .. p + s /\ i <= p
      /\ \A i \in 1 .. s : p + i \in 1 .. p + s /\ ~(p + i <= p) /\ (p + i) - p = i
    BY <1>8
<1>7. \A i \in 1 .. s : (first \o second)[p + i] = second[i]
    BY <1>5, <1>6
<1> QED
    BY <1>1, <1>2, <1>4, <1>5, <1>6, <1>7, <1>8 DEF p, s

-----------------------------------------------------------------------------
(* The controllers of a kind.                                              *)

(* Sequences of elements of a set make up one sequence of them.            *)
LEMMA FlattenIs ==
    ASSUME NEW S, NEW seqs, seqs \in Seq(Seq(S))
    PROVE  FlattenSeq(seqs) \in Seq(S)
<1> DEFINE Q == Seq(S)
           len == Len(seqs)
           Body(f) == [i \in 1 .. len |-> IF i = 1 THEN seqs[i] ELSE f[i - 1] \o seqs[i]]
<1>1. len \in Nat /\ \A i \in 1 .. len : seqs[i] \in Seq(S)
    OBVIOUS
<1>2. CASE len = 0
  <2>1. FlattenSeq(seqs) = seqs /\ seqs = << >>
    BY <1>2 DEF FlattenSeq
  <2> QED
    BY <2>1
<1>3. CASE len # 0
  <2> DEFINE n == len - 1
             turn == [i \in 1 .. n |-> [f \in Seq(S) |-> f \o seqs[i + 1]]]
             flatten == CHOOSE f : f = Body(f)
  <2>1. n \in Nat /\ len = n + 1
    BY <1>1, <1>3
  <2>2. \A i \in 1 .. n : i + 1 \in 1 .. len /\ i + 1 # 1 /\ (i + 1) - 1 = i
    BY <2>1
  <2>3. turn \in [1 .. n -> [Q -> Q]]
    <3>1. \A i \in 1 .. n : \A f \in Seq(S) : f \o seqs[i + 1] \in Seq(S)
      BY <1>1, <2>2, ConcatProperties
    <3> QED
      BY <3>1
  <2> DEFINE start == seqs[1]
  <2>4. 1 \in 1 .. len /\ start \in Q
    BY <1>1, <1>3
  <2>5. \A k \in 1 .. n, f \in Q : turn[k][f] = f \o seqs[k + 1]
    OBVIOUS
  <2> HIDE DEF Body, turn, n, len, Q, start, flatten
  <2>6. n \in Nat /\ start \in Q /\ turn \in [1 .. n -> [Q -> Q]]
    BY <2>1, <2>3, <2>4
  <2>17. PICK g \in [0 .. n -> Q] :
            g[0] = start /\ \A k \in 1 .. n : g[k] = turn[k][g[k - 1]]
    BY ONLY <2>6, LoopRuns
  <2>18. \A k \in 1 .. n : k - 1 \in 0 .. n
    BY <2>1
  <2>19. \A k \in 1 .. n : g[k - 1] \in Q /\ g[k] = turn[k][g[k - 1]]
    BY <2>17, <2>18
  <2>7. \A k \in 1 .. n : g[k - 1] \in Seq(S) /\ g[k] = g[k - 1] \o seqs[k + 1]
    BY <2>5, <2>19 DEF Q
  <2> DEFINE f == [i \in 1 .. len |-> g[i - 1]]
  <2>8. f = [i \in 1 .. len |-> IF i = 1 THEN seqs[i] ELSE f[i - 1] \o seqs[i]]
    <3>1. ASSUME NEW i \in 1 .. len
          PROVE  f[i] = IF i = 1 THEN seqs[i] ELSE f[i - 1] \o seqs[i]
      <4>1. CASE i = 1
        BY <2>17, <4>1 DEF start
      <4>2. CASE i # 1
        <5>1. /\ i - 1 \in 1 .. n /\ i - 1 \in 1 .. len
              /\ (i - 1) + 1 = i /\ (i - 1) - 1 \in 0 .. n
          BY <2>1, <4>2
        <5>2. f[i] = g[i - 1] /\ f[i - 1] = g[(i - 1) - 1]
          BY <5>1
        <5> QED
          BY <2>7, <4>2, <5>1, <5>2
      <4> QED
        BY <4>1, <4>2
    <3>2. f = [i \in 1 .. len |-> f[i]]
      OBVIOUS
    <3> HIDE DEF f
    <3> QED
      BY <3>1, <3>2
  <2>9. f = Body(f)
    BY <2>8 DEF Body, len
  <2>10. flatten = Body(flatten)
    <3> HIDE DEF f
    <3> QED
      BY <2>9 DEF flatten
  <2>11. FlattenSeq(seqs) = flatten[len]
    BY <1>3 DEF FlattenSeq, Body, len, flatten
  <2>12. \A i \in 1 .. len : flatten[i] = IF i = 1 THEN seqs[i] ELSE flatten[i - 1] \o seqs[i]
    BY <2>10 DEF Body
  <2> DEFINE shifted == [k \in 0 .. n |-> flatten[k + 1]]
  <2>13. shifted[0] \in Seq(S)
    BY <2>1, <2>4, <2>12 DEF start, Q
  <2>14. \A k \in 1 .. n : shifted[k - 1] \in Seq(S) => shifted[k] \in Seq(S)
    <3> SUFFICES ASSUME NEW k \in 1 .. n, shifted[k - 1] \in Seq(S)
                 PROVE  shifted[k] \in Seq(S)
      OBVIOUS
    <3>1. /\ k \in 0 .. n /\ k - 1 \in 0 .. n /\ (k - 1) + 1 = k
          /\ k + 1 \in 1 .. len /\ k + 1 # 1 /\ (k + 1) - 1 = k
      BY <2>1
    <3>2. shifted[k] = flatten[k] \o seqs[k + 1] /\ flatten[k] \in Seq(S)
      BY <2>12, <3>1
    <3> HIDE DEF shifted
    <3> QED
      BY <1>1, <3>1, <3>2, ConcatProperties DEF len
  <2>15. n \in 0 .. n /\ shifted[n] = flatten[len]
    BY <2>1
  <2> HIDE DEF shifted
  <2>16. \A k \in 0 .. n : shifted[k] \in Seq(S)
    BY ONLY <2>1, <2>13, <2>14, LoopKeeps
  <2> QED
    BY <2>11, <2>15, <2>16
<1> QED
    BY <1>2, <1>3

ControllersIn(a) ==
    UNION {ToSet(a.modules[i].controllers) : i \in DOMAIN a.modules}

\* those that an application registers under a kind
Kind(a, kind) == {c \in ControllersIn(a) : c.resolver.controller = kind}

(* Only controllers of primary modules are registered, each under its kind,*)
(* and none when the application is to have none.                          *)
LEMMA ControllersAre ==
    ASSUME NEW a, a \in Apps, NEW kind
    PROVE  /\ RegisterControllers(a, kind) \in Seq(Kind(a, kind))
           /\ ~a.resolveControllers => RegisterControllers(a, kind) = << >>
<1> DEFINE lists == [i \in DOMAIN a.modules |-> a.modules[i].controllers]
           all == FlattenSeq(lists)
           len == Len(all)
           K == Kind(a, kind)
           One(f, i) == IF all[i].resolver.controller = kind THEN Append(f, all[i]) ELSE f
           turn == [i \in 1 .. len |-> [f \in Seq(K) |-> One(f, i)]]
           Body(f) == [i \in 0 .. len |-> IF i = 0 THEN << >> ELSE One(f[i - 1], i)]
<1>1. all \in Seq(ControllersIn(a))
  <2>1. Len(a.modules) \in Nat /\ DOMAIN a.modules = 1 .. Len(a.modules)
    BY OffersAre
  <2>2. \A i \in DOMAIN a.modules : a.modules[i].controllers \in Seq(ControllersIn(a))
    <3> SUFFICES ASSUME NEW i \in DOMAIN a.modules
                 PROVE  a.modules[i].controllers \in Seq(ControllersIn(a))
      OBVIOUS
    <3>1. a.modules[i].controllers \in Seq(ToSet(a.modules[i].controllers))
      BY AppsAssumption DEF IsModule
    <3>2. ToSet(a.modules[i].controllers) \subseteq ControllersIn(a)
      BY DEF ControllersIn
    <3> QED
      BY <3>1, <3>2
  <2>3. lists \in [1 .. Len(a.modules) -> Seq(ControllersIn(a))]
    BY <2>1, <2>2
  <2> HIDE DEF lists
  <2>4. lists \in Seq(Seq(ControllersIn(a)))
    BY <2>1, <2>3
  <2> QED
    BY <2>4, FlattenIs
<1>2. ControllersOf(a, kind) \in Seq(K)
  <2> DEFINE found == CHOOSE f : f = Body(f)
  <2> HIDE DEF all
  <2>1. len \in Nat /\ \A i \in 1 .. len : all[i] \in ControllersIn(a)
    BY <1>1
  <2>2. \A i \in 1 .. len : \A f \in Seq(K) : One(f, i) \in Seq(K)
    <3> SUFFICES ASSUME NEW i \in 1 .. len, NEW f \in Seq(K)
                 PROVE  One(f, i) \in Seq(K)
      OBVIOUS
    <3>1. CASE all[i].resolver.controller = kind
      <4>1. all[i] \in K
        BY <2>1, <3>1 DEF Kind
      <4> HIDE DEF K
      <4> QED
        BY <3>1, <4>1, AppendProperties
    <3>2. CASE all[i].resolver.controller # kind
      BY <3>2
    <3> QED
      BY <3>1, <3>2
  <2> HIDE DEF K, One
  <2>3. turn \in [1 .. len -> [Seq(K) -> Seq(K)]]
    BY <2>2
  <2>4. \A k \in 1 .. len, f \in Seq(K) : turn[k][f] = One(f, k)
    OBVIOUS
  <2>5. << >> \in Seq(K)
    OBVIOUS
  <2> DEFINE Q == Seq(K)
             none == << >>
  <2> HIDE DEF turn, len, Body
  <2>16. len \in Nat /\ turn \in [1 .. len -> [Q -> Q]] /\ none \in Q
    BY <2>1, <2>3, <2>5
  <2>17. \A k \in 1 .. len, f \in Q : turn[k][f] = One(f, k)
    BY <2>4
  <2> HIDE DEF Q, none
  <2>6. PICK g \in [0 .. len -> Q] :
            g[0] = none /\ \A k \in 1 .. len : g[k] = turn[k][g[k - 1]]
    BY ONLY <2>16, LoopRuns
  <2>18. \A k \in 1 .. len : g[k - 1] \in Q
    BY <2>6, <2>16
  <2>7. \A k \in 1 .. len : g[k] = One(g[k - 1], k)
    BY <2>6, <2>17, <2>18
  <2>8. \A k \in 0 .. len : g[k] = IF k = 0 THEN << >> ELSE One(g[k - 1], k)
    <3>1. \A k \in 0 .. len : k = 0 \/ k \in 1 .. len
      BY <2>16
    <3>2. \A k \in 1 .. len : k # 0
      BY <2>16
    <3> HIDE DEF One
    <3> QED
      BY <2>6, <2>7, <3>1, <3>2 DEF none
  <2>9. g = [k \in 0 .. len |-> IF k = 0 THEN << >> ELSE One(g[k - 1], k)]
    BY <2>6, <2>8
  <2>10. g = Body(g)
    BY <2>9 DEF Body, len
  <2>11. found = Body(found)
    BY <2>10
  <2>12. ControllersOf(a, kind) = found[len]
    BY DEF ControllersOf, Body, One, len, all
  <2> HIDE DEF found
  <2>13. /\ found[0] = << >>
         /\ \A k \in 1 .. len : found[k] = One(found[k - 1], k)
    BY <2>1, <2>11 DEF Body
  <2>14. \A k \in 1 .. len : found[k - 1] \in Seq(K) => found[k] \in Seq(K)
    BY <2>2, <2>13 DEF len
  <2>15. \A k \in 0 .. len : found[k] \in Seq(K)
    BY ONLY <2>1, <2>5, <2>13, <2>14, LoopKeeps
  <2> QED
    BY <2>1, <2>12, <2>15
<1>3. << >> \in Seq(K)
  <2> HIDE DEF K
  <2> QED
    OBVIOUS
<1> QED
    BY <1>2, <1>3 DEF RegisterControllers

-----------------------------------------------------------------------------
(* Who a name belongs to.                                                  *)

(* The declarations that have a right to a name: a public dependency of a  *)
(* secondary module, a dependency of a primary one, or its controller.     *)
LEMMA ClaimsAre ==
    ASSUME NEW a, NEW n, NEW c
    PROVE  c \in Claims(a, n) <=>
              \/ \E i \in DOMAIN a.secondary :
                    /\ n \in DOMAIN Public(a.secondary[i].deps)
                    /\ c = <<2, i, 1, a.secondary[i].deps[n]>>
              \/ \E i \in DOMAIN a.modules :
                    /\ n \in DOMAIN a.modules[i].deps
                    /\ c = <<1, i, 1, a.modules[i].deps[n]>>
              \/ \E i \in DOMAIN a.modules : \E j \in FiledAs(a, a.modules[i], n) :
                    c = <<1, i, 1 + j, a.modules[i].controllers[j].resolver>>
<1> DEFINE secondary == {<<2, i, 1, a.secondary[i].deps[n]>> : i \in
               {i \in DOMAIN a.secondary : n \in DOMAIN Public(a.secondary[i].deps)}}
           primary == {<<1, i, 1, a.modules[i].deps[n]>> : i \in
               {i \in DOMAIN a.modules : n \in DOMAIN a.modules[i].deps}}
           Of(i) == {<<1, i, 1 + j, a.modules[i].controllers[j].resolver>> : j \in
                        FiledAs(a, a.modules[i], n)}
           controllers == UNION {Of(i) : i \in DOMAIN a.modules}
<1>1. Claims(a, n) = secondary \cup primary \cup controllers
    BY DEF Claims, FiledAs, Resolved
<1>2. c \in secondary <=> \E i \in DOMAIN a.secondary :
                             /\ n \in DOMAIN Public(a.secondary[i].deps)
                             /\ c = <<2, i, 1, a.secondary[i].deps[n]>>
    OBVIOUS
<1>3. c \in primary <=> \E i \in DOMAIN a.modules :
                           /\ n \in DOMAIN a.modules[i].deps
                           /\ c = <<1, i, 1, a.modules[i].deps[n]>>
    OBVIOUS
<1>4. c \in controllers <=>
          \E i \in DOMAIN a.modules : \E j \in FiledAs(a, a.modules[i], n) :
             c = <<1, i, 1 + j, a.modules[i].controllers[j].resolver>>
  <2>1. c \in controllers <=> \E i \in DOMAIN a.modules : c \in Of(i)
    <3> HIDE DEF Of
    <3> QED
      OBVIOUS
  <2> QED
    BY <2>1
<1> HIDE DEF secondary, primary, controllers
<1> QED
    BY <1>1, <1>2, <1>3, <1>4

(* A name is registered when somebody declares it, and with the resolver   *)
(* of the last declaration that has a right to it.                         *)
LEMMA TargetIs ==
    ASSUME NEW a \in Apps, NEW n
    PROVE  /\ n \in DOMAIN TargetDiConfig(a) <=> Claims(a, n) # {}
           /\ n \in DOMAIN TargetDiConfig(a) =>
                 \E winner \in Claims(a, n) :
                    /\ TargetDiConfig(a)[n] = winner[4]
                    /\ \A other \in Claims(a, n) \ {winner} : Later(winner, other)
<1> DEFINE p == Len(a.modules)
           s == Len(a.secondary)
           At(k) == Offers(a)[k]
           T == TargetDiConfig(a)
           Wins(c) == c \in Claims(a, n) /\ T[n] = c[4]
                        /\ \A other \in Claims(a, n) \ {c} : Later(c, other)
<1>1. /\ p \in Nat /\ DOMAIN a.modules = 1 .. p
      /\ s \in Nat /\ DOMAIN a.secondary = 1 .. s
      /\ Len(Offers(a)) = p + s
      /\ \A i \in 1 .. p : At(i) = Offered(a, a.modules[i])
      /\ \A i \in 1 .. s : At(p + i) = Public(a.secondary[i].deps)
    BY OffersAre
<1>2. T = Assigned(Offers(a))
    BY DEF TargetDiConfig, Offers
<1> HIDE DEF T, At, p, s
<1>3. /\ \A k \in 1 .. p + s : DOMAIN At(k) \subseteq DOMAIN T
      /\ n \in DOMAIN T =>
            \E k \in 1 .. p + s :
               /\ n \in DOMAIN At(k) /\ T[n] = At(k)[n]
               /\ \A j \in k + 1 .. p + s : n \notin DOMAIN At(j)
  <2>1. Len(Offers(a)) \in Nat
    BY <1>1
  <2> QED
    BY <1>1, <1>2, <2>1, AssignedIs DEF At
<1>4. \A i \in 1 .. p : NamedOnce(a.modules[i].controllers)
                         /\ DOMAIN a.modules[i].controllers \subseteq Nat \ {0}
  <2> SUFFICES ASSUME NEW i \in 1 .. p
               PROVE  NamedOnce(a.modules[i].controllers)
                         /\ DOMAIN a.modules[i].controllers \subseteq Nat \ {0}
    OBVIOUS
  <2>1. IsModule(a.modules[i])
    BY <1>1, AppsAssumption
  <2>2. a.modules[i].controllers \in Seq(ToSet(a.modules[i].controllers))
    BY <2>1 DEF IsModule
  <2> QED
    BY <2>1, <2>2 DEF IsModule
<1>5. /\ \A i \in 1 .. p : i \in 1 .. p + s /\ \A j \in 1 .. s : p + j \in i + 1 .. p + s
      /\ \A i \in 1 .. s : p + i \in 1 .. p + s
    BY <1>1
<1>6. ASSUME NEW c \in Claims(a, n)
      PROVE  n \in DOMAIN T
  <2>1. CASE \E i \in DOMAIN a.secondary : n \in DOMAIN Public(a.secondary[i].deps)
    <3>1. PICK i \in 1 .. s : n \in DOMAIN At(p + i)
      BY <1>1, <2>1
    <3> QED
      BY <1>3, <1>5, <3>1
  <2>2. CASE \E i \in DOMAIN a.modules :
                n \in DOMAIN a.modules[i].deps \/ FiledAs(a, a.modules[i], n) # {}
    <3>1. PICK i \in 1 .. p : n \in DOMAIN a.modules[i].deps \/ FiledAs(a, a.modules[i], n) # {}
      BY <1>1, <2>2
    <3>2. n \in DOMAIN At(i)
      BY <1>1, <1>4, <3>1, OfferedIs
    <3> QED
      BY <1>3, <1>5, <3>2
  <2> QED
    BY <2>1, <2>2, ClaimsAre
<1>7. ASSUME n \in DOMAIN T
      PROVE  \E c : Wins(c)
  <2>1. PICK k \in 1 .. p + s : /\ n \in DOMAIN At(k) /\ T[n] = At(k)[n]
                                /\ \A j \in k + 1 .. p + s : n \notin DOMAIN At(j)
    BY <1>3, <1>7
  <2>2. ASSUME NEW i \in 1 .. s, n \in DOMAIN Public(a.secondary[i].deps)
        PROVE  p + i <= k
    <3>1. n \in DOMAIN At(p + i)
      BY <1>1, <2>2
    <3>2. p + i \notin k + 1 .. p + s
      BY <2>1, <3>1
    <3> QED
      BY <1>1, <3>2
  <2>3. ASSUME NEW i \in 1 .. p,
               n \in DOMAIN a.modules[i].deps \/ FiledAs(a, a.modules[i], n) # {}
        PROVE  i <= k
    <3>1. n \in DOMAIN At(i)
      BY <1>1, <1>4, <2>3, OfferedIs
    <3>2. i \notin k + 1 .. p + s
      BY <2>1, <3>1
    <3> QED
      BY <1>1, <3>2
  <2>4. CASE k > p
    <3> DEFINE i == k - p
               c == <<2, i, 1, a.secondary[i].deps[n]>>
    <3>1. i \in 1 .. s /\ p + i = k
      BY <1>1, <2>4
    <3>2. At(k) = Public(a.secondary[i].deps)
      BY <1>1, <3>1
    <3>3. n \in DOMAIN Public(a.secondary[i].deps)
             /\ Public(a.secondary[i].deps)[n] = a.secondary[i].deps[n]
      BY <2>1, <3>2 DEF Public, Restrict
    <3> HIDE DEF i
    <3>4. c \in Claims(a, n) /\ T[n] = c[4]
      BY <1>1, <2>1, <3>1, <3>2, <3>3, ClaimsAre
    <3>5. ASSUME NEW other \in Claims(a, n) \ {c}
          PROVE  Later(c, other)
      <4>1. CASE \E m \in DOMAIN a.secondary :
                    /\ n \in DOMAIN Public(a.secondary[m].deps)
                    /\ other = <<2, m, 1, a.secondary[m].deps[n]>>
        <5>1. PICK m \in 1 .. s : /\ n \in DOMAIN Public(a.secondary[m].deps)
                                  /\ other = <<2, m, 1, a.secondary[m].deps[n]>>
          BY <1>1, <4>1
        <5>2. m <= i /\ m # i
          BY <1>1, <2>2, <3>1, <5>1
        <5>3. i > m
          BY <3>1, <5>2
        <5> QED
          BY <5>1, <5>3 DEF Later
      <4>2. CASE other[1] = 1
        BY <4>2 DEF Later
      <4> QED
        BY <4>1, <4>2, ClaimsAre
    <3> QED
      BY <3>4, <3>5
  <2>5. CASE k <= p
    <3>1. k \in 1 .. p /\ At(k) = Offered(a, a.modules[k]) /\ k \in DOMAIN a.modules
      BY <1>1, <2>5
    <3>2. \A i \in DOMAIN a.secondary : n \notin DOMAIN Public(a.secondary[i].deps)
      <4> SUFFICES ASSUME NEW i \in 1 .. s, n \in DOMAIN Public(a.secondary[i].deps)
                   PROVE  FALSE
        BY <1>1
      <4>1. p + i <= k
        BY <2>2
      <4> QED
        BY <1>1, <3>1, <4>1
    <3>3. \A other \in Claims(a, n) :
             \E i \in 1 .. k :
                \/ n \in DOMAIN a.modules[i].deps /\ other = <<1, i, 1, a.modules[i].deps[n]>>
                \/ \E j \in FiledAs(a, a.modules[i], n) :
                      other = <<1, i, 1 + j, a.modules[i].controllers[j].resolver>>
      <4> SUFFICES ASSUME NEW other \in Claims(a, n)
                   PROVE  \E i \in 1 .. k :
                \/ n \in DOMAIN a.modules[i].deps /\ other = <<1, i, 1, a.modules[i].deps[n]>>
                \/ \E j \in FiledAs(a, a.modules[i], n) :
                      other = <<1, i, 1 + j, a.modules[i].controllers[j].resolver>>
        OBVIOUS
      <4>1. PICK i \in DOMAIN a.modules :
                \/ n \in DOMAIN a.modules[i].deps /\ other = <<1, i, 1, a.modules[i].deps[n]>>
                \/ \E j \in FiledAs(a, a.modules[i], n) :
                      other = <<1, i, 1 + j, a.modules[i].controllers[j].resolver>>
        BY <3>2, ClaimsAre
      <4>2. i <= k
        BY <1>1, <2>3, <4>1
      <4>3. i \in 1 .. k
        BY <1>1, <3>1, <4>1, <4>2
      <4> QED
        BY <4>1, <4>3
    <3>4. NamedOnce(a.modules[k].controllers)
             /\ DOMAIN a.modules[k].controllers \subseteq Nat \ {0}
      BY <1>4, <3>1
    <3>5. CASE FiledAs(a, a.modules[k], n) # {}
      <4>1. PICK j \in FiledAs(a, a.modules[k], n) : TRUE
        BY <3>5
      <4> DEFINE c == <<1, k, 1 + j, a.modules[k].controllers[j].resolver>>
      <4>2. c \in Claims(a, n)
        BY <3>1, <4>1, ClaimsAre
      <4>3. T[n] = c[4] /\ FiledAs(a, a.modules[k], n) = {j}
        BY <2>1, <3>1, <3>4, <4>1, OfferedIs
      <4>4. j \in Nat /\ j > 0
        BY <3>4, <4>1 DEF FiledAs
      <4>5. ASSUME NEW other \in Claims(a, n) \ {c}
            PROVE  Later(c, other)
        <5>1. PICK i \in 1 .. k :
                \/ n \in DOMAIN a.modules[i].deps /\ other = <<1, i, 1, a.modules[i].deps[n]>>
                \/ \E m \in FiledAs(a, a.modules[i], n) :
                      other = <<1, i, 1 + m, a.modules[i].controllers[m].resolver>>
          BY <3>3
        <5>2. CASE i # k
          <6>1. k > i /\ other[1] = 1 /\ other[2] = i
            BY <3>1, <5>1, <5>2
          <6> QED
            BY <6>1 DEF Later
        <5>3. CASE i = k
          <6>1. other = <<1, k, 1, a.modules[k].deps[n]>>
            BY <4>3, <5>1, <5>3
          <6>2. 1 + j > 1
            BY <4>4
          <6> QED
            BY <6>1, <6>2 DEF Later
        <5> QED
          BY <5>2, <5>3
      <4> QED
        BY <4>2, <4>3, <4>5
    <3>6. CASE FiledAs(a, a.modules[k], n) = {}
      <4> DEFINE c == <<1, k, 1, a.modules[k].deps[n]>>
      <4>1. n \in DOMAIN a.modules[k].deps
        BY <2>1, <3>1, <3>4, <3>6, OfferedIs
      <4>2. c \in Claims(a, n)
        BY <3>1, <4>1, ClaimsAre
      <4>3. T[n] = c[4]
        BY <2>1, <3>1, <3>4, <3>6, <4>1, OfferedIs
      <4>4. ASSUME NEW other \in Claims(a, n) \ {c}
            PROVE  Later(c, other)
        <5>1. PICK i \in 1 .. k :
                \/ n \in DOMAIN a.modules[i].deps /\ other = <<1, i, 1, a.modules[i].deps[n]>>
                \/ \E m \in FiledAs(a, a.modules[i], n) :
                      other = <<1, i, 1 + m, a.modules[i].controllers[m].resolver>>
          BY <3>3
        <5>2. i # k
          BY <3>6, <5>1
        <5>3. k > i /\ other[1] = 1 /\ other[2] = i
          BY <3>1, <5>1, <5>2
        <5> QED
          BY <5>3 DEF Later
      <4> QED
        BY <4>2, <4>3, <4>4
    <3> QED
      BY <3>5, <3>6
  <2> QED
    BY <1>1, <2>4, <2>5
<1> HIDE DEF Wins
<1>8. n \in DOMAIN T <=> Claims(a, n) # {}
    BY <1>6, <1>7 DEF Wins
<1> QED
    BY <1>7, <1>8 DEF Wins, T

-----------------------------------------------------------------------------
(* Overrides.                                                              *)

(* The overrides that are applied to a name.                               *)
Overriding(a, target, n) == {i \in Applied(a, target) : a.overrides[i].name = n}

Overridden(r, lifetime) == [r EXCEPT !.lifetime = lifetime]

(* An override gives a name all but the lifetime; without one the name     *)
(* keeps what was registered.                                              *)
LEMMA OverrideIs ==
    ASSUME NEW a \in Apps, NEW target, NEW n \in DOMAIN target
    PROVE  /\ DOMAIN Override(a, target) = DOMAIN target
           /\ Overriding(a, target, n) = {} => Override(a, target)[n] = target[n]
           /\ \A i \in Overriding(a, target, n) :
                 Override(a, target)[n] = Overridden(a.overrides[i].resolver, target[n].lifetime)
<1> DEFINE One(m) == IF \E i \in Applied(a, target) : a.overrides[i].name = m
                       THEN LET i == CHOOSE i \in Applied(a, target) : a.overrides[i].name = m
                            IN  [a.overrides[i].resolver EXCEPT !.lifetime = target[m].lifetime]
                       ELSE target[m]
<1>1. Override(a, target) = [m \in DOMAIN target |-> One(m)]
    BY DEF Override
<1>2. Override(a, target)[n] = One(n) /\ DOMAIN Override(a, target) = DOMAIN target
  <2> HIDE DEF One
  <2> QED
    BY <1>1
<1>3. CASE Overriding(a, target, n) = {}
    BY <1>2, <1>3 DEF Overriding
<1>4. ASSUME NEW i \in Overriding(a, target, n)
      PROVE  One(n) = Overridden(a.overrides[i].resolver, target[n].lifetime)
  <2>1. NamedOnce(a.overrides)
    BY AppsAssumption
  <2> DEFINE k == CHOOSE k \in Applied(a, target) : a.overrides[k].name = n
  <2>2. k \in Applied(a, target) /\ a.overrides[k].name = n
    BY DEF Overriding
  <2>3. k = i
    BY <2>1, <2>2 DEF NamedOnce, Overriding, Applied
  <2> HIDE DEF k
  <2>4. One(n) = Overridden(a.overrides[k].resolver, target[n].lifetime)
    BY DEF k, Overriding, Overridden
  <2> QED
    BY <2>3, <2>4
<1> HIDE DEF One
<1> QED
    BY <1>2, <1>3, <1>4

(* What the container of an application is when it is registered.          *)
Registered(a) == Override(a, TargetDiConfig(a))

(* A name has the class of an override, or else that of the owner, and the *)
(* lifetime of the owner.                                                  *)
Belongs(a, registered, n) ==
    LET overriding == {i \in DOMAIN a.overrides :
                         /\ a.overrides[i].name = n
                         /\ \A j \in 1 .. i : Claims(a, a.overrides[j].name) # {}}
    IN  \E winner \in Claims(a, n) :
          /\ \A other \in Claims(a, n) \ {winner} : Later(winner, other)
          /\ registered[n].lifetime = winner[4].lifetime
          /\ \A i \in overriding : registered[n].of = a.overrides[i].resolver.of
          /\ overriding = {} => registered[n].of = winner[4].of

(* Every registered name belongs to its owner.                             *)
LEMMA RegisteredIs ==
    ASSUME NEW a \in Apps, NEW n \in DOMAIN Registered(a)
    PROVE  Belongs(a, Registered(a), n)
<1> DEFINE target == TargetDiConfig(a)
           overriding == {i \in DOMAIN a.overrides :
                            /\ a.overrides[i].name = n
                            /\ \A j \in 1 .. i : Claims(a, a.overrides[j].name) # {}}
<1> HIDE DEF target
<1>1. /\ n \in DOMAIN target /\ Registered(a) = Override(a, target)
  <2>1. DOMAIN Override(a, target) = DOMAIN target
    BY Zenon DEF Override
  <2> QED
    BY <2>1 DEF Registered, target
<1>2. PICK winner \in Claims(a, n) :
          /\ target[n] = winner[4]
          /\ \A other \in Claims(a, n) \ {winner} : Later(winner, other)
    BY <1>1, TargetIs DEF target
<1>3. overriding = Overriding(a, target, n)
    BY TargetIs DEF Overriding, Applied, target
<1> HIDE DEF overriding
<1>7. /\ Overriding(a, target, n) = {} => Override(a, target)[n] = target[n]
      /\ \A i \in Overriding(a, target, n) :
            Override(a, target)[n] = Overridden(a.overrides[i].resolver, target[n].lifetime)
    BY <1>1, OverrideIs
<1>4. ASSUME NEW i \in overriding
      PROVE  /\ Registered(a)[n].of = a.overrides[i].resolver.of
             /\ Registered(a)[n].lifetime = target[n].lifetime
  <2>1. Registered(a)[n] = Overridden(a.overrides[i].resolver, target[n].lifetime)
    BY <1>1, <1>3, <1>7
  <2>2. IsResolver(a.overrides[i].resolver)
    BY <1>3, AppsAssumption DEF Overriding, Applied
  <2>3. {"of", "lifetime"} \subseteq DOMAIN a.overrides[i].resolver
    BY <2>2 DEF IsResolver
  <2> QED
    BY <2>1, <2>3 DEF Overridden
<1>5. overriding = {} => Registered(a)[n] = target[n]
    BY <1>1, <1>3, <1>7
<1>6. Registered(a)[n].lifetime = winner[4].lifetime
    BY <1>2, <1>4, <1>5
<1> QED
    BY <1>2, <1>4, <1>5, <1>6 DEF overriding, Belongs

-----------------------------------------------------------------------------
(* Registration happens once.                                              *)

(* Before it there is nothing; after it, what the application declares.    *)
RegistrationInvariant ==
    /\ app \in Apps
    /\ phase = "new" => /\ container = Nothing /\ sse = << >> /\ dual = << >> /\ api = << >>
                        /\ todo = {} /\ up = {} /\ sessions = {} /\ requests = {}
    /\ phase # "new" => /\ container = Registered(app)
                        /\ rest = RegisterControllers(app, "rest")
                        /\ sse = Names(RegisterControllers(app, "sse"))
                        /\ dual = Names(RegisterControllers(app, "dual"))
                        /\ api = Names(RegisterControllers(app, "api"))

(* Nothing but registerDependencies touches the container.                 *)
LEMMA RegisteredOnce ==
    ASSUME NextApplication, ~RegisterDependencies
    PROVE  /\ UNCHANGED <<app, context>>
           /\ phase' = "new" => phase = "new"
           /\ phase = "new" /\ requests = {} /\ sessions = {} => UNCHANGED vars
<1>1. CASE Lifecycle
  <2>1. CASE RegisterRoutes \/ RegisterSSERoutes \/ RegisterDualModeRoutes
    <3>1. PICK kind, routes : AddRoutes(kind, routes)
      BY <2>1 DEF RegisterRoutes, RegisterSSERoutes, RegisterDualModeRoutes
    <3> QED
      BY <3>1 DEF AddRoutes
  <2>2. CASE BeginInit \/ InitDone \/ Destroy \/ DestroyDone
    BY <2>2 DEF BeginInit, InitDone, Destroy, DestroyDone
  <2>3. CASE \E n \in DOMAIN container :
               \/ Start(n) \/ StartFails(n) \/ Dispose(n) \/ DisposeFails(n)
               \/ Request(n) \/ OpenSession(n) \/ CloseSession(n)
    BY <2>3 DEF Start, StartFails, Dispose, DisposeFails, Request, OpenSession, CloseSession
  <2> QED
    BY <1>1, <2>1, <2>2, <2>3 DEF Lifecycle
<1>2. CASE \E d \in app.gatewayDefaults : BuildGatewayManifest(d)
    BY <1>2 DEF BuildGatewayManifest, vars
<1>3. CASE \E g \in Gateways : RenderConfig(g)
    BY <1>3 DEF RenderConfig, vars
<1> QED
    BY <1>1, <1>2, <1>3 DEF NextApplication

(* Registration happens in one step, which is the first.                   *)
LEMMA RegistrationStep ==
    ASSUME RegistrationInvariant, [NextApplication]_allVars
    PROVE  RegistrationInvariant'
<1>1. CASE RegisterDependencies
  <2>1. /\ app' = app
        /\ phase' # "new"
        /\ container' = Registered(app)
        /\ rest' = RegisterControllers(app, "rest")
        /\ sse' = Names(RegisterControllers(app, "sse"))
        /\ dual' = Names(RegisterControllers(app, "dual"))
        /\ api' = Names(RegisterControllers(app, "api"))
    BY <1>1 DEF RegisterDependencies, Registered
  <2>2. app' \in Apps
    BY <2>1 DEF RegistrationInvariant
  <2>3. /\ container' = Registered(app')
        /\ rest' = RegisterControllers(app', "rest")
        /\ sse' = Names(RegisterControllers(app', "sse"))
        /\ dual' = Names(RegisterControllers(app', "dual"))
        /\ api' = Names(RegisterControllers(app', "api"))
    BY <2>1
  <2> QED
    BY <2>1, <2>2, <2>3 DEF RegistrationInvariant
<1>2. CASE NextApplication /\ ~RegisterDependencies
  <2>1. /\ UNCHANGED <<app, context>>
        /\ phase' = "new" => phase = "new"
        /\ phase = "new" /\ requests = {} /\ sessions = {} => UNCHANGED vars
    BY <1>2, RegisteredOnce
  <2>2. CASE phase = "new"
    <3>1. UNCHANGED vars
      BY <2>1, <2>2 DEF RegistrationInvariant
    <3> QED
      BY <2>2, <3>1 DEF RegistrationInvariant, vars, context, running
  <2>3. CASE phase # "new"
    BY <2>1, <2>3 DEF RegistrationInvariant, context
  <2> QED
    BY <2>2, <2>3
<1>3. CASE UNCHANGED allVars
  BY <1>3 DEF RegistrationInvariant, allVars, vars, context, running
<1> QED
  BY <1>1, <1>2, <1>3

(* At first there is nothing.                                              *)
LEMMA RegistrationStart == InitApplication => RegistrationInvariant
BY DEF InitApplication, Init, RegistrationInvariant

(* A name belongs to the last declaration that has a right to it, and to   *)
(* an override: DIContext.registerDependencies.                            *)
THEOREM NamesAlwaysBelong == Spec => []NamesBelongToTheirOwners
<1>1. RegistrationInvariant => NamesBelongToTheirOwners
  <2> SUFFICES ASSUME RegistrationInvariant, phase # "new"
               PROVE  NamesBelongToTheirOwners
    BY DEF NamesBelongToTheirOwners
  <2>1. app \in Apps /\ container = Registered(app)
    BY DEF RegistrationInvariant
  <2>2. ASSUME NEW n \in DOMAIN container
        PROVE  Belongs(app, container, n)
    BY <2>1, <2>2, RegisteredIs
  <2> QED
    BY <2>2 DEF NamesBelongToTheirOwners, Belongs
<1> QED
  BY <1>1, RegistrationStart, RegistrationStep, PTL DEF Spec

-----------------------------------------------------------------------------
(* What the container is made of.                                          *)

(* What an application declares: its controllers, the dependencies of all  *)
(* its modules, and its overrides.                                         *)
LEMMA Declared ==
    ASSUME NEW a
    PROVE  /\ \A i \in DOMAIN a.modules :
                 ToSet(a.modules[i].controllers) \subseteq Declarations(a)
           /\ \A module \in ToSet(a.modules) \cup ToSet(a.secondary) :
                 \A n \in DOMAIN module.deps :
                    [name |-> n, resolver |-> module.deps[n]] \in Declarations(a)
           /\ \A i \in DOMAIN a.overrides : a.overrides[i] \in Declarations(a)
<1>1. \A i \in DOMAIN a.modules : a.modules[i] \in ToSet(a.modules)
  BY DEF ToSet
<1>2. \A i \in DOMAIN a.overrides : a.overrides[i] \in ToSet(a.overrides)
  BY DEF ToSet
<1>3. \A module : \A n \in DOMAIN module.deps :
          [name |-> n, resolver |-> module.deps[n]] \in DepsOf(module)
  BY DEF DepsOf
<1> DEFINE controllers == UNION {ToSet(module.controllers) : module \in ToSet(a.modules)}
           deps == UNION {DepsOf(module) : module \in ToSet(a.modules) \cup ToSet(a.secondary)}
<1>4. \A module \in ToSet(a.modules) : ToSet(module.controllers) \subseteq controllers
  OBVIOUS
<1>5. \A module \in ToSet(a.modules) \cup ToSet(a.secondary) : DepsOf(module) \subseteq deps
  OBVIOUS
<1>6. Declarations(a) = controllers \cup deps \cup ToSet(a.overrides)
  BY DEF Declarations
<1> HIDE DEF controllers, deps
<1> QED
  BY <1>1, <1>2, <1>3, <1>4, <1>5, <1>6

(* Apart from the lifetime, what is registered under a name is one of the  *)
(* declarations of that name.                                              *)
LEMMA RegisteredFrom ==
    ASSUME NEW a \in Apps, NEW n \in DOMAIN Registered(a)
    PROVE  \E d \in Declarations(a) :
              LET r == Registered(a)[n]
              IN  /\ d.name = n
                  /\ r.of = d.resolver.of
                  /\ r.by = d.resolver.by /\ r.enabled = d.resolver.enabled
                  /\ r.asyncInit = d.resolver.asyncInit
                  /\ r.eagerInject = d.resolver.eagerInject
                  /\ r.asyncDispose = d.resolver.asyncDispose
                  /\ r.asyncDisposePriority = d.resolver.asyncDisposePriority
<1> DEFINE target == TargetDiConfig(a)
<1> HIDE DEF target
<1>1. /\ n \in DOMAIN target /\ Registered(a) = Override(a, target)
  <2>1. DOMAIN Override(a, target) = DOMAIN target
    BY Zenon DEF Override
  <2> QED
    BY <2>1 DEF Registered, target
<1>2. /\ Overriding(a, target, n) = {} => Registered(a)[n] = target[n]
      /\ \A i \in Overriding(a, target, n) :
            Registered(a)[n] = Overridden(a.overrides[i].resolver, target[n].lifetime)
    BY <1>1, OverrideIs
<1>3. ASSUME NEW i \in Overriding(a, target, n)
      PROVE  \E d \in Declarations(a) :
              LET r == Registered(a)[n]
              IN  /\ d.name = n
                  /\ r.of = d.resolver.of
                  /\ r.by = d.resolver.by /\ r.enabled = d.resolver.enabled
                  /\ r.asyncInit = d.resolver.asyncInit
                  /\ r.eagerInject = d.resolver.eagerInject
                  /\ r.asyncDispose = d.resolver.asyncDispose
                  /\ r.asyncDisposePriority = d.resolver.asyncDisposePriority
  <2> DEFINE d == a.overrides[i]
  <2>1. i \in DOMAIN a.overrides /\ d.name = n
    BY DEF Overriding, Applied
  <2>2. d \in Declarations(a)
    BY <2>1, Declared
  <2>3. IsResolver(d.resolver)
    BY <2>1, AppsAssumption
  <2>4. {"of", "by", "enabled", "asyncInit", "asyncDispose", "asyncDisposePriority",
         "eagerInject"} \subseteq DOMAIN d.resolver
    BY <2>3 DEF IsResolver
  <2>5. Registered(a)[n] = Overridden(d.resolver, target[n].lifetime)
    BY <1>2
  <2> HIDE DEF d
  <2> QED
    BY <2>1, <2>2, <2>4, <2>5 DEF Overridden
<1>4. ASSUME Overriding(a, target, n) = {}
      PROVE  \E d \in Declarations(a) : d.name = n /\ Registered(a)[n] = d.resolver
  <2>1. PICK winner \in Claims(a, n) : target[n] = winner[4]
    BY <1>1, TargetIs DEF target
  <2>2. Registered(a)[n] = winner[4]
    BY <1>2, <1>4, <2>1
  <2>3. CASE \E i \in DOMAIN a.secondary :
                /\ n \in DOMAIN Public(a.secondary[i].deps)
                /\ winner = <<2, i, 1, a.secondary[i].deps[n]>>
    <3>1. PICK i \in DOMAIN a.secondary :
                /\ n \in DOMAIN Public(a.secondary[i].deps)
                /\ winner = <<2, i, 1, a.secondary[i].deps[n]>>
      BY <2>3
    <3> DEFINE d == [name |-> n, resolver |-> a.secondary[i].deps[n]]
    <3>2. n \in DOMAIN a.secondary[i].deps /\ a.secondary[i] \in ToSet(a.secondary)
      BY <3>1 DEF Public, Restrict, ToSet
    <3>3. d \in Declarations(a)
      BY <3>2, Declared
    <3>4. d.name = n /\ d.resolver = winner[4]
      BY <3>1
    <3> QED
      BY <2>2, <3>3, <3>4
  <2>4. CASE \E i \in DOMAIN a.modules :
                n \in DOMAIN a.modules[i].deps /\ winner = <<1, i, 1, a.modules[i].deps[n]>>
    <3>1. PICK i \in DOMAIN a.modules :
                n \in DOMAIN a.modules[i].deps /\ winner = <<1, i, 1, a.modules[i].deps[n]>>
      BY <2>4
    <3> DEFINE d == [name |-> n, resolver |-> a.modules[i].deps[n]]
    <3>2. a.modules[i] \in ToSet(a.modules)
      BY <3>1 DEF ToSet
    <3>3. d \in Declarations(a)
      BY <3>1, <3>2, Declared
    <3>4. d.name = n /\ d.resolver = winner[4]
      BY <3>1
    <3> QED
      BY <2>2, <3>3, <3>4
  <2>5. CASE \E i \in DOMAIN a.modules : \E j \in FiledAs(a, a.modules[i], n) :
                winner = <<1, i, 1 + j, a.modules[i].controllers[j].resolver>>
    <3>5. PICK i \in DOMAIN a.modules : \E j \in FiledAs(a, a.modules[i], n) :
                winner = <<1, i, 1 + j, a.modules[i].controllers[j].resolver>>
      BY <2>5
    <3>1. PICK j \in FiledAs(a, a.modules[i], n) :
                winner = <<1, i, 1 + j, a.modules[i].controllers[j].resolver>>
      BY <3>5
    <3> DEFINE d == a.modules[i].controllers[j]
    <3>2. d.name = n /\ d \in ToSet(a.modules[i].controllers)
      BY <3>1 DEF FiledAs, ToSet
    <3>3. d \in Declarations(a)
      BY <3>1, <3>2, Declared
    <3> QED
      BY <2>2, <3>1, <3>2, <3>3
  <2> QED
    BY <2>3, <2>4, <2>5, ClaimsAre
<1> QED
  BY <1>3, <1>4

(* The names filed under a kind are those of controllers of primary        *)
(* modules, and they are registered when they are resolved.                *)
LEMMA FiledNames ==
    ASSUME NEW a \in Apps, NEW kind \in Resolved,
           NEW n \in ToSet(Names(RegisterControllers(a, kind)))
    PROVE  /\ \E c \in Kind(a, kind) : c.name = n
           /\ n \in DOMAIN Registered(a)
<1> DEFINE pairs == RegisterControllers(a, kind)
<1>1. pairs \in Seq(Kind(a, kind)) /\ (~a.resolveControllers => pairs = << >>)
  BY ControllersAre
<1> HIDE DEF pairs
<1>2. PICK i \in DOMAIN pairs : n = pairs[i].name
  BY DEF ToSet, Names, pairs
<1>3. pairs[i] \in Kind(a, kind)
  BY <1>1, <1>2
<1>4. a.resolveControllers
  BY <1>1, <1>2
<1>5. PICK m \in DOMAIN a.modules : pairs[i] \in ToSet(a.modules[m].controllers)
  BY <1>3 DEF Kind, ControllersIn
<1>6. PICK j \in DOMAIN a.modules[m].controllers : pairs[i] = a.modules[m].controllers[j]
  BY <1>5 DEF ToSet
<1>7. j \in FiledAs(a, a.modules[m], n)
  BY <1>2, <1>3, <1>4, <1>6 DEF FiledAs, Kind
<1>8. Claims(a, n) # {}
  <2> DEFINE c == <<1, m, 1 + j, a.modules[m].controllers[j].resolver>>
  <2>1. \E x \in DOMAIN a.modules : \E y \in FiledAs(a, a.modules[x], n) :
            c = <<1, x, 1 + y, a.modules[x].controllers[y].resolver>>
    BY <1>5, <1>7
  <2> HIDE DEF c
  <2>2. c \in Claims(a, n)
    BY <2>1, ClaimsAre
  <2> QED
    BY <2>2
<1>9. n \in DOMAIN TargetDiConfig(a)
  BY <1>8, TargetIs
<1>10. DOMAIN Registered(a) = DOMAIN TargetDiConfig(a)
  BY Zenon DEF Override, Registered
<1> QED
  BY <1>2, <1>3, <1>9, <1>10

-----------------------------------------------------------------------------
(* Types.                                                                  *)

(* The names that routes are registered for are in the container.          *)
LEMMA FiledInContainer ==
    RegistrationInvariant => ToSet(sse) \cup ToSet(dual) \cup ToSet(api) \subseteq DOMAIN container
<1> SUFFICES ASSUME RegistrationInvariant
             PROVE  ToSet(sse) \cup ToSet(dual) \cup ToSet(api) \subseteq DOMAIN container
  OBVIOUS
<1>1. CASE phase = "new"
  BY <1>1 DEF RegistrationInvariant, ToSet
<1>2. CASE phase # "new"
  <2>1. /\ app \in Apps /\ container = Registered(app)
        /\ sse = Names(RegisterControllers(app, "sse"))
        /\ dual = Names(RegisterControllers(app, "dual"))
        /\ api = Names(RegisterControllers(app, "api"))
    BY <1>2 DEF RegistrationInvariant
  <2>2. \A kind \in Resolved :
            ToSet(Names(RegisterControllers(app, kind))) \subseteq DOMAIN Registered(app)
    BY <2>1, FiledNames
  <2>3. {"sse", "dual", "api"} \subseteq Resolved
    BY DEF Resolved
  <2> QED
    BY <2>1, <2>2, <2>3
<1> QED
  BY <1>1, <1>2

(* Every step but the first leaves the container alone and keeps the types.*)
LEMMA TypesKept ==
    ASSUME RegistrationInvariant, TypeOK, [NextApplication]_allVars
    PROVE  TypeOK'
<1> USE MaxFailuresAssumption
<1>1. RegistrationInvariant'
  BY RegistrationStep
<1>2. (ToSet(sse) \cup ToSet(dual) \cup ToSet(api) \subseteq DOMAIN container)'
  BY <1>1, FiledInContainer, PTL
<1>3. CASE RegisterDependencies
  <2>1. todo' = {} /\ up' = {} /\ sessions' = {} /\ requests' = {} /\ failures' = failures
    BY <1>3 DEF RegisterDependencies, RegistrationInvariant, running
  <2>2. phase' \in {"registered", "halted"}
    BY <1>3 DEF RegisterDependencies
  <2> QED
    BY <1>2, <2>1, <2>2 DEF TypeOK
<1>4. CASE NextApplication /\ ~RegisterDependencies
  <2>1. UNCHANGED <<app, context>>
    BY <1>4, RegisteredOnce
  <2> DEFINE Rest == /\ phase \in {"new", "registered", "starting", "running", "halted",
                                   "destroying", "destroyed"}
                     /\ todo \cup up \cup sessions \cup requests \subseteq DOMAIN container
                     /\ phase \notin {"starting", "destroying"} => todo = {}
                     /\ failures \in 0..MaxFailures
  <2>2. Rest /\ container' = container
    BY <2>1 DEF TypeOK, context
  <2> SUFFICES Rest'
    BY <1>2 DEF TypeOK
  <2>3. CASE RegisterRoutes \/ RegisterSSERoutes \/ RegisterDualModeRoutes
    <3>1. PICK kind, routes : AddRoutes(kind, routes)
      BY <2>3 DEF RegisterRoutes, RegisterSSERoutes, RegisterDualModeRoutes
    <3>2. /\ phase = "registered" /\ phase' \in {"registered", "halted"}
          /\ UNCHANGED <<todo, up, sessions, requests, failures>>
      BY <3>1 DEF AddRoutes, running
    <3> QED
      BY <2>2, <3>2
  <2>4. CASE BeginInit
    BY <2>2, <2>4 DEF BeginInit, Enabled
  <2>5. CASE InitDone \/ DestroyDone
    BY <2>2, <2>5 DEF InitDone, DestroyDone, running
  <2>6. CASE Destroy
    BY <2>2, <2>6 DEF Destroy, Enabled
  <2>7. ASSUME NEW n \in DOMAIN container, Start(n) \/ Dispose(n)
        PROVE  Rest'
    BY <2>2, <2>7 DEF Start, Dispose
  <2>8. ASSUME NEW n \in DOMAIN container, StartFails(n) \/ DisposeFails(n)
        PROVE  Rest'
    BY <2>2, <2>8 DEF StartFails, DisposeFails
  <2>9. ASSUME NEW n \in DOMAIN container, Request(n) \/ OpenSession(n) \/ CloseSession(n)
        PROVE  Rest'
    BY <2>2, <2>9 DEF Request, OpenSession, CloseSession
  <2>10. CASE UNCHANGED vars
    BY <2>2, <2>10 DEF vars, running
  <2>11. ASSUME (\E d \in app.gatewayDefaults : BuildGatewayManifest(d))
                   \/ \E g \in Gateways : RenderConfig(g)
         PROVE  UNCHANGED vars
    BY <2>11 DEF BuildGatewayManifest, RenderConfig
  <2> HIDE DEF Rest
  <2> QED
    BY <1>4, <2>3, <2>4, <2>5, <2>6, <2>7, <2>8, <2>9, <2>10, <2>11
       DEF NextApplication, Lifecycle
<1>5. CASE UNCHANGED allVars
  BY <1>5 DEF TypeOK, allVars, vars, context, running
<1> QED
  BY <1>3, <1>4, <1>5

(* The registrations, the phases and what is started, disposed of or open  *)
(* have their types, for any applications.                                 *)
THEOREM ApplicationTypeCorrect == Spec => []TypeOK
<1>1. InitApplication => TypeOK
  BY MaxFailuresAssumption DEF InitApplication, Init, TypeOK, Nothing, ToSet
<1> QED
  BY <1>1, RegistrationStart, RegistrationStep, TypesKept, PTL DEF Spec

-----------------------------------------------------------------------------
(* Start and shutdown, of applications whose resolvers are left as they    *)
(* were made.                                                              *)

Streamers == ToSet(sse) \cup ToSet(dual)

\* what Orderly makes of the container
InOrder ==
    /\ \A n \in DOMAIN container : InItsPlace(container[n])
    /\ \A n \in Streamers : /\ n \in DOMAIN container /\ container[n].enabled
                            /\ container[n].asyncDispose = "closeAllConnections"

(* The container has what was declared.                                    *)
LEMMA OrderlyContainer ==
    ASSUME RegistrationInvariant, \A a \in Apps : Orderly(a)
    PROVE  InOrder
<1>1. CASE phase = "new"
  BY <1>1 DEF RegistrationInvariant, InOrder, Streamers, Nothing, ToSet
<1>2. CASE phase # "new"
  <2>1. /\ app \in Apps /\ container = Registered(app)
        /\ sse = Names(RegisterControllers(app, "sse"))
        /\ dual = Names(RegisterControllers(app, "dual"))
    BY <1>2 DEF RegistrationInvariant
  <2>2. ASSUME NEW n \in DOMAIN container
        PROVE  InItsPlace(container[n])
    <3>1. PICK d \in Declarations(app) :
              /\ d.name = n
              /\ container[n].by = d.resolver.by /\ container[n].enabled = d.resolver.enabled
              /\ container[n].asyncInit = d.resolver.asyncInit
              /\ container[n].eagerInject = d.resolver.eagerInject
              /\ container[n].asyncDispose = d.resolver.asyncDispose
              /\ container[n].asyncDisposePriority = d.resolver.asyncDisposePriority
      BY <2>1, RegisteredFrom
    <3>2. InItsPlace(d.resolver)
      BY <2>1 DEF Orderly
    <3> QED
      BY <3>1, <3>2 DEF InItsPlace
  <2>3. ASSUME NEW n \in Streamers
        PROVE  /\ n \in DOMAIN container /\ container[n].enabled
               /\ container[n].asyncDispose = "closeAllConnections"
    <3>1. PICK kind \in {"sse", "dual"} : n \in ToSet(Names(RegisterControllers(app, kind)))
      BY <2>1 DEF Streamers
    <3>2. kind \in Resolved
      BY DEF Resolved
    <3>3. /\ n \in DOMAIN container
          /\ \E c \in Kind(app, kind) : c.name = n
      BY <2>1, <3>1, <3>2, FiledNames
    <3>4. PICK c \in Kind(app, kind) : c.name = n
      BY <3>3
    <3>5. c \in Declarations(app) /\ c.resolver.controller \in {"sse", "dual"}
      BY Declared DEF Kind, ControllersIn
    <3>6. PICK d \in Declarations(app) :
              /\ d.name = n /\ container[n].enabled = d.resolver.enabled
              /\ container[n].asyncDispose = d.resolver.asyncDispose
      BY <2>1, <3>3, RegisteredFrom
    <3>7. d.resolver.enabled /\ d.resolver.asyncDispose = "closeAllConnections"
      BY <2>1, <3>4, <3>5, <3>6 DEF Orderly
    <3> QED
      BY <3>3, <3>6, <3>7
  <2> QED
    BY <2>2, <2>3 DEF InOrder
<1> QED
  BY <1>1, <1>2

(* Whatever is up will be disposed of, and so will every open session; in  *)
(* between, only what is still to be disposed of may be up or open.        *)
LifecycleInvariant ==
    /\ phase \in {"new", "registered"} => up = {} /\ sessions = {} /\ requests = {}
    /\ up \subseteq Enabled("asyncDispose", "none")
    /\ sessions \cup requests \subseteq Streamers /\ sessions \cap requests = {}
    /\ phase = "starting" => todo \subseteq Enabled("asyncInit", "none")
    /\ phase = "destroying" =>
         /\ todo \subseteq Enabled("asyncDispose", "none") /\ up \subseteq todo
         /\ atShutdown \cap sessions \subseteq todo /\ atShutdown \cap requests = {}
    /\ phase = "destroyed" => up = {} /\ atShutdown \cap (sessions \cup requests) = {}

(* Every step of the lifecycle keeps it.                                   *)
LEMMA LifecycleStep ==
    ASSUME RegistrationInvariant, InOrder, LifecycleInvariant, [NextApplication]_allVars
    PROVE  LifecycleInvariant'
<1>1. CASE RegisterDependencies
  <2>1. /\ up' = {} /\ sessions' = {} /\ requests' = {} /\ phase' \in {"registered", "halted"}
    BY <1>1 DEF RegisterDependencies, RegistrationInvariant, running
  <2> QED
    BY <2>1 DEF LifecycleInvariant
<1>2. CASE NextApplication /\ ~RegisterDependencies
  <2> DEFINE D == Enabled("asyncDispose", "none")
             I == Enabled("asyncInit", "none")
             E == Enabled("eagerInject", FALSE)
             S == Streamers
             Inv == /\ phase \in {"new", "registered"} => up = {} /\ sessions = {} /\ requests = {}
                    /\ up \subseteq D
                    /\ sessions \cup requests \subseteq S /\ sessions \cap requests = {}
                    /\ phase = "starting" => todo \subseteq I
                    /\ phase = "destroying" =>
                         /\ todo \subseteq D /\ up \subseteq todo
                         /\ atShutdown \cap sessions \subseteq todo /\ atShutdown \cap requests = {}
                    /\ phase = "destroyed" => up = {} /\ atShutdown \cap (sessions \cup requests) = {}
  <2>1. UNCHANGED <<app, context>>
    BY <1>2, RegisteredOnce
  <2>2. D' = D /\ I' = I /\ S' = S /\ container' = container
    BY <2>1 DEF Enabled, Streamers, context
  <2>3. I \subseteq D /\ E \subseteq D /\ S \subseteq D
    BY DEF Enabled, InOrder, InItsPlace
  <2>4. \A n \in S : container[n].asyncDispose = "closeAllConnections"
    BY DEF InOrder
  <2>5. ToSet(sse) \subseteq S /\ ToSet(dual) \subseteq S
    BY DEF Streamers
  <2>6. Inv
    BY DEF LifecycleInvariant
  <2> SUFFICES Inv'
    BY DEF LifecycleInvariant
  <2> HIDE DEF D, I, S
  <2>7. CASE RegisterRoutes \/ RegisterSSERoutes \/ RegisterDualModeRoutes
    <3>1. PICK kind, routes : AddRoutes(kind, routes)
      BY <2>7 DEF RegisterRoutes, RegisterSSERoutes, RegisterDualModeRoutes
    <3>2. /\ phase = "registered" /\ phase' \in {"registered", "halted"}
          /\ UNCHANGED <<todo, up, sessions, requests, atShutdown>>
      BY <3>1 DEF AddRoutes, running
    <3> QED
      BY <2>2, <2>6, <3>2
  <2>8. CASE BeginInit
    <3>1. phase' = "starting" /\ up' = E /\ todo' = I /\ UNCHANGED <<sessions, requests>>
      BY <2>8 DEF BeginInit, I
    <3> QED
      BY <2>2, <2>3, <2>6, <3>1
  <2>9. CASE InitDone
    BY <2>2, <2>6, <2>9 DEF InitDone, running
  <2>10. CASE DestroyDone
    BY <2>2, <2>6, <2>10 DEF DestroyDone, running
  <2>11. CASE Destroy
    <3>1. /\ phase' = "destroying" /\ todo' = D /\ atShutdown' = sessions
          /\ UNCHANGED <<up, sessions, requests>>
      BY <2>11 DEF Destroy, D
    <3> QED
      BY <2>2, <2>3, <2>6, <3>1
  <2>12. ASSUME NEW n \in DOMAIN container, Start(n)
         PROVE  Inv'
    <3>1. /\ phase = "starting" /\ n \in todo /\ todo' = todo \ {n} /\ up' = up \cup {n}
          /\ UNCHANGED <<phase, sessions, requests, atShutdown>>
      BY <2>12 DEF Start, Foremost
    <3> QED
      BY <2>2, <2>3, <2>6, <3>1
  <2>13. ASSUME NEW n \in DOMAIN container, StartFails(n) \/ DisposeFails(n)
         PROVE  Inv'
    BY <2>2, <2>6, <2>13 DEF StartFails, DisposeFails
  <2>14. ASSUME NEW n \in DOMAIN container, Dispose(n)
         PROVE  Inv'
    <3>1. /\ phase = "destroying" /\ todo' = todo \ {n} /\ up' = up \ {n}
          /\ UNCHANGED <<phase, requests, atShutdown>>
          /\ sessions' = IF container[n].asyncDispose = "closeAllConnections"
                           THEN sessions \ {n} ELSE sessions
      BY <2>14 DEF Dispose
    <3>2. sessions' = sessions \ {n}
      BY <2>4, <2>6, <3>1
    <3> QED
      BY <2>2, <2>6, <3>1, <3>2
  <2>15. ASSUME NEW n \in DOMAIN container, Request(n)
         PROVE  Inv'
    <3>1. /\ phase = "running" /\ n \in ToSet(sse) \cup ToSet(dual)
          /\ n \notin requests \cup sessions /\ requests' = requests \cup {n}
          /\ UNCHANGED <<phase, todo, up, sessions, atShutdown>>
      BY <2>15 DEF Request
    <3> QED
      BY <2>2, <2>5, <2>6, <3>1
  <2>16. ASSUME NEW n \in DOMAIN container, OpenSession(n) \/ CloseSession(n)
         PROVE  Inv'
    BY <2>2, <2>6, <2>16 DEF OpenSession, CloseSession
  <2>17. CASE UNCHANGED vars
    BY <2>2, <2>6, <2>17 DEF vars, running
  <2>18. ASSUME (\E d \in app.gatewayDefaults : BuildGatewayManifest(d))
                   \/ \E g \in Gateways : RenderConfig(g)
         PROVE  UNCHANGED vars
    BY <2>18 DEF BuildGatewayManifest, RenderConfig
  <2> HIDE DEF Inv
  <2> QED
    BY <1>2, <2>7, <2>8, <2>9, <2>10, <2>11, <2>12, <2>13, <2>14, <2>15, <2>16, <2>17, <2>18
       DEF NextApplication, Lifecycle
<1>3. CASE UNCHANGED allVars
  BY <1>3 DEF LifecycleInvariant, allVars, vars, context, running, Enabled, Streamers
<1> QED
  BY <1>1, <1>2, <1>3

(* At first nothing is up.                                                 *)
LEMMA LifecycleStart == InitApplication => LifecycleInvariant
BY DEF InitApplication, Init, LifecycleInvariant, Enabled, Streamers

(* When destroy() resolves, nothing that was started is left, however many *)
(* times it had failed before, and no session that was open when it began: *)
(* DIContext.destroy.                                                      *)
THEOREM NothingEverLeftRunning ==
    ASSUME \A a \in Apps : Orderly(a)
    PROVE  Spec => []NothingLeftRunning
<1>1. RegistrationInvariant => InOrder
  BY OrderlyContainer
<1>2. LifecycleInvariant => NothingLeftRunning
  BY DEF LifecycleInvariant, NothingLeftRunning
<1> QED
  BY <1>1, <1>2, RegistrationStart, RegistrationStep, LifecycleStart, LifecycleStep, PTL
     DEF Spec

(* Only dispose() takes down what is up, and what comes first in the order *)
(* is what has the lowest rank.                                            *)
LEMMA DisposalInOrder ==
    ASSUME RegistrationInvariant, InOrder, LifecycleInvariant, [NextApplication]_allVars,
           NEW n \in up \ up', Rank(n) < 9
    PROVE  /\ atShutdown \cap sessions' = {}
           /\ \A m \in up' : Rank(m) >= Rank(n)
<1>1. NextApplication /\ up' # up
  BY DEF allVars, vars, running
<1>2. Lifecycle
  BY <1>1 DEF NextApplication, BuildGatewayManifest, RenderConfig, vars, running
<1>3. Dispose(n)
  <2>1. ~(RegisterDependencies \/ InitDone \/ Destroy \/ DestroyDone)
    BY <1>1 DEF RegisterDependencies, InitDone, Destroy, DestroyDone, running
  <2>2. ~BeginInit
    BY DEF BeginInit, LifecycleInvariant
  <2>3. ~(RegisterRoutes \/ RegisterSSERoutes \/ RegisterDualModeRoutes)
    <3> SUFFICES ASSUME NEW kind, NEW routes, AddRoutes(kind, routes)
                 PROVE  FALSE
      BY DEF RegisterRoutes, RegisterSSERoutes, RegisterDualModeRoutes
    <3> QED
      BY <1>1 DEF AddRoutes, running
  <2>4. \A m : ~(StartFails(m) \/ DisposeFails(m) \/ Request(m) \/ OpenSession(m)
                   \/ CloseSession(m) \/ Start(m))
    BY <1>1 DEF StartFails, DisposeFails, Request, OpenSession, CloseSession, Start
  <2>5. PICK m \in DOMAIN container : Dispose(m)
    BY <1>2, <2>1, <2>2, <2>3, <2>4 DEF Lifecycle
  <2>6. m = n
    BY <2>5 DEF Dispose
  <2> QED
    BY <2>5, <2>6
<1> DEFINE Priority(m) == container[m].asyncDisposePriority
<1>4. /\ phase = "destroying" /\ up' = up \ {n}
      /\ n \in todo /\ \A m \in todo : Priority(n) <= Priority(m)
      /\ sessions' \subseteq sessions
  BY <1>3 DEF Dispose, Foremost
<1>5. /\ up \subseteq todo /\ todo \subseteq DOMAIN container
      /\ atShutdown \cap sessions \subseteq todo /\ sessions \subseteq Streamers
  BY <1>4 DEF LifecycleInvariant, Enabled
<1>6. \A m \in todo :
         /\ Rank(m) = 1 => Priority(m) = 10
         /\ Rank(m) = 2 => Priority(m) = 15
         /\ Rank(m) = 3 => Priority(m) = 20
         /\ Rank(m) \in {1, 2, 3, 9}
  <2> SUFFICES ASSUME NEW m \in todo
               PROVE  /\ Rank(m) = 1 => Priority(m) = 10
                      /\ Rank(m) = 2 => Priority(m) = 15
                      /\ Rank(m) = 3 => Priority(m) = 20
                      /\ Rank(m) \in {1, 2, 3, 9}
    OBVIOUS
  <2>1. InItsPlace(container[m])
    BY <1>5 DEF InOrder
  <2> DEFINE by == container[m].by
  <2>2. /\ by = "consumer" => Rank(m) = 1
        /\ by = "worker" => Rank(m) = 2
        /\ by \in {"queue", "manager"} => Rank(m) = 3
        /\ by \notin {"consumer", "worker", "queue", "manager"} => Rank(m) = 9
    BY DEF Rank
  <2>3. /\ by = "consumer" => Priority(m) = 10
        /\ by = "worker" => Priority(m) = 15
        /\ by \in {"queue", "manager"} => Priority(m) = 20
    BY <2>1 DEF InItsPlace
  <2> HIDE DEF by, Priority
  <2> QED
    BY <2>2, <2>3
<1>7. \A m \in todo : Rank(m) >= Rank(n)
  BY <1>4, <1>6
<1>8. \A m \in atShutdown \cap sessions : FALSE
  <2> SUFFICES ASSUME NEW m \in atShutdown \cap sessions
               PROVE  FALSE
    OBVIOUS
  <2>1. m \in todo /\ m \in Streamers
    BY <1>5
  <2>2. Priority(m) = 5
    BY <2>1 DEF InOrder, InItsPlace
  <2> QED
    BY <1>4, <1>6, <2>1, <2>2
<1> QED
  BY <1>4, <1>5, <1>7, <1>8

(* The sessions that were open when destroy() began are closed before the  *)
(* first consumer is disposed of, consumers before workers, and workers    *)
(* before queues: the disposal priorities of resolverFunctions.ts.         *)
THEOREM ShutdownAlwaysInOrder ==
    ASSUME \A a \in Apps : Orderly(a)
    PROVE  Spec => ShutdownInOrder
<1>1. RegistrationInvariant => InOrder
  BY OrderlyContainer
<1>2. RegistrationInvariant /\ InOrder /\ LifecycleInvariant /\ [NextApplication]_allVars =>
          [\A n \in up \ up' :
             Rank(n) < 9 => /\ atShutdown \cap sessions' = {}
                            /\ \A m \in up' : Rank(m) >= Rank(n)]_vars
  BY DisposalInOrder
<1> QED
  BY <1>1, <1>2, RegistrationStart, RegistrationStep, LifecycleStart, LifecycleStep, PTL
     DEF Spec, ShutdownInOrder

-----------------------------------------------------------------------------
(* The functions of lib/resolverFunctions.ts.                              *)

\* opts that leave alone what decides when a component is disposed of
Untouched(opts) ==
    DOMAIN opts \cap {"by", "asyncInit", "asyncDispose", "asyncDisposePriority",
                      "eagerInject"} = {}

(* Every function makes resolvers that are disposed of in their place, and *)
(* those of streaming controllers close their connections.                 *)
THEOREM ResolversInPlace ==
    ASSUME NEW Type, NEW opts, NEW name, NEW options, Untouched(opts)
    PROVE  /\ InItsPlace(AsSingletonClass(Type, opts))
           /\ InItsPlace(AsSingletonFunction(Type, opts))
           /\ InItsPlace(AsClassWithConfig(Type, opts))
           /\ InItsPlace(AsServiceClass(Type, opts))
           /\ InItsPlace(AsUseCaseClass(Type, opts))
           /\ InItsPlace(AsRepositoryClass(Type, opts))
           /\ InItsPlace(AsControllerClass(Type, opts))
           /\ InItsPlace(AsApiControllerClass(Type, opts))
           /\ InItsPlace(AsSSEControllerClass(Type, opts))
           /\ InItsPlace(AsDualModeControllerClass(Type, opts))
           /\ InItsPlace(AsMessageQueueHandlerClass(Type, name, options, opts))
           /\ InItsPlace(AsEnqueuedJobWorkerClass(Type, name, options, opts))
           /\ InItsPlace(AsPgBossProcessorClass(Type, name, options, opts))
           /\ InItsPlace(AsPeriodicJobClass(Type, name, options, opts))
           /\ InItsPlace(AsJobQueueClass(Type, name, options, opts))
           /\ InItsPlace(AsEnqueuedJobQueueManagerFunction(Type, options, opts))
           /\ AsSSEControllerClass(Type, opts).asyncDispose = "closeAllConnections"
           /\ AsDualModeControllerClass(Type, opts).asyncDispose = "closeAllConnections"
<1> USE DEF Untouched, InItsPlace, AsClass, Singleton, Streaming, ++
<1>1. InItsPlace(AsSingletonClass(Type, opts))
  BY DEF AsSingletonClass
<1>2. InItsPlace(AsSingletonFunction(Type, opts))
  BY DEF AsSingletonFunction
<1>3. InItsPlace(AsClassWithConfig(Type, opts))
  BY DEF AsClassWithConfig
<1>4. InItsPlace(AsServiceClass(Type, opts))
  BY DEF AsServiceClass
<1>5. InItsPlace(AsUseCaseClass(Type, opts))
  BY DEF AsUseCaseClass
<1>6. InItsPlace(AsRepositoryClass(Type, opts))
  BY DEF AsRepositoryClass
<1>7. InItsPlace(AsControllerClass(Type, opts))
  BY DEF AsControllerClass
<1>8. InItsPlace(AsApiControllerClass(Type, opts))
  BY DEF AsApiControllerClass
<1>9. InItsPlace(AsSSEControllerClass(Type, opts))
  BY DEF AsSSEControllerClass
<1>10. InItsPlace(AsDualModeControllerClass(Type, opts))
  BY DEF AsDualModeControllerClass
<1>11. InItsPlace(AsMessageQueueHandlerClass(Type, name, options, opts))
  BY DEF AsMessageQueueHandlerClass
<1>12. InItsPlace(AsEnqueuedJobWorkerClass(Type, name, options, opts))
  BY DEF AsEnqueuedJobWorkerClass
<1>13. InItsPlace(AsPgBossProcessorClass(Type, name, options, opts))
  BY DEF AsPgBossProcessorClass
<1>14. InItsPlace(AsPeriodicJobClass(Type, name, options, opts))
  BY DEF AsPeriodicJobClass
<1>15. InItsPlace(AsJobQueueClass(Type, name, options, opts))
  BY DEF AsJobQueueClass
<1>16. InItsPlace(AsEnqueuedJobQueueManagerFunction(Type, options, opts))
  BY DEF AsEnqueuedJobQueueManagerFunction
<1>17. /\ AsSSEControllerClass(Type, opts).asyncDispose = "closeAllConnections"
       /\ AsDualModeControllerClass(Type, opts).asyncDispose = "closeAllConnections"
  BY DEF AsSSEControllerClass, AsDualModeControllerClass
<1> HIDE DEF Untouched, InItsPlace, AsClass, Singleton, Streaming, ++
<1> QED
  BY <1>1, <1>2, <1>3, <1>4, <1>5, <1>6, <1>7, <1>8, <1>9,
     <1>10, <1>11, <1>12, <1>13, <1>14, <1>15, <1>16, <1>17

-----------------------------------------------------------------------------
(* Sorting.                                                                *)

(* R is a total order on the places S.                                     *)
Orders(R, S) ==
    /\ \A i \in S : <<i, i>> \notin R
    /\ \A i, j \in S : i # j => <<i, j>> \in R \/ <<j, i>> \in R
    /\ \A i, j, k \in S : <<i, j>> \in R /\ <<j, k>> \in R => <<i, k>> \in R

(* Sorting puts every place once, and what comes before in the order stands *)
(* before: the places up to one of them are as many as its own.            *)
LEMMA ArrangedIs ==
    ASSUME NEW S, IsFiniteSet(S), NEW R, Orders(R, S)
    PROVE  /\ Cardinality(S) \in Nat
           /\ DOMAIN Arranged(S, R) = 1 .. Cardinality(S)
           /\ \A k \in DOMAIN Arranged(S, R) : Arranged(S, R)[k] \in S
           /\ \A i \in S : \E k \in DOMAIN Arranged(S, R) : Arranged(S, R)[k] = i
           /\ \A k, l \in DOMAIN Arranged(S, R) :
                 k < l => <<Arranged(S, R)[k], Arranged(S, R)[l]>> \in R
<1> DEFINE n == Cardinality(S)
           Upto(i) == {j \in S : j = i \/ <<j, i>> \in R}
           at == [i \in S |-> Cardinality(Upto(i))]
<1>1. n \in Nat /\ DOMAIN Arranged(S, R) = 1 .. n
  BY FS_CardinalityType DEF Arranged
<1>2. ASSUME NEW i \in S
      PROVE  /\ IsFiniteSet(Upto(i)) /\ Cardinality(Upto(i)) \in 1 .. n
             /\ i \in Upto(i)
  <2>1. IsFiniteSet(Upto(i)) /\ Cardinality(Upto(i)) <= n
    BY FS_Subset, Upto(i) \in SUBSET S
  <2>2. Cardinality(Upto(i)) \in Nat
    BY <2>1, FS_CardinalityType
  <2>3. Cardinality(Upto(i)) # 0
    BY <2>1, FS_EmptySet, i \in Upto(i)
  <2> QED
    BY <1>1, <2>1, <2>2, <2>3
<1>3. ASSUME NEW i \in S, NEW j \in S, <<i, j>> \in R
      PROVE  at[i] < at[j]
  <2>1. Upto(i) \in SUBSET Upto(j)
    BY <1>3 DEF Orders
  <2>2. j \notin Upto(i)
    BY <1>3 DEF Orders
  <2>3. /\ Cardinality(Upto(i)) <= Cardinality(Upto(j))
        /\ Cardinality(Upto(i)) # Cardinality(Upto(j))
    <3> HIDE DEF Upto
    <3> QED
      BY <1>2, <2>1, <2>2, FS_Subset
  <2>4. Cardinality(Upto(i)) \in Nat /\ Cardinality(Upto(j)) \in Nat
    BY <1>2, FS_CardinalityType
  <2>5. at[i] = Cardinality(Upto(i)) /\ at[j] = Cardinality(Upto(j))
    OBVIOUS
  <2> HIDE DEF Upto, at
  <2> QED
    BY <2>3, <2>4, <2>5
<1>4. at \in [S -> 1 .. n]
  BY <1>2
<1>5. \A i, j \in S : at[i] = at[j] => i = j
  <2> SUFFICES ASSUME NEW i \in S, NEW j \in S, at[i] = at[j], i # j
               PROVE  FALSE
    OBVIOUS
  <2>1. <<i, j>> \in R \/ <<j, i>> \in R
    BY DEF Orders
  <2>2. at[i] < at[j] \/ at[j] < at[i]
    BY <1>3, <2>1
  <2>3. at[i] \in Nat /\ at[j] \in Nat
    BY <1>1, <1>4
  <2> HIDE DEF at
  <2> QED
    BY <2>2, <2>3
<1> HIDE DEF at
<1>6. at \in Injection(S, 1 .. n)
  BY <1>4, <1>5 DEF Injection, IsInjective
<1>7. at \in Surjection(S, 1 .. n)
  <2>1. IsFiniteSet(1 .. n) /\ Cardinality(1 .. n) = n
    BY <1>1, FS_Interval
  <2> QED
    BY <1>6, <2>1, FS_Injection
<1>8. ASSUME NEW k \in 1 .. n
      PROVE  Arranged(S, R)[k] \in S /\ at[Arranged(S, R)[k]] = k
  <2>1. PICK i \in S : at[i] = k
    BY <1>7 DEF Surjection
  <2>2. Arranged(S, R)[k] = CHOOSE j \in S : Position(S, R, j) = k
    BY DEF Arranged
  <2>3. \A j \in S : Position(S, R, j) = at[j]
    BY DEF Position, at
  <2> QED
    BY <2>1, <2>2, <2>3
<1>9. ASSUME NEW i \in S
      PROVE  at[i] \in 1 .. n /\ Arranged(S, R)[at[i]] = i
  BY <1>4, <1>5, <1>8
<1>10. ASSUME NEW k \in 1 .. n, NEW l \in 1 .. n, k < l
       PROVE  <<Arranged(S, R)[k], Arranged(S, R)[l]>> \in R
  <2> DEFINE i == Arranged(S, R)[k]  j == Arranged(S, R)[l]
  <2>1. i \in S /\ j \in S /\ at[i] = k /\ at[j] = l
    BY <1>8
  <2>2. k # l /\ ~(l < k)
    BY <1>1, <1>10
  <2>3. i # j /\ ~(at[j] < at[i])
    BY <2>1, <2>2
  <2> HIDE DEF i, j
  <2>4. <<i, j>> \notin R => FALSE
    BY <1>3, <2>1, <2>3 DEF Orders
  <2> QED
    BY <2>4 DEF i, j
<1> QED
  BY <1>1, <1>8, <1>9, <1>10

(* The least of some numbers.                                              *)
LEMMA FirstIs ==
    ASSUME NEW S \in SUBSET Nat, S # {}
    PROVE  First(S) \in S /\ \A j \in S : First(S) <= j
<1> DEFINE T == {0 .. n : n \in S}
<1>1. T \subseteq FiniteSubsetsOf(Nat) /\ T # {}
  <2>1. \A n \in Nat : 0 .. n \in SUBSET Nat /\ IsFiniteSet(0 .. n)
    BY FS_Interval
  <2> QED
    BY <2>1 DEF FiniteSubsetsOf
<1>2. PICK x \in T : \A y \in T : <<y, x>> \notin StrictSubsetOrdering(Nat)
  BY <1>1, FS_StrictSubsetOrderingWellFounded, WFMin
<1>3. PICK n \in S : x = 0 .. n
  OBVIOUS
<1>4. ASSUME NEW j \in S
      PROVE  n <= j
  <2> SUFFICES ASSUME j < n
               PROVE  FALSE
    OBVIOUS
  <2>1. 0 .. j \subseteq 0 .. n /\ n \in 0 .. n /\ n \notin 0 .. j
    OBVIOUS
  <2>2. <<0 .. j, 0 .. n>> \in StrictSubsetOrdering(Nat) /\ 0 .. j \in T
    BY <2>1 DEF StrictSubsetOrdering
  <2> QED
    BY <1>2, <1>3, <2>2
<1>5. \E i \in S : \A j \in S : i <= j
  BY <1>4
<1> QED
  BY <1>5 DEF First

(* What routes are compared by: the segments of the path, then the method, *)
(* which is unlike any segment, so that none begins another.               *)
Collations == {p \in Seq((0 .. 2) \X Nat) :
            /\ p # << >>
            /\ \A i \in DOMAIN p : p[i][1] = 0 <=> i = Len(p)}

(* Segments are compared by a total order.                                 *)
LEMMA LessIs ==
    ASSUME NEW x \in (0 .. 2) \X Nat, NEW y \in (0 .. 2) \X Nat, NEW z \in (0 .. 2) \X Nat
    PROVE  /\ ~Less(x, x)
           /\ x # y => Less(x, y) \/ Less(y, x)
           /\ Less(x, y) /\ Less(y, z) => Less(x, z)
BY DEF Less

(* So are routes: of two, one is before the other at the first place where *)
(* they differ.                                                            *)
LEMMA BeforeIs ==
    ASSUME NEW p \in Collations, NEW q \in Collations
    PROVE  /\ ~Before(p, p)
           /\ p # q => Before(p, q) \/ Before(q, p)
           /\ \A r \in Collations : Before(p, q) /\ Before(q, r) => Before(p, r)
<1> DEFINE P == (0 .. 2) \X Nat
<1>1. ASSUME NEW s \in Collations
      PROVE  /\ s \in Seq(P) /\ Len(s) \in Nat \ {0} /\ DOMAIN s = 1 .. Len(s)
             /\ \A i \in DOMAIN s : s[i] \in P /\ (s[i][1] = 0 <=> i = Len(s))
  BY EmptySeq DEF Collations
<1>2. ~Before(p, p)
  BY <1>1, LessIs DEF Before
<1>3. ASSUME p # q
      PROVE  Before(p, q) \/ Before(q, p)
  <2> DEFINE D == {i \in Nat : i >= 1 /\ ~(i \in DOMAIN p \cap DOMAIN q /\ p[i] = q[i])}
             i == First(D)
  <2>1. Len(p) + 1 \in D
    BY <1>1
  <2>2. i \in D /\ \A j \in D : i <= j
    BY <2>1, FirstIs
  <2>3. i \in Nat /\ i >= 1 /\ \A j \in 1 .. i - 1 : j \in DOMAIN p \cap DOMAIN q /\ p[j] = q[j]
    <3> HIDE DEF i
    <3>1. i \in Nat /\ i >= 1
      BY <2>2
    <3>2. ASSUME NEW j \in 1 .. i - 1
          PROVE  j \in DOMAIN p \cap DOMAIN q /\ p[j] = q[j]
      <4>1. j \in Nat /\ j >= 1 /\ ~(i <= j)
        BY <3>1
      <4>2. j \notin D
        BY <2>2, <4>1
      <4> QED
        BY <4>1, <4>2
    <3> QED
      BY <3>1, <3>2
  <2> HIDE DEF i, D
  <2>4. CASE i \in DOMAIN p \cap DOMAIN q
    <3>1. p[i] # q[i]
      BY <2>2, <2>4 DEF D
    <3>2. Less(p[i], q[i]) \/ Less(q[i], p[i])
      BY <1>1, <2>4, <3>1, LessIs
    <3> QED
      BY <2>3, <2>4, <3>2 DEF Before
  <2>5. CASE i \notin DOMAIN p \cap DOMAIN q
    <3>1. i > Len(p) \/ i > Len(q)
      BY <1>1, <2>3, <2>5
    <3>2. i # 1
      BY <1>1, <3>1
    <3>3. i - 1 \in 1 .. i - 1
      BY <2>3, <3>2
    <3>4. i - 1 \in DOMAIN p \cap DOMAIN q /\ p[i - 1] = q[i - 1]
      BY <2>3, <3>3
    <3>5. i - 1 = Len(p) \/ i - 1 = Len(q)
      BY <1>1, <2>3, <3>1, <3>4
    <3>6. i - 1 = Len(p) /\ i - 1 = Len(q)
      BY <1>1, <3>4, <3>5
    <3>7. p = q
      BY <1>1, <2>3, <3>6, SeqEqual
    <3> QED
      BY <1>3, <3>7
  <2> QED
    BY <2>4, <2>5
<1>4. ASSUME NEW r \in Collations, Before(p, q), Before(q, r)
      PROVE  Before(p, r)
  <2>1. PICK i \in DOMAIN p \cap DOMAIN q :
            Less(p[i], q[i]) /\ \A j \in 1 .. i - 1 : p[j] = q[j]
    BY <1>4 DEF Before
  <2>2. PICK k \in DOMAIN q \cap DOMAIN r :
            Less(q[k], r[k]) /\ \A j \in 1 .. k - 1 : q[j] = r[j]
    BY <1>4 DEF Before
  <2>3. /\ i \in Nat /\ i >= 1 /\ i <= Len(p) /\ i <= Len(q)
        /\ k \in Nat /\ k >= 1 /\ k <= Len(q) /\ k <= Len(r)
        /\ Len(p) \in Nat /\ Len(q) \in Nat /\ Len(r) \in Nat
    BY <1>1
  <2>4. p[i] \in P /\ q[i] \in P /\ q[k] \in P /\ r[k] \in P
    BY <1>1
  <2>5. CASE i = k
    <3>1. Less(p[i], r[i])
      BY <2>1, <2>2, <2>4, <2>5, LessIs
    <3>2. \A j \in 1 .. i - 1 : p[j] = r[j]
      BY <2>1, <2>2, <2>5
    <3> QED
      BY <2>5, <3>1, <3>2 DEF Before
  <2>6. CASE i < k
    <3>1. i \in 1 .. k - 1 /\ i \in DOMAIN r
      BY <1>1, <2>3, <2>6
    <3>2. Less(p[i], r[i])
      BY <2>1, <2>2, <3>1
    <3>3. \A j \in 1 .. i - 1 : p[j] = r[j]
      BY <2>1, <2>2, <2>3, <2>6
    <3> QED
      BY <3>1, <3>2, <3>3 DEF Before
  <2>7. CASE k < i
    <3>1. k \in 1 .. i - 1 /\ k \in DOMAIN p
      BY <1>1, <2>3, <2>7
    <3>2. Less(p[k], r[k])
      BY <2>1, <2>2, <3>1
    <3>3. \A j \in 1 .. k - 1 : p[j] = r[j]
      BY <2>1, <2>2, <2>3, <2>7
    <3> QED
      BY <3>1, <3>2, <3>3 DEF Before
  <2> QED
    BY <2>3, <2>5, <2>6, <2>7
<1> QED
  BY <1>2, <1>3, <1>4

(* The order of the routes of a manifest.                                  *)
LEMMA PrecedesOrders ==
    ASSUME NEW routes, DOMAIN routes \in SUBSET Nat,
           \A i \in DOMAIN routes : Collation(routes[i]) \in Collations
    PROVE  Orders(Precedes(routes), DOMAIN routes)
<1> DEFINE C(i) == Collation(routes[i])
<1>1. ASSUME NEW i \in DOMAIN routes, NEW j \in DOMAIN routes
      PROVE  <<i, j>> \in Precedes(routes) <=> Before(C(i), C(j)) \/ (C(i) = C(j) /\ i < j)
  BY DEF Precedes
<1> HIDE DEF C
<1>2. \A i \in DOMAIN routes : C(i) \in Collations
  BY DEF C
<1>3. \A i \in DOMAIN routes : <<i, i>> \notin Precedes(routes)
  BY <1>1, <1>2, BeforeIs
<1>4. ASSUME NEW i \in DOMAIN routes, NEW j \in DOMAIN routes, i # j
      PROVE  <<i, j>> \in Precedes(routes) \/ <<j, i>> \in Precedes(routes)
  <2>1. i < j \/ j < i
    BY <1>4
  <2> QED
    BY <1>1, <1>2, <2>1, BeforeIs
<1>5. ASSUME NEW i \in DOMAIN routes, NEW j \in DOMAIN routes, NEW k \in DOMAIN routes,
             <<i, j>> \in Precedes(routes), <<j, k>> \in Precedes(routes)
      PROVE  <<i, k>> \in Precedes(routes)
  <2>1. i < j /\ j < k => i < k
    OBVIOUS
  <2>2. Before(C(i), C(j)) /\ Before(C(j), C(k)) => Before(C(i), C(k))
    BY <1>2, BeforeIs
  <2> QED
    BY <1>1, <1>5, <2>1, <2>2
<1> QED
  BY <1>3, <1>4, <1>5 DEF Orders

(* A segment of a url that is a place of the Alphabet.                     *)
LEMMA PlaceIs ==
    ASSUME NEW s, NEW x \in ToSet(s)
    PROVE  Place(s, x) \in DOMAIN s
BY DEF Place, ToSet

(* A path keeps its segments, and what is no parameter stays what it is.   *)
LEMMA NormalizedIs ==
    ASSUME NEW url \in Seq(Segments), NormalizedPath(url)
    PROVE  /\ NormalizePath(url) \in Seq(Segments)
           /\ DOMAIN NormalizePath(url) = DOMAIN url
           /\ \A i \in DOMAIN url :
                LET p == NormalizePath(url)[i]
                IN  /\ p.name = url[i].name
                    /\ p.is = "literal" <=> url[i].is = "literal"
                    /\ p.is \in {"literal", "param", "wildcard"}
                    /\ p.is = "wildcard" <=> \/ url[i].is = "wildcard"
                                             \/ url[i].is = "param" /\ url[i].name = "wildcard"
<1>1. Len(url) \in Nat /\ DOMAIN url = 1 .. Len(url) /\ \A i \in DOMAIN url : url[i] \in Segments
  OBVIOUS
<1>2. ASSUME NEW i \in DOMAIN url
      PROVE  LET p == NormalizePath(url)[i]
             IN  /\ p \in Segments
                 /\ p.name = url[i].name
                 /\ p.is = "literal" <=> url[i].is = "literal"
                 /\ p.is \in {"literal", "param", "wildcard"}
                 /\ p.is = "wildcard" <=> \/ url[i].is = "wildcard"
                                          \/ url[i].is = "param" /\ url[i].name = "wildcard"
  <2>1. url[i] \in Segments /\ url[i].is # "odd"
    BY <1>1 DEF NormalizedPath
  <2>2. CASE url[i].is = "param" /\ url[i].name = "wildcard"
    <3>1. NormalizePath(url)[i] = Wildcard
      BY <2>2 DEF NormalizePath
    <3> QED
      BY <2>1, <2>2, <3>1 DEF Wildcard, Segment, Segments, SegmentKinds
  <2>3. CASE ~(url[i].is = "param" /\ url[i].name = "wildcard")
    <3>1. NormalizePath(url)[i] = [url[i] EXCEPT !.optional = FALSE]
      BY <2>3 DEF NormalizePath
    <3> QED
      BY <2>1, <2>3, <3>1 DEF Segments, SegmentKinds
  <2> QED
    BY <2>2, <2>3
<1>3. DOMAIN NormalizePath(url) = DOMAIN url
  BY DEF NormalizePath
<1>4. NormalizePath(url) \in [1 .. Len(url) -> Segments]
  <2>1. NormalizePath(url) = [i \in DOMAIN url |-> NormalizePath(url)[i]]
    BY DEF NormalizePath
  <2> QED
    BY <1>1, <1>2, <2>1
<1>5. NormalizePath(url) \in Seq(Segments)
  BY <1>1, <1>4, SeqDef
<1> QED
  BY <1>2, <1>3, <1>5

(* What a route is compared by.                                            *)
LEMMA CollationIs ==
    ASSUME NEW r, r.path \in Seq(Segments), r.method \in Methods
    PROVE  Collation(r) \in Collations
<1> DEFINE P == (0 .. 2) \X Nat
           part == [i \in DOMAIN r.path |->
                      <<IF r.path[i].is = "literal" THEN 2 ELSE 1,
                        Place(Alphabet, r.path[i].name)>>]
           last == <<0, Place(MethodsInOrder, r.method)>>
<1>1. Len(r.path) \in Nat /\ DOMAIN r.path = 1 .. Len(r.path)
  OBVIOUS
<1>2. ASSUME NEW i \in DOMAIN r.path
      PROVE  part[i] \in P /\ part[i][1] # 0
  <2>3. r.path[i] \in Segments
    OBVIOUS
  <2>1. r.path[i].name \in ToSet(Alphabet)
    BY <2>3 DEF Segments
  <2>2. Place(Alphabet, r.path[i].name) \in Nat
    BY <2>1, PlaceIs, AlphabetAssumption
  <2> QED
    BY <2>2
<1>3. last \in P
  <2>1. r.method \in ToSet(MethodsInOrder)
    BY DEF Methods, MethodsInOrder, ToSet
  <2>2. Place(MethodsInOrder, r.method) \in 1 .. 7
    BY <2>1, PlaceIs DEF MethodsInOrder
  <2> QED
    BY <2>2
<1>4. part \in Seq(P) /\ Len(part) = Len(r.path)
  <2>1. part \in [1 .. Len(r.path) -> P]
    <3> HIDE DEF P
    <3> QED
      BY <1>1, <1>2
  <2> HIDE DEF part, P
  <2> QED
    BY <1>1, <2>1
<1>5. Collation(r) = Append(part, last)
  BY DEF Collation
<1> HIDE DEF part, last
<1>6. /\ Append(part, last) \in Seq(P)
      /\ Len(Append(part, last)) = Len(part) + 1
      /\ \A i \in 1 .. Len(part) : Append(part, last)[i] = part[i]
      /\ Append(part, last)[Len(part) + 1] = last
  <2> HIDE DEF P
  <2> QED
    BY <1>3, <1>4
<1>7. last[1] = 0
  BY DEF last
<1>8. ASSUME NEW i \in DOMAIN Collation(r)
      PROVE  Collation(r)[i][1] = 0 <=> i = Len(Collation(r))
  <2>1. i \in 1 .. Len(part) + 1
    BY <1>4, <1>5, <1>6
  <2>2. CASE i = Len(part) + 1
    BY <1>5, <1>6, <1>7, <2>2
  <2>3. CASE i \in 1 .. Len(part)
    BY <1>1, <1>2, <1>4, <1>5, <1>6, <2>3
  <2> QED
    BY <1>1, <1>4, <1>5, <1>6, <2>1, <2>2, <2>3
<1>9. Collation(r) \in Seq(P) /\ Collation(r) # << >>
  <2> HIDE DEF P
  <2> QED
    BY <1>1, <1>4, <1>5, <1>6
<1> QED
  BY <1>8, <1>9 DEF Collations

-----------------------------------------------------------------------------
(* What a controller is collected as, and a route with it.                 *)
IsController(c) ==
    /\ IsTree(c.defaults)
    /\ c.routes \in Seq(ToSet(c.routes))
    /\ \A i \in DOMAIN c.routes :
          c.routes[i].url \in Seq(Segments) \ {<<>>} /\ IsTree(c.routes[i].metadata)

IsEntry(e) ==
    /\ IsTree(e.controller.defaults) /\ IsTree(e.route.metadata)
    /\ e.route.url \in Seq(Segments) \ {<<>>}

(* Routes are collected into one sequence.                                 *)
LEMMA EntriesAre ==
    ASSUME NEW controllers, controllers \in Seq(ToSet(controllers)),
           \A i \in DOMAIN controllers : IsController(controllers[i])
    PROVE  LET entries == CollectRouteEntries(controllers)
           IN  /\ Len(entries) \in Nat /\ DOMAIN entries = 1 .. Len(entries)
               /\ \A i \in DOMAIN entries : IsEntry(entries[i])
<1> DEFINE One(i, j) == [controller |-> controllers[i], route |-> controllers[i].routes[j]]
           S == UNION {{One(i, j) : j \in DOMAIN controllers[i].routes} : i \in DOMAIN controllers}
           lists == [i \in DOMAIN controllers |->
                       [j \in DOMAIN controllers[i].routes |-> One(i, j)]]
<1>1. ASSUME NEW e \in S
      PROVE  IsEntry(e)
  <2>1. PICK i \in DOMAIN controllers : \E j \in DOMAIN controllers[i].routes : e = One(i, j)
    OBVIOUS
  <2>2. PICK j \in DOMAIN controllers[i].routes : e = One(i, j)
    BY <2>1
  <2>3. e.controller = controllers[i] /\ e.route = controllers[i].routes[j]
    BY <2>2
  <2> QED
    BY <2>3 DEF IsController, IsEntry
<1>2. ASSUME NEW i \in DOMAIN controllers
      PROVE  lists[i] \in Seq(S)
  <2>1. /\ Len(controllers[i].routes) \in Nat
        /\ DOMAIN controllers[i].routes = 1 .. Len(controllers[i].routes)
    BY DEF IsController
  <2>2. lists[i] = [j \in 1 .. Len(controllers[i].routes) |-> One(i, j)]
    BY <2>1
  <2>3. \A j \in 1 .. Len(controllers[i].routes) : One(i, j) \in S
    BY <2>1
  <2>4. lists[i] \in [1 .. Len(controllers[i].routes) -> S]
    <3> HIDE DEF S, lists, One
    <3> QED
      BY <2>2, <2>3
  <2> HIDE DEF S, lists
  <2> QED
    BY <2>1, <2>4, SeqDef
<1>3. Len(controllers) \in Nat /\ DOMAIN controllers = 1 .. Len(controllers)
  OBVIOUS
<1>4. lists \in Seq(Seq(S))
  <2>1. DOMAIN lists = 1 .. Len(controllers)
    BY <1>3
  <2>2. lists = [i \in 1 .. Len(controllers) |-> lists[i]]
    BY <1>3
  <2>3. lists \in [1 .. Len(controllers) -> Seq(S)]
    <3> HIDE DEF lists, S
    <3> QED
      BY <1>2, <1>3, <2>2
  <2> HIDE DEF lists, S
  <2> QED
    BY <1>3, <2>3, SeqDef
<1>5. CollectRouteEntries(controllers) = FlattenSeq(lists)
  BY DEF CollectRouteEntries
<1> HIDE DEF lists, S
<1>6. CollectRouteEntries(controllers) \in Seq(S)
  BY <1>4, <1>5, FlattenIs
<1> QED
  BY <1>1, <1>6

-----------------------------------------------------------------------------
(* Merging keeps what the later layer says.                                *)
LEMMA MergedIs ==
    ASSUME NEW base, NEW over
    PROVE  /\ DOMAIN Merge(base, over) \subseteq DOMAIN base \cup DOMAIN over
           /\ \A p \in DOMAIN over : p \in DOMAIN Merge(base, over) /\ Merge(base, over)[p] = over[p]
BY DEF Merge, ++, Restrict

(* So the metadata of a route has what the route says.                     *)
LEMMA EntryIs ==
    ASSUME NEW e, IsEntry(e), NEW d, IsTree(d)
    PROVE  LET m == Entry(e, d).metadata  own == e.route.metadata
           IN  /\ IsTree(m)
               /\ \A p \in DOMAIN own : p \in DOMAIN m /\ m[p] = own[p]
<1> DEFINE below == Merge(d, e.controller.defaults)
<1>1. Entry(e, d).metadata = Merge(below, e.route.metadata)
  BY DEF Entry, MergeMetadata
<1>2. IsTree(below)
  BY MergedIs DEF IsTree, IsEntry
<1> HIDE DEF below
<1> QED
  BY <1>1, <1>2, MergedIs DEF IsTree, IsEntry

(* A route of a manifest, as the code makes it of what a controller has.   *)
MadeOf(r, e, d) ==
    /\ IsEntry(e) /\ NormalizedPath(e.route.url)
    /\ Valid(Entry(e, d).metadata)
    /\ r = [Entry(e, d) EXCEPT !.metadata = Parsed(@)]

(* A manifest has one route for each that was collected: sorting loses and *)
(* repeats none.                                                           *)
LEMMA ManifestIs ==
    ASSUME NEW controllers, controllers \in Seq(ToSet(controllers)),
           \A i \in DOMAIN controllers : IsController(controllers[i]),
           NEW d, IsTree(d),
           ~BuildGatewayManifestFrom(controllers, d).failed
    PROVE  LET routes == BuildGatewayManifestFrom(controllers, d).routes
               entries == ToSet(CollectRouteEntries(controllers))
           IN  /\ \E n \in Nat : DOMAIN routes = 1 .. n
               /\ \A k \in DOMAIN routes : \E e \in entries : MadeOf(routes[k], e, d)
               /\ \A e \in entries : \E k \in DOMAIN routes : MadeOf(routes[k], e, d)
<1> DEFINE entries == CollectRouteEntries(controllers)
           routes == [i \in DOMAIN entries |-> Entry(entries[i], d)]
           order == Arranged(DOMAIN routes, Precedes(routes))
           built == [i \in DOMAIN order |-> [routes[order[i]] EXCEPT !.metadata = Parsed(@)]]
           Fine == /\ \A i \in DOMAIN entries :
                        /\ NormalizedPath(entries[i].route.url)
                        /\ NormalizedMethod(entries[i].route.methods)
                        /\ Valid(routes[i].metadata)
                   /\ \A i, j \in DOMAIN routes : routes[i].id = routes[j].id => i = j
<1>1. BuildGatewayManifestFrom(controllers, d) =
         IF Fine THEN [failed |-> FALSE, routes |-> built] ELSE Failed
  BY DEF BuildGatewayManifestFrom
<1>2. Fine /\ BuildGatewayManifestFrom(controllers, d).routes = built
  <2> HIDE DEF Fine, built
  <2>1. Failed.failed = TRUE
    BY DEF Failed
  <2> QED
    BY <1>1, <2>1
<1>3. /\ Len(entries) \in Nat /\ DOMAIN entries = 1 .. Len(entries)
      /\ \A i \in DOMAIN entries : IsEntry(entries[i])
  BY EntriesAre
<1> HIDE DEF entries
<1>4. DOMAIN routes = 1 .. Len(entries)
  BY <1>3
<1>5. ASSUME NEW i \in DOMAIN routes
      PROVE  Collation(routes[i]) \in Collations
  <2>1. /\ routes[i].path = NormalizePath(entries[i].route.url)
        /\ routes[i].method = NormalizeMethod(entries[i].route.methods)
    BY DEF Entry
  <2>2. routes[i].path \in Seq(Segments)
    BY <1>2, <1>3, <2>1, NormalizedIs DEF IsEntry
  <2>3. routes[i].method \in Methods
    <3> DEFINE methods == entries[i].route.methods
    <3>1. Cardinality(methods) = 1 /\ methods \subseteq Methods
      BY <1>2, <1>3 DEF NormalizedMethod
    <3>3. Cardinality({}) = 0
      BY FS_EmptySet
    <3>4. \A S : S = {} => Cardinality(S) = 0
      BY <3>3
    <3>5. methods # {}
      BY <3>1, <3>4
    <3>2. NormalizeMethod(methods) \in methods
      BY <3>5 DEF NormalizeMethod
    <3> QED
      BY <2>1, <3>1, <3>2
  <2> HIDE DEF routes
  <2> QED
    BY <2>2, <2>3, CollationIs
<1>6. /\ \A k \in DOMAIN order : order[k] \in DOMAIN routes
      /\ \A i \in DOMAIN routes : \E k \in DOMAIN order : order[k] = i
      /\ \E n \in Nat : DOMAIN order = 1 .. n
  <2>1. IsFiniteSet(DOMAIN routes) /\ DOMAIN routes \in SUBSET Nat
    BY <1>3, <1>4, FS_Interval
  <2>2. Orders(Precedes(routes), DOMAIN routes)
    <3> HIDE DEF routes
    <3> QED
      BY <1>5, <2>1, PrecedesOrders
  <2> HIDE DEF routes
  <2> QED
    BY <2>1, <2>2, ArrangedIs
<1> HIDE DEF order
<1>7. ASSUME NEW k \in DOMAIN built
      PROVE  MadeOf(built[k], entries[order[k]], d) /\ entries[order[k]] \in ToSet(entries)
  <2>1. order[k] \in DOMAIN routes /\ order[k] \in DOMAIN entries
    BY <1>3, <1>4, <1>6
  <2>2. built[k] = [Entry(entries[order[k]], d) EXCEPT !.metadata = Parsed(@)]
    BY <2>1
  <2>3. /\ NormalizedPath(entries[order[k]].route.url)
        /\ Valid(Entry(entries[order[k]], d).metadata)
    BY <1>2, <2>1
  <2> HIDE DEF built
  <2> QED
    BY <1>3, <2>1, <2>2, <2>3 DEF MadeOf, ToSet
<1>8. ASSUME NEW e \in ToSet(entries)
      PROVE  \E k \in DOMAIN built : MadeOf(built[k], e, d)
  <2>1. PICK i \in DOMAIN entries : e = entries[i]
    BY DEF ToSet
  <2>2. PICK k \in DOMAIN order : order[k] = i
    BY <1>3, <1>4, <1>6
  <2>3. k \in DOMAIN built
    BY <2>2
  <2> HIDE DEF built
  <2> QED
    BY <1>7, <2>1, <2>2, <2>3
<1> QED
  BY <1>2, <1>6, <1>7, <1>8 DEF entries

-----------------------------------------------------------------------------
(* What the container has is collected.                                    *)
LEMMA CollectedIs ==
    ASSUME RegistrationInvariant, phase # "new"
    PROVE  /\ Collected \in Seq(ToSet(Collected))
           /\ \A i \in DOMAIN Collected : IsController(Collected[i])
<1> DEFINE One(name, class) ==
             [name |-> name, defaults |-> class.gatewayDefaults, routes |-> class.routes]
           first == [i \in DOMAIN rest |-> One(rest[i].name, rest[i].resolver.of)]
           second == [i \in DOMAIN api |-> One(api[i], container[api[i]].of)]
           S == {first[i] : i \in DOMAIN rest} \cup {second[i] : i \in DOMAIN api}
<1>1. /\ app \in Apps /\ container = Registered(app)
      /\ rest = RegisterControllers(app, "rest")
      /\ api = Names(RegisterControllers(app, "api"))
  BY DEF RegistrationInvariant
<1>2. \A name, class : IsClass(class) => IsController(One(name, class))
  BY DEF IsClass, IsController
<1>3. ASSUME NEW i \in DOMAIN rest
      PROVE  IsController(first[i])
  <2>1. rest[i] \in Kind(app, "rest")
    BY <1>1, ControllersAre
  <2>2. rest[i] \in Declarations(app)
    BY <2>1, Declared DEF Kind, ControllersIn
  <2>3. IsClass(rest[i].resolver.of)
    BY <1>1, <2>2, GatewayAssumption
  <2> QED
    BY <1>2, <2>3
<1>4. ASSUME NEW i \in DOMAIN api
      PROVE  IsController(second[i])
  <2>1. api[i] \in ToSet(Names(RegisterControllers(app, "api")))
    BY <1>1 DEF ToSet
  <2>2. api[i] \in DOMAIN Registered(app)
    BY <1>1, <2>1, FiledNames DEF Resolved
  <2>3. PICK d \in Declarations(app) : Registered(app)[api[i]].of = d.resolver.of
    BY <1>1, <2>2, RegisteredFrom
  <2>4. IsClass(container[api[i]].of)
    BY <1>1, <2>3, GatewayAssumption
  <2> QED
    BY <1>2, <2>4
<1>5. /\ Len(rest) \in Nat /\ DOMAIN rest = 1 .. Len(rest)
      /\ Len(api) \in Nat /\ DOMAIN api = 1 .. Len(api)
  <2>1. /\ RegisterControllers(app, "rest") \in Seq(Kind(app, "rest"))
        /\ RegisterControllers(app, "api") \in Seq(Kind(app, "api"))
    BY <1>1, ControllersAre
  <2>2. Len(rest) \in Nat /\ DOMAIN rest = 1 .. Len(rest)
    BY <1>1, <2>1
  <2> DEFINE pairs == RegisterControllers(app, "api")
  <2>3. Len(pairs) \in Nat /\ DOMAIN pairs = 1 .. Len(pairs)
    BY <2>1
  <2>4. api = [i \in 1 .. Len(pairs) |-> pairs[i].name]
    BY <1>1, <2>3 DEF Names
  <2> HIDE DEF pairs
  <2>5. DOMAIN api = 1 .. Len(pairs) /\ Len(api) = Len(pairs)
    BY <2>3, <2>4
  <2> QED
    BY <2>2, <2>3, <2>5
<1>6. Collected = first \o second
  BY DEF Collected
<1>7. first \in Seq(S) /\ second \in Seq(S)
  <2>1. first \in [1 .. Len(rest) -> S]
    BY <1>5
  <2>2. second \in [1 .. Len(api) -> S]
    BY <1>5
  <2> HIDE DEF first, second, S
  <2> QED
    BY <1>5, <2>1, <2>2, SeqDef
<1>8. \A c \in S : IsController(c)
  <2> HIDE DEF first, second
  <2> QED
    BY <1>3, <1>4
<1> HIDE DEF first, second, S
<1>9. Collected \in Seq(S)
  BY <1>6, <1>7
<1>10. /\ Len(Collected) \in Nat /\ DOMAIN Collected = 1 .. Len(Collected)
       /\ \A i \in DOMAIN Collected : Collected[i] \in S
  BY <1>9
<1>11. Collected \in [1 .. Len(Collected) -> ToSet(Collected)]
  <2>1. Collected \in [1 .. Len(Collected) -> S]
    BY <1>9, SeqDef, <1>10
  <2>2. \A i \in 1 .. Len(Collected) : Collected[i] \in ToSet(Collected)
    BY <1>10 DEF ToSet
  <2> QED
    BY <2>1, <2>2
<1>12. Collected \in Seq(ToSet(Collected))
  BY <1>10, <1>11, SeqDef
<1> QED
  BY <1>8, <1>10, <1>12

(* A manifest is that of what was collected, and what a gateway was given  *)
(* is made of it.                                                          *)
GatewayInvariant ==
    /\ phase = "new" => manifest = NotBuilt
    /\ \/ manifest = NotBuilt
       \/ \E d \in app.gatewayDefaults : manifest = BuildGatewayManifestFrom(Collected, d)
    /\ DOMAIN configs = Gateways
    /\ \A g \in Gateways : \/ configs[g] = NotBuilt
                           \/ ~manifest.failed /\ configs[g] = Render(g, manifest)

(* Nothing is collected anew once the application has been registered.     *)
LEMMA GatewayStep ==
    ASSUME RegistrationInvariant, GatewayInvariant, [NextApplication]_allVars
    PROVE  GatewayInvariant'
<1>1. CASE RegisterDependencies
  <2>1. phase = "new" /\ phase' # "new" /\ app' = app
    BY <1>1 DEF RegisterDependencies
  <2>2. UNCHANGED gatewayVars
    <3>1. ~UNCHANGED phase
      BY <2>1
    <3> QED
      BY <3>1 DEF NextApplication, BuildGatewayManifest, RenderConfig, vars, allVars
  <2>3. manifest = NotBuilt /\ manifest' = NotBuilt /\ configs' = configs
    BY <2>1, <2>2 DEF GatewayInvariant, gatewayVars
  <2>4. \A g \in Gateways : configs[g] = NotBuilt
    BY <2>3 DEF GatewayInvariant, NotBuilt
  <2> QED
    BY <2>1, <2>3, <2>4 DEF GatewayInvariant
<1>2. CASE NextApplication /\ ~RegisterDependencies
  <2>1. /\ app' = app /\ UNCHANGED <<rest, api, container>>
        /\ phase' = "new" => phase = "new"
    BY <1>2, RegisteredOnce DEF context
  <2>2. Collected' = Collected
    BY <2>1 DEF Collected
  <2>4. \A g \in Gateways : manifest' = manifest => Render(g, manifest)' = Render(g, manifest)
    BY <2>1 DEF Render
  <2>5. CASE Lifecycle /\ UNCHANGED gatewayVars
    BY <2>1, <2>2, <2>4, <2>5 DEF GatewayInvariant, gatewayVars
  <2>6. CASE \E d \in app.gatewayDefaults : BuildGatewayManifest(d)
    <3>1. PICK d \in app.gatewayDefaults : BuildGatewayManifest(d)
      BY <2>6
    <3>2. /\ phase # "new" /\ UNCHANGED phase
          /\ manifest' = BuildGatewayManifestFrom(Collected, d)
          /\ configs' = [g \in Gateways |-> NotBuilt]
      BY <3>1 DEF BuildGatewayManifest, vars
    <3>3. manifest' = BuildGatewayManifestFrom(Collected', d)
      BY <2>2, <3>2
    <3> QED
      BY <2>1, <3>2, <3>3 DEF GatewayInvariant
  <2>7. CASE \E g \in Gateways : RenderConfig(g)
    <3>1. PICK g \in Gateways : RenderConfig(g)
      BY <2>7
    <3>2. /\ ~manifest.failed /\ UNCHANGED <<phase, manifest>>
          /\ configs' = [configs EXCEPT ![g] = Render(g, manifest)]
      BY <3>1 DEF RenderConfig, vars
    <3>3. DOMAIN configs' = Gateways
      BY <3>2 DEF GatewayInvariant
    <3>4. ASSUME NEW h \in Gateways
          PROVE  \/ configs'[h] = NotBuilt
                 \/ ~manifest'.failed /\ configs'[h] = Render(h, manifest)'
      <4>1. Render(h, manifest)' = Render(h, manifest)
        BY <2>4, <3>2
      <4>2. configs'[h] = IF h = g THEN Render(g, manifest) ELSE configs[h]
        BY <3>2 DEF GatewayInvariant
      <4> QED
        BY <3>2, <4>1, <4>2 DEF GatewayInvariant
    <3> QED
      BY <2>1, <2>2, <3>2, <3>3, <3>4 DEF GatewayInvariant
  <2> QED
    BY <1>2, <2>5, <2>6, <2>7 DEF NextApplication
<1>3. CASE UNCHANGED allVars
  <2>1. UNCHANGED <<app, phase, container, rest, api, manifest, configs>>
    BY <1>3 DEF allVars, vars, context, gatewayVars
  <2>2. Collected' = Collected /\ \A g \in Gateways : Render(g, manifest)' = Render(g, manifest)
    BY <2>1 DEF Collected, Render
  <2> QED
    BY <2>1, <2>2 DEF GatewayInvariant
<1> QED
  BY <1>1, <1>2, <1>3

(* At first nothing is built.                                              *)
LEMMA GatewayStart == InitApplication => GatewayInvariant
BY DEF InitApplication, GatewayInvariant

(* It holds always.                                                        *)
THEOREM GatewaysFollow == Spec => [](RegistrationInvariant /\ GatewayInvariant)
BY RegistrationStart, RegistrationStep, GatewayStart, GatewayStep, PTL DEF Spec

(* What a manifest that was built is made of.                              *)
LEMMA BuiltFrom ==
    ASSUME RegistrationInvariant, GatewayInvariant, ~manifest.failed
    PROVE  \E d :
             /\ IsTree(d)
             /\ \E n \in Nat : DOMAIN manifest.routes = 1 .. n
             /\ \A k \in DOMAIN manifest.routes :
                   \E e \in Entries : MadeOf(manifest.routes[k], e, d)
             /\ \A e \in Entries :
                   \E k \in DOMAIN manifest.routes : MadeOf(manifest.routes[k], e, d)
<1>1. manifest # NotBuilt
  BY DEF NotBuilt
<1>2. PICK d \in app.gatewayDefaults : manifest = BuildGatewayManifestFrom(Collected, d)
  BY <1>1 DEF GatewayInvariant
<1>3. phase # "new"
  BY <1>1 DEF GatewayInvariant
<1>4. IsTree(d)
  BY GatewayAssumption DEF RegistrationInvariant
<1> QED
  BY <1>2, <1>3, <1>4, CollectedIs, ManifestIs DEF Entries

-----------------------------------------------------------------------------
(* What a route says for itself.                                           *)

(* A sequence with one more element.                                       *)
LEMMA FrontIs ==
    ASSUME NEW S, NEW s \in Seq(S), NEW x \in S
    PROVE  /\ Front(Append(s, x)) = s
           /\ Len(Append(s, x)) = Len(s) + 1
           /\ Append(s, x)[Len(s) + 1] = x
           /\ \A i \in 1 .. Len(s) : Append(s, x)[i] = s[i]
<1>1. /\ Append(s, x) \in Seq(S)
      /\ Len(Append(s, x)) = Len(s) + 1
      /\ Append(s, x)[Len(s) + 1] = x
      /\ \A i \in 1 .. Len(s) : Append(s, x)[i] = s[i]
  OBVIOUS
<1>2. Front(Append(s, x)) = SubSeq(Append(s, x), 1, Len(s))
  BY <1>1 DEF Front
<1>3. /\ SubSeq(Append(s, x), 1, Len(s)) \in Seq(S)
      /\ Len(SubSeq(Append(s, x), 1, Len(s))) = Len(s)
      /\ \A i \in 1 .. Len(s) : SubSeq(Append(s, x), 1, Len(s))[i] = s[i]
  BY <1>1
<1>4. SubSeq(Append(s, x), 1, Len(s)) = s
  BY <1>3, SeqEqual
<1> QED
  BY <1>1, <1>2, <1>4

(* A rule with another kind in the place of its own.                       *)
LEMMA RuleOfKind ==
    ASSUME NEW S, NEW p \in Seq(S), Len(p) = 4, NEW x
    PROVE  /\ Front(Append(Front(p), x)) = Front(p)
           /\ Len(Append(Front(p), x)) = 4
           /\ Append(Front(p), x)[4] = x
<1> DEFINE T == S \cup {x}
           s == Front(p)
<1>1. ASSUME NEW k \in 1 .. 3
      PROVE  p[k] \in T
  <2>1. k \in 1 .. Len(p)
    OBVIOUS
  <2> QED
    BY <2>1, ElementOfSeq
<1>2. Front(p) = SubSeq(p, 1, 3)
  BY DEF Front
<1>3. /\ SubSeq(p, 1, 3) \in Seq(T)
      /\ Len(SubSeq(p, 1, 3)) = 3
  <2> HIDE DEF T
  <2> QED
    BY <1>1, SubSeqProperties
<1>4. s \in Seq(T) /\ Len(s) = 3 /\ x \in T
  BY <1>2, <1>3
<1> HIDE DEF s, T
<1>5. Front(Append(s, x)) = s /\ Len(Append(s, x)) = Len(s) + 1 /\ Append(s, x)[Len(s) + 1] = x
  BY <1>4, FrontIs
<1>6. Front(Append(s, x)) = s /\ Len(Append(s, x)) = 4 /\ Append(s, x)[4] = x
  BY <1>4, <1>5
<1> QED
  BY <1>6 DEF s

(* Parsing drops of two rules for one name the one of the later kind.      *)
LEMMA ParsedIs ==
    ASSUME NEW m, IsTree(m), NEW p \in DOMAIN m
    PROVE  \/ p \in DOMAIN Parsed(m) /\ Parsed(m)[p] = m[p]
           \/ /\ IsRule(p) /\ Len(p) = 4
              /\ \E i, j \in 1 .. 3 : /\ i < j /\ p[4] = RuleKinds[j]
                                    /\ Append(Front(p), RuleKinds[i]) \in DOMAIN Parsed(m)
<1> DEFINE Of(i) == Append(Front(p), RuleKinds[i])
           Dropped(q) == \E i, j \in 1..3 :
                           /\ i < j /\ IsRule(q) /\ Len(q) = 4 /\ q[4] = RuleKinds[j]
                           /\ Append(Front(q), RuleKinds[i]) \in DOMAIN m
<1>1. \A q : q \in DOMAIN Parsed(m) <=> q \in DOMAIN m /\ ~Dropped(q)
  BY DEF Parsed, Restrict
<1>2. CASE ~Dropped(p)
  <2>1. p \in DOMAIN Parsed(m) /\ Parsed(m)[p] = m[p]
    BY <1>2 DEF Parsed, Restrict
  <2> QED
    BY <2>1
<1>3. CASE Dropped(p)
  <2>1. PICK i \in 1 .. 3, j \in 1 .. 3 :
            /\ i < j /\ IsRule(p) /\ Len(p) = 4 /\ p[4] = RuleKinds[j]
            /\ Of(i) \in DOMAIN m
    BY <1>3
  <2>2. p \in Seq(STRING) /\ Len(p) = 4
    BY <2>1 DEF IsTree
  <2>3. ASSUME NEW k \in 1 .. 3
        PROVE  Front(Of(k)) = Front(p) /\ Len(Of(k)) = 4 /\ Of(k)[4] = RuleKinds[k]
    <3> HIDE DEF Dropped
    <3> QED
      BY <2>2, RuleOfKind
  <2> HIDE DEF Of
  <2>4. \E k \in 1 .. 3 : k < j /\ Of(k) \in DOMAIN m /\ ~Dropped(Of(k))
    <3>1. \A a, b \in 1 .. 3 : RuleKinds[a] = RuleKinds[b] => a = b
      BY DEF RuleKinds
    <3>2. ASSUME NEW k \in 1 .. 3, Dropped(Of(k))
          PROVE  \E a \in 1 .. 3 : a < k /\ Of(a) \in DOMAIN m
      <4>1. PICK a \in 1 .. 3, b \in 1 .. 3 :
                /\ a < b /\ Of(k)[4] = RuleKinds[b]
                /\ Append(Front(Of(k)), RuleKinds[a]) \in DOMAIN m
        BY <3>2
      <4>2. b = k
        BY <2>3, <3>1, <4>1
      <4>3. Of(a) \in DOMAIN m
        BY <2>3, <4>1 DEF Of
      <4> QED
        BY <4>1, <4>2, <4>3
    <3> HIDE DEF Dropped
    <3>3. CASE Of(1) \in DOMAIN m
      <4>1. ~Dropped(Of(1))
        BY <3>2
      <4> QED
        BY <2>1, <3>3, <4>1
    <3>4. CASE Of(1) \notin DOMAIN m
      <4>1. i = 2
        BY <2>1, <3>4
      <4>2. ~Dropped(Of(2))
        <5>1. ASSUME NEW a \in 1 .. 3, a < 2, Of(a) \in DOMAIN m
              PROVE  FALSE
          BY <3>4, <5>1
        <5> QED
          BY <3>2, <5>1
      <4> QED
        BY <2>1, <4>1, <4>2
    <3> QED
      BY <3>3, <3>4
  <2>5. PICK k \in 1 .. 3 : k < j /\ Of(k) \in DOMAIN m /\ ~Dropped(Of(k))
    BY <2>4
  <2> HIDE DEF Dropped
  <2>6. Of(k) \in DOMAIN Parsed(m)
    BY <1>1, <2>5
  <2> QED
    BY <2>1, <2>5, <2>6 DEF Of
<1> QED
  BY <1>2, <1>3

(* What a manifest's route is, field by field.                             *)
LEMMA RouteIs ==
    ASSUME NEW r, NEW e, NEW d, MadeOf(r, e, d)
    PROVE  /\ r.origin = Origin(e) /\ r.path = NormalizePath(e.route.url)
           /\ r.metadata = Parsed(Entry(e, d).metadata)
BY DEF MadeOf, Entry

(* What a controller's route says for itself is in the route made of it.   *)
LEMMA LastWordOf ==
    ASSUME NEW r, NEW e, NEW d, IsTree(d), MadeOf(r, e, d)
    PROVE  r.origin = Origin(e) /\ LastWord(r, e)
<1> DEFINE m == Entry(e, d).metadata
<1>1. /\ IsTree(m)
      /\ \A p \in DOMAIN e.route.metadata : p \in DOMAIN m /\ m[p] = e.route.metadata[p]
  BY EntryIs DEF MadeOf
<1>2. r.metadata = Parsed(m) /\ r.origin = Origin(e)
  BY RouteIs
<1> HIDE DEF m
<1> QED
  BY <1>1, <1>2, ParsedIs DEF LastWord

(* A route has the last word about itself: mergeMetadata.                  *)
THEOREM RoutesHaveTheLastWord == Spec => []RouteHasTheLastWord
<1>1. ASSUME RegistrationInvariant, GatewayInvariant
      PROVE  RouteHasTheLastWord
  <2> SUFFICES ASSUME ~manifest.failed
               PROVE  RouteHasTheLastWord
    BY DEF RouteHasTheLastWord, Built
  <2>1. PICK d : /\ IsTree(d)
                 /\ \A k \in DOMAIN manifest.routes :
                       \E e \in Entries : MadeOf(manifest.routes[k], e, d)
                 /\ \A e \in Entries :
                       \E k \in DOMAIN manifest.routes : MadeOf(manifest.routes[k], e, d)
    BY <1>1, BuiltFrom
  <2>2. \A r \in ToSet(manifest.routes) : \E k \in DOMAIN manifest.routes : r = manifest.routes[k]
    BY DEF ToSet
  <2>3. \A k \in DOMAIN manifest.routes : manifest.routes[k] \in ToSet(manifest.routes)
    BY DEF ToSet
  <2> QED
    BY <2>1, <2>2, <2>3, LastWordOf DEF RouteHasTheLastWord
<1> QED
  BY <1>1, GatewaysFollow, PTL

-----------------------------------------------------------------------------
(* Cross-origin requests.                                                  *)

(* One policy for all of them: buildGlobalExtraConfig of KrakenD.          *)
THEOREM CorsAlwaysKeptOrReported == Spec => []CorsKeptOrReported
<1>1. ASSUME RegistrationInvariant, GatewayInvariant
      PROVE  CorsKeptOrReported
  <2> SUFFICES ASSUME ~manifest.failed, ~configs["krakend"].failed,
                      NEW r \in ToSet(manifest.routes), Has(r.metadata, <<"cors">>)
               PROVE  \/ configs["krakend"].shared = Planted(Cors(r), <<"security/cors">>)
                      \/ <<r.id, <<"cors">>>> \in configs["krakend"].warnings
    BY DEF CorsKeptOrReported, Built
  <2> DEFINE routes == manifest.routes
             with == CorsRoutes(routes)
             first == First(with)
  <2>1. configs["krakend"] = RenderKrakendConfig(manifest, app.upstreams)
    <3>1. configs["krakend"] # NotBuilt
      BY DEF NotBuilt
    <3> QED
      BY <1>1, <3>1 DEF GatewayInvariant, Gateways, Render
  <2>2. /\ configs["krakend"].shared = GlobalCors(routes)
        /\ CorsDropped(routes) \subseteq configs["krakend"].warnings
    <3> DEFINE warned == (UNION {{<<routes[i].id, f>> : f \in KrakendWarnings(routes[i].metadata)}
                                  : i \in DOMAIN routes}) \cup CorsDropped(routes)
               rendered == [failed   |-> FALSE,
                            routes   |-> [i \in DOMAIN routes |-> KrakendEndpoint(routes[i])],
                            shared   |-> GlobalCors(routes),
                            warnings |-> warned]
    <3>1. Failed.failed = TRUE
      BY DEF Failed
    <3>2. configs["krakend"] = rendered \/ configs["krakend"] = Failed
      BY <2>1 DEF RenderKrakendConfig
    <3>3. configs["krakend"] = rendered
      BY <3>1, <3>2
    <3>4. CorsDropped(routes) \subseteq warned
      OBVIOUS
    <3> HIDE DEF warned
    <3> QED
      BY <3>3, <3>4
  <2>3. PICK n \in Nat : DOMAIN routes = 1 .. n
    BY <1>1, BuiltFrom
  <2>4. PICK i \in DOMAIN routes : r = routes[i]
    BY DEF ToSet
  <2>5. i \in with /\ with \in SUBSET Nat
    BY <2>3, <2>4 DEF CorsRoutes
  <2>6. configs["krakend"].shared = Planted(Cors(routes[first]), <<"security/cors">>)
    <3> HIDE DEF with
    <3> QED
      BY <2>2, <2>5 DEF GlobalCors, with
  <2>7. CASE Cors(r) = Cors(routes[first])
    BY <2>6, <2>7
  <2>8. CASE Cors(r) # Cors(routes[first])
    <3>1. i # first
      BY <2>4, <2>8
    <3>2. CorsDropped(routes) = {<<routes[k].id, <<"cors">>>> : k \in with \ {first}}
      BY <2>4, <2>5, <2>8 DEF CorsDropped
    <3>3. <<r.id, <<"cors">>>> \in CorsDropped(routes)
      BY <2>4, <2>5, <3>1, <3>2
    <3> QED
      BY <2>2, <3>3
  <2> QED
    BY <2>7, <2>8
<1> QED
  BY <1>1, GatewaysFollow, PTL

-----------------------------------------------------------------------------
(* Paths.                                                                  *)

(* What it is to begin a path.                                             *)
LEMMA PrefixIs ==
    ASSUME NEW A, NEW s \in Seq(A), NEW B, NEW t \in Seq(B)
    PROVE  IsPrefix(s, t) <=> Len(s) <= Len(t) /\ \A i \in 1 .. Len(s) : s[i] = t[i]
<1> DEFINE S == A \cup B
<1>1. s \in Seq(S) /\ t \in Seq(S)
  OBVIOUS
<1> HIDE DEF S
<1>2. CASE Len(s) <= Len(t)
  <2>1. \A i \in 1 .. Len(s) : s[i] \in S /\ t[i] \in S
    BY <1>1, <1>2
  <2>2. /\ SubSeq(s, 1, Len(s)) \in Seq(S) /\ Len(SubSeq(s, 1, Len(s))) = Len(s)
        /\ \A i \in 1 .. Len(s) : SubSeq(s, 1, Len(s))[i] = s[i]
    BY <1>1, <2>1, SubSeqProperties
  <2>3. /\ SubSeq(t, 1, Len(s)) \in Seq(S) /\ Len(SubSeq(t, 1, Len(s))) = Len(s)
        /\ \A i \in 1 .. Len(s) : SubSeq(t, 1, Len(s))[i] = t[i]
    BY <1>1, <2>1, SubSeqProperties
  <2>4. SubSeq(s, 1, Len(s)) = SubSeq(t, 1, Len(s)) <=> \A i \in 1 .. Len(s) : s[i] = t[i]
    BY <2>2, <2>3, SeqEqual
  <2> QED
    BY <1>2, <2>4 DEF IsPrefix
<1>3. CASE ~(Len(s) <= Len(t))
  BY <1>3 DEF IsPrefix
<1> QED
  BY <1>2, <1>3

(* What stands below an object in a tree.                                  *)
LEMMA SubtreeIs ==
    ASSUME NEW m, IsTree(m), NEW a, NEW b, NEW q \in DOMAIN Subtree(m, <<a, b>>)
    PROVE  q \in Seq(STRING) /\ Len(q) >= 1 /\ Has(m, <<a, b, q[1]>>)
<1>1. PICK y \in DOMAIN m : IsStrictPrefix(<<a, b>>, y) /\ q = Below(<<a, b>>, y)
  BY DEF Subtree
<1>2. y \in Seq(STRING)
  BY DEF IsTree
<1>3. /\ <<a, b>> \in Seq({a, b}) /\ Len(<<a, b>>) = 2
      /\ <<a, b>>[1] = a /\ <<a, b>>[2] = b
  OBVIOUS
<1>4. Len(y) >= 2 /\ y[1] = a /\ y[2] = b
  <2> DEFINE s == <<a, b>>
  <2>1. IsPrefix(s, y) /\ s \in Seq({a, b}) /\ Len(s) = 2 /\ s[1] = a /\ s[2] = b
    BY <1>1, <1>3 DEF IsStrictPrefix
  <2> HIDE DEF s
  <2>2. Len(s) <= Len(y) /\ \A i \in 1 .. Len(s) : s[i] = y[i]
    BY <1>2, <2>1, PrefixIs
  <2> QED
    BY <1>2, <2>1, <2>2
<1>5. Len(y) >= 3
  <2> SUFFICES ASSUME Len(y) = 2
               PROVE  FALSE
    BY <1>2, <1>4
  <2> DEFINE S == STRING \cup {a, b}
  <2>1. y \in Seq(S) /\ <<a, b>> \in Seq(S)
    BY <1>2
  <2> HIDE DEF S
  <2>2. \A i \in 1 .. Len(y) : y[i] = <<a, b>>[i]
    BY <1>3, <1>4
  <2>3. y = <<a, b>>
    BY <1>3, <2>1, <2>2, SeqEqual
  <2> QED
    BY <1>1, <2>3 DEF IsStrictPrefix
<1>6. q = SubSeq(y, 3, Len(y))
  BY <1>1, <1>3 DEF Below
<1>7. \A i \in 3 .. Len(y) : y[i] \in STRING
  <2> DEFINE S == STRING
  <2> HIDE DEF S
  <2>1. \A T : y \in Seq(T) => \A i \in 3 .. Len(y) : y[i] \in T
    BY <1>2
  <2> QED
    BY <1>2, <2>1
<1>8. /\ q \in Seq(STRING) /\ Len(q) = Len(y) - 3 + 1
      /\ \A i \in 1 .. Len(y) - 3 + 1 : q[i] = y[3 + i - 1]
  BY <1>2, <1>5, <1>6, <1>7, SubSeqProperties
<1>9. Len(q) >= 1 /\ q[1] = y[3]
  BY <1>2, <1>5, <1>8
<1>10. IsPrefix(<<a, b, y[3]>>, y)
  <2>1. /\ <<a, b, y[3]>> \in Seq({a, b, y[3]}) /\ Len(<<a, b, y[3]>>) = 3
        /\ <<a, b, y[3]>>[1] = a /\ <<a, b, y[3]>>[2] = b /\ <<a, b, y[3]>>[3] = y[3]
    OBVIOUS
  <2>2. \A i \in 1 .. 3 : <<a, b, y[3]>>[i] = y[i]
    BY <1>4, <2>1
  <2> QED
    BY <1>2, <1>5, <2>1, <2>2, PrefixIs
<1> QED
  BY <1>8, <1>9, <1>10 DEF Has

(* The pattern of a path matches what Fastify serves with its url, and no  *)
(* more: openApiPathToEnvoyRegex, and that of Kong.                        *)
LEMMA PatternServes ==
    ASSUME NEW url \in Seq(Segments) \ {<<>>}, NormalizedPath(url), NEW words
    PROVE  LET regex == EnvoyRegex(NormalizePath(url))
               plain == \A k \in DOMAIN url : url[k].is = "param" => url[k].name # "wildcard"
           IN  /\ Serves(url, words) => Matches(regex, words)
               /\ plain /\ Matches(regex, words) => Serves(url, words)
               /\ regex = KongPath(NormalizePath(url)).pattern
               /\ regex \in Seq({regex[i] : i \in DOMAIN regex}) /\ Len(regex) = Len(url)
<1> DEFINE path == NormalizePath(url)
           regex == EnvoyRegex(path)
           n == Len(url)
<1>1. /\ path \in Seq(Segments) /\ DOMAIN path = DOMAIN url
      /\ \A i \in DOMAIN url :
            /\ path[i].name = url[i].name
            /\ path[i].is = "literal" <=> url[i].is = "literal"
            /\ path[i].is \in {"literal", "param", "wildcard"}
            /\ path[i].is = "wildcard" <=>
                  \/ url[i].is = "wildcard"
                  \/ url[i].is = "param" /\ url[i].name = "wildcard"
  BY NormalizedIs
<1> HIDE DEF path
<1>2. n \in Nat /\ n > 0 /\ DOMAIN url = 1 .. n
  BY EmptySeq
<1>3. DOMAIN regex = 1 .. n
  BY <1>1, <1>2 DEF EnvoyRegex
<1>4. \A i \in 1 .. n :
         /\ regex[i][1] = "text" <=> url[i].is = "literal"
         /\ url[i].is = "literal" => regex[i][2] = url[i].name
         /\ regex[i] = <<".*">> <=> path[i].is = "wildcard"
  <2> TAKE i \in 1 .. n
  <2>1. regex[i] = CASE path[i].is = "wildcard" -> <<".*">>
                     [] path[i].is = "param"    -> <<"[^/]+">>
                     [] OTHER                   -> <<"text", path[i].name>>
    BY <1>1, <1>2 DEF EnvoyRegex
  <2>2. /\ path[i].name = url[i].name
        /\ path[i].is = "literal" <=> url[i].is = "literal"
        /\ path[i].is \in {"literal", "param", "wildcard"}
    BY <1>1, <1>2
  <2> HIDE DEF regex
  <2>3. CASE path[i].is = "wildcard"
    BY <2>1, <2>2, <2>3
  <2>4. CASE path[i].is = "param"
    BY <2>1, <2>2, <2>4
  <2>5. CASE path[i].is = "literal"
    BY <2>1, <2>2, <2>5
  <2> QED
    BY <2>2, <2>3, <2>4, <2>5
<1>5. /\ regex \in Seq({regex[i] : i \in DOMAIN regex}) /\ Len(regex) = n
  <2> DEFINE S == {regex[i] : i \in DOMAIN regex}
  <2>1. regex = [i \in 1 .. n |-> regex[i]]
    BY <1>3 DEF EnvoyRegex
  <2> HIDE DEF regex
  <2>2. regex \in [1 .. n -> S]
    BY <1>3, <2>1
  <2> HIDE DEF S
  <2>3. regex \in Seq(S)
    BY <1>2, <2>2, SeqDef
  <2> QED
    BY <1>2, <1>3, <2>3 DEF S
<1>6. regex = KongPath(path).pattern
  BY DEF EnvoyRegex, KongPath
<1> HIDE DEF regex
<1>7. /\ Last(regex) = regex[n] /\ Last(url) = url[n]
      /\ n \in DOMAIN url /\ n \in DOMAIN regex
  BY <1>2, <1>3, <1>5 DEF Last
<1> DEFINE Fixed == \A i \in DOMAIN url :
                       url[i].is = "literal" => i <= Len(words) /\ url[i].name = words[i]
           FixedPattern == \A i \in DOMAIN regex :
                       regex[i][1] = "text" => i <= Len(words) /\ regex[i][2] = words[i]
<1>8. Fixed <=> FixedPattern
  BY <1>2, <1>3, <1>4
<1>9. Serves(url, words) <=> /\ Fixed
                             /\ \/ Len(words) = n
                                \/ url[n].is = "wildcard" /\ Len(words) > n
  BY <1>7 DEF Serves
<1>10. Matches(regex, words) <=> /\ FixedPattern
                                 /\ \/ Len(words) = n
                                    \/ path[n].is = "wildcard" /\ Len(words) > n
  BY <1>2, <1>4, <1>5, <1>7 DEF Matches
<1> HIDE DEF Fixed, FixedPattern
<1>11. Serves(url, words) => Matches(regex, words)
  BY <1>1, <1>7, <1>8, <1>9, <1>10
<1>12. ASSUME \A k \in DOMAIN url : url[k].is = "param" => url[k].name # "wildcard",
              Matches(regex, words)
       PROVE  Serves(url, words)
  BY <1>1, <1>7, <1>8, <1>9, <1>10, <1>12
<1> QED
  BY <1>5, <1>6, <1>11, <1>12 DEF regex, path

(* What extensions leave of the route of Envoy: its pattern, unless they   *)
(* name a match of their own.                                              *)
LEMMA EnvoyKeepsPattern ==
    ASSUME NEW r, IsTree(r.metadata), ~Has(r.metadata, <<"extensions", "envoy", "match">>)
    PROVE  EnvoyRoute(r)[<<"match", "safe_regex">>] = EnvoyRegex(r.path)
<1> DEFINE m == r.metadata
           P == <<"match", "safe_regex">>
           over == Subtree(m, <<"extensions", "envoy">>)
           route == Leaf(<<"name">>, r.id)
                      ++ Leaf(<<"match", "safe_regex">>, EnvoyRegex(r.path))
                      ++ EnvoyHeaderMatchers(r.method, m) ++ EnvoyQueryMatchers(m)
                      ++ Leaf(<<"route", "cluster">>, m[<<"upstream">>])
                      ++ Converted(Moved(FilledOnly(m), EnvoyMapped), EnvoyDuration)
<1>1. EnvoyRoute(r) = Merge(route, over)
  BY DEF EnvoyRoute, EnvoyExtended
<1>2. P \in DOMAIN route /\ route[P] = EnvoyRegex(r.path)
  <2>1. <<"name">> # P
    OBVIOUS
  <2> QED
    BY <2>1 DEF ++, Leaf
<1>3. ASSUME NEW q \in DOMAIN over
      PROVE  ~Related(P, q)
  <2>1. q \in Seq(STRING) /\ Len(q) >= 1 /\ q[1] # "match"
    BY SubtreeIs
  <2>2. P \in Seq({"match", "safe_regex"}) /\ Len(P) = 2 /\ P[1] = "match"
    OBVIOUS
  <2> HIDE DEF P, over
  <2>3. ~IsPrefix(P, q)
    BY <2>1, <2>2, PrefixIs
  <2>4. ~IsPrefix(q, P)
    BY <2>1, <2>2, PrefixIs
  <2> QED
    BY <2>3, <2>4 DEF Related
<1>4. P \notin DOMAIN over
  <2>1. IsPrefix(P, P)
    BY DEF IsPrefix
  <2> HIDE DEF P, over
  <2> QED
    BY <1>3, <2>1 DEF Related
<1> HIDE DEF P, over, route
<1> QED
  BY <1>1, <1>2, <1>3, <1>4 DEF Merge, ++, Restrict, P

(* And of the route of Kong: its paths, unless they name paths.            *)
LEMMA KongKeepsPaths ==
    ASSUME NEW r, IsTree(r.metadata), ~Has(r.metadata, <<"extensions", "kong", "paths">>),
           NEW profile
    PROVE  KongRoute(r, profile)[<<"paths">>] = KongPath(r.path)
<1> DEFINE m == r.metadata
           P == <<"paths">>
           over == Subtree(m, <<"extensions", "kong">>)
           route == Leaf(<<"name">>, r.id) ++ Leaf(<<"methods">>, r.method)
                      ++ Leaf(<<"paths">>, KongPath(r.path))
                      ++ Leaf(<<"strip_path">>, Has(m, <<"rewrite", "stripPrefix">>))
                      ++ Named(<<"headers">>, Rules(m, <<"match", "customHeaders">>)
                                                ++ Rules(m, <<"match", "headers">>))
                      ++ Planted(KongPlugins(m, profile), <<"plugins">>)
<1>1. KongRoute(r, profile) = Assign(route, over)
  BY DEF KongRoute
<1>2. P \in DOMAIN route /\ route[P] = KongPath(r.path)
  <2>1. <<"name">> # P /\ <<"methods">> # P
    OBVIOUS
  <2> QED
    BY <2>1 DEF ++, Leaf
<1>3. ASSUME NEW q \in DOMAIN over
      PROVE  Head(P) # Head(q)
  <2>1. q \in Seq(STRING) /\ Len(q) >= 1 /\ q[1] # "paths"
    BY SubtreeIs
  <2>2. Head(P) = "paths"
    OBVIOUS
  <2>3. Head(q) = q[1]
    BY <2>1 DEF Head
  <2> QED
    BY <2>1, <2>2, <2>3
<1>4. P \notin DOMAIN over
  <2> HIDE DEF P, over
  <2> QED
    BY <1>3
<1> HIDE DEF P, over, route
<1> QED
  BY <1>1, <1>2, <1>3, <1>4 DEF Assign, ++, Restrict, P

(* A prefix that is a whole path: a url without parameters, for Kong.      *)
LEMMA KongServes ==
    ASSUME NEW url \in Seq(Segments) \ {<<>>}, NormalizedPath(url),
           NEW words \in Paths, Serves(url, words)
    PROVE  KongMatches(KongPath(NormalizePath(url)), words)
<1> DEFINE path == NormalizePath(url)
           pattern == KongPath(path).pattern
<1>1. Matches(pattern, words) /\ Len(pattern) = Len(url)
  BY PatternServes
<1>2. CASE KongPath(path).regex
  BY <1>1, <1>2 DEF KongMatches
<1>3. CASE ~KongPath(path).regex
  <2>1. \A i \in DOMAIN url : url[i].is = "literal"
    <3>1. \A i \in DOMAIN path : path[i].is = "literal"
      BY <1>3 DEF KongPath
    <3>2. /\ DOMAIN path = DOMAIN url
          /\ \A i \in DOMAIN url : path[i].is = "literal" <=> url[i].is = "literal"
      BY NormalizedIs
    <3> HIDE DEF path
    <3> QED
      BY <3>1, <3>2
  <2>2. Len(words) = Len(url)
    <3>1. Last(url) = url[Len(url)]
      BY DEF Last
    <3>2. Len(url) \in DOMAIN url
      BY EmptySeq
    <3>3. Last(url).is # "wildcard"
      BY <2>1, <3>1, <3>2
    <3> QED
      BY <3>3 DEF Serves
  <2>3. words \in Seq(Words)
    <3>1. PICK n \in 1 .. MaxWords : words \in [1 .. n -> Words]
      BY DEF Paths
    <3>2. n \in Nat
      BY <3>1, WordsAssumption
    <3> QED
      BY <3>1, <3>2, SeqDef
  <2>4. SubSeq(words, 1, Len(words)) = words
    <3>1. /\ SubSeq(words, 1, Len(words)) \in Seq(Words)
          /\ Len(SubSeq(words, 1, Len(words))) = Len(words)
          /\ \A i \in 1 .. Len(words) : SubSeq(words, 1, Len(words))[i] = words[i]
      BY <2>3, SubSeqProperties
    <3> QED
      BY <2>3, <3>1, SeqEqual
  <2> HIDE DEF pattern
  <2>5. Matches(pattern, SubSeq(words, 1, Len(pattern)))
    BY <1>1, <2>2, <2>4
  <2> QED
    BY <1>3, <2>5 DEF KongMatches, pattern
<1> QED
  BY <1>2, <1>3

(* A gateway that could be configured reaches what Fastify serves.         *)
LEMMA ReachesOf ==
    ASSUME RegistrationInvariant, GatewayInvariant, ~manifest.failed,
           NEW i \in DOMAIN manifest.routes, NEW e, NEW d, IsTree(d),
           MadeOf(manifest.routes[i], e, d)
    PROVE  Reaches(i, e)
<1> DEFINE r == manifest.routes[i]
           url == e.route.url
           plain == \A k \in DOMAIN url : url[k].is = "param" => url[k].name # "wildcard"
<1>1. /\ r.origin = Origin(e) /\ r.path = NormalizePath(url)
      /\ r.metadata = Parsed(Entry(e, d).metadata)
  BY RouteIs
<1>2. /\ url \in Seq(Segments) \ {<<>>} /\ NormalizedPath(url)
      /\ IsTree(Entry(e, d).metadata)
  BY EntryIs DEF MadeOf, IsEntry
<1>3. IsTree(r.metadata)
  BY <1>1, <1>2 DEF IsTree, Parsed, Restrict
<1>4. ASSUME ~configs["envoy"].failed, ~Has(r.metadata, <<"extensions", "envoy", "match">>)
      PROVE  configs["envoy"].routes[i][<<"match", "safe_regex">>] = EnvoyRegex(r.path)
  <2>1. configs["envoy"] = RenderEnvoyConfig(manifest, [u \in app.upstreams |-> {"host"}])
    <3>1. configs["envoy"] # NotBuilt
      BY <1>4 DEF NotBuilt
    <3> QED
      BY <3>1 DEF GatewayInvariant, Gateways, Render
  <2>2. configs["envoy"].routes[i] = EnvoyRoute(r)
    <3>1. Failed.failed = TRUE
      BY DEF Failed
    <3> DEFINE routes == manifest.routes
               used == {routes[k].metadata[<<"upstream">>] : k \in DOMAIN routes}
               hosts == [u \in app.upstreams |-> {"host"}]
               shared == [p \in {<<"clusters", u>> : u \in used} |-> hosts[p[2]]]
               warned == UNION {{<<routes[k].id, f>> : f \in EnvoyUnsupported(routes[k].metadata)}
                                 : k \in DOMAIN routes}
               Fine == /\ \A k \in DOMAIN routes : <<"upstream">> \in DOMAIN routes[k].metadata
                       /\ \A u \in used : u \in DOMAIN hosts /\ hosts[u] # {}
    <3>4. configs["envoy"] =
            IF Fine THEN [failed   |-> FALSE,
                          routes   |-> [k \in DOMAIN routes |-> EnvoyRoute(routes[k])],
                          shared   |-> shared,
                          warnings |-> warned]
            ELSE Failed
      BY <2>1, Zenon DEF RenderEnvoyConfig
    <3>2. \/ configs["envoy"] = Failed
          \/ configs["envoy"].routes = [k \in DOMAIN manifest.routes |->
                                          EnvoyRoute(manifest.routes[k])]
      <4> HIDE DEF Fine, warned, shared
      <4> QED
        BY <3>4
    <3>3. configs["envoy"].routes = [k \in DOMAIN manifest.routes |->
                                        EnvoyRoute(manifest.routes[k])]
      BY <1>4, <3>1, <3>2
    <3> QED
      BY <3>3
  <2> QED
    BY <1>3, <1>4, <2>2, EnvoyKeepsPattern
<1>5. ASSUME ~configs["kong"].failed, ~Has(r.metadata, <<"extensions", "kong", "paths">>)
      PROVE  configs["kong"].routes[i][<<"paths">>] = KongPath(r.path)
  <2>1. configs["kong"] = RenderKongConfig(manifest, app.upstreams, app.profile)
    <3>1. configs["kong"] # NotBuilt
      BY <1>5 DEF NotBuilt
    <3> QED
      BY <3>1 DEF GatewayInvariant, Gateways, Render
  <2>2. configs["kong"].routes[i] = KongRoute(r, app.profile)
    <3>1. Failed.failed = TRUE
      BY DEF Failed
    <3> QED
      BY <1>5, <2>1, <3>1 DEF RenderKongConfig
  <2> QED
    BY <1>3, <1>5, <2>2, KongKeepsPaths
<1> HIDE DEF r, url, plain
<1>6. ASSUME NEW words \in Paths,
             ~configs["envoy"].failed, ~Has(r.metadata, <<"extensions", "envoy", "match">>)
      PROVE  LET regex == configs["envoy"].routes[i][<<"match", "safe_regex">>]
             IN  /\ Serves(url, words) => Matches(regex, words)
                 /\ plain /\ Matches(regex, words) => Serves(url, words)
  BY <1>1, <1>2, <1>4, <1>6, PatternServes DEF plain
<1>7. ASSUME NEW words \in Paths,
             ~configs["kong"].failed, ~Has(r.metadata, <<"extensions", "kong", "paths">>),
             Serves(url, words)
      PROVE  KongMatches(configs["kong"].routes[i][<<"paths">>], words)
  BY <1>1, <1>2, <1>5, <1>7, KongServes
<1> QED
  BY <1>1, <1>6, <1>7 DEF Reaches, r, url, plain

(* Envoy reaches exactly what Fastify serves, Kong at least that.          *)
THEOREM GatewaysAlwaysReachRoutes == Spec => []GatewaysReachRoutes
<1>1. ASSUME RegistrationInvariant, GatewayInvariant
      PROVE  GatewaysReachRoutes
  <2> SUFFICES ASSUME ~manifest.failed
               PROVE  GatewaysReachRoutes
    BY DEF GatewaysReachRoutes, Built
  <2>1. PICK d : /\ IsTree(d)
                 /\ \A k \in DOMAIN manifest.routes :
                       \E e \in Entries : MadeOf(manifest.routes[k], e, d)
                 /\ \A e \in Entries :
                       \E k \in DOMAIN manifest.routes : MadeOf(manifest.routes[k], e, d)
    BY <1>1, BuiltFrom
  <2> QED
    BY <1>1, <2>1, ReachesOf DEF GatewaysReachRoutes
<1> QED
  BY <1>1, GatewaysFollow, PTL

-----------------------------------------------------------------------------
(* Limits.                                                                 *)

(* A duration is a number of milliseconds.                                 *)
LEMMA MillisecondsAre ==
    ASSUME NEW d, IsDuration(d)
    PROVE  Milliseconds(d) \in Nat
<1>1. d[2] \in Nat /\ (d[3] = "ms" \/ d[3] = "s" \/ d[3] = "m" \/ d[3] = "h")
  BY DEF IsDuration
<1>2. CASE d[3] = "ms"
  BY <1>1, <1>2 DEF Milliseconds
<1>3. CASE d[3] = "s"
  BY <1>1, <1>3 DEF Milliseconds
<1>4. CASE d[3] = "m"
  BY <1>1, <1>4 DEF Milliseconds
<1>5. CASE d[3] = "h"
  BY <1>1, <1>5 DEF Milliseconds
<1> QED
  BY <1>1, <1>2, <1>3, <1>4, <1>5

(* A window of whole seconds and of a day at most fits its bucket.         *)
LEMMA BucketFits ==
    ASSUME NEW per, IsDuration(per), WholeSeconds(per), Milliseconds(per) <= 86400000
    PROVE  BucketSpan(Bucket(per)) >= Milliseconds(per)
<1> DEFINE ms == Milliseconds(per)
           s == ms \div 1000
<1>1. ms \in Nat /\ ms % 1000 = 0
  BY MillisecondsAre, SMT DEF WholeSeconds
<1> HIDE DEF ms
<1>2. s \in Nat /\ ms = 1000 * s
  BY <1>1, SMT
<1>3. Bucket(per) = CASE s <= 1 -> "second" [] s \in 2..60 -> "minute"
                      [] s \in 61..3600 -> "hour" [] OTHER -> "day"
  BY SMT DEF Bucket, ms
<1> HIDE DEF s
<1>4. CASE s <= 1
  <2>0. s \in Nat
    BY <1>2
  <2>3. s <= 1 /\ ~(s \in 2 .. 60) /\ ~(s \in 61 .. 3600)
    <3>1. ASSUME s \in 61 .. 3600
          PROVE  FALSE
      <4>1. 61 <= s
        BY <3>1, SMT
      <4> QED
        BY <1>4, <2>0, <4>1, SMT
    <3>2. s <= 1 /\ ~(s \in 2 .. 60)
      BY <1>4, <2>0, SMT
    <3> QED
      BY <3>1, <3>2, SMT
  <2>1. Bucket(per) = "second"
    BY <1>3, <2>3, SMT
  <2>2. BucketSpan(Bucket(per)) = 1000
    BY <2>1, SMT DEF BucketSpan
  <2> QED
    BY <1>2, <1>4, <2>2, SMT DEF ms
<1>5. CASE s \in 2 .. 60
  <2>3. ~(s <= 1) /\ s \in 2 .. 60 /\ ~(s \in 61 .. 3600)
    BY <1>2, <1>5, SMT
  <2>1. Bucket(per) = "minute"
    BY <1>3, <2>3, SMT
  <2>2. BucketSpan(Bucket(per)) = 60000
    BY <2>1, SMT DEF BucketSpan
  <2> QED
    BY <1>2, <1>5, <2>2, SMT DEF ms
<1>6. CASE s \in 61 .. 3600
  <2>3. ~(s <= 1) /\ ~(s \in 2 .. 60) /\ s \in 61 .. 3600
    BY <1>2, <1>6, SMT
  <2>1. Bucket(per) = "hour"
    BY <1>3, <2>3, SMT
  <2>2. BucketSpan(Bucket(per)) = 3600000
    BY <2>1, SMT DEF BucketSpan
  <2> QED
    BY <1>2, <1>6, <2>2, SMT DEF ms
<1>7. CASE s > 3600
  <2>3. ~(s <= 1) /\ ~(s \in 2 .. 60) /\ ~(s \in 61 .. 3600)
    BY <1>2, <1>7, SMT
  <2>1. Bucket(per) = "day"
    BY <1>3, <2>3, SMT
  <2>2. BucketSpan(Bucket(per)) = 86400000
    BY <2>1, SMT DEF BucketSpan
  <2> QED
    BY <2>2, SMT
<1> QED
  BY <1>2, <1>4, <1>5, <1>6, <1>7, SMT

(* A row of a table, that moves a path to what begins with x.              *)
IsRow(row, x) ==
    \E N : row[1] \in Seq(N) /\ row[2] \in Seq(N) /\ Len(row[2]) >= 1 /\ row[2][1] = x

(* A path that is moved begins as the second place of its row does.        *)
LEMMA MovedTo ==
    ASSUME NEW t, IsTree(t), NEW table, \A row \in table : \E a : IsRow(row, a),
           NEW q \in DOMAIN Moved(t, table)
    PROVE  \E row \in table : \E T : q \in Seq(T) /\ Len(q) >= 1 /\ IsRow(row, q[1])
<1>1. PICK x \in table \X DOMAIN t : /\ IsPrefix(x[1][1], x[2])
                                    /\ q = x[1][2] \o Below(x[1][1], x[2])
  BY DEF Moved
<1> DEFINE row == x[1]
           y == x[2]
           below == Below(row[1], y)
<1>2. row \in table /\ y \in DOMAIN t
  BY <1>1
<1> HIDE DEF row, y
<1>0. PICK a : IsRow(row, a)
  BY <1>2
<1>7. PICK N : row[1] \in Seq(N) /\ row[2] \in Seq(N) /\ Len(row[2]) >= 1
  BY <1>0 DEF IsRow
<1> DEFINE S == STRING \cup N
<1>3. y \in Seq(S) /\ row[1] \in Seq(S) /\ row[2] \in Seq(S) /\ Len(row[2]) >= 1
  BY <1>2, <1>7 DEF IsTree
<1> HIDE DEF S
<1>4. below \in Seq(S)
  <2>1. below = SubSeq(y, Len(row[1]) + 1, Len(y))
    BY DEF Below
  <2>2. \A i \in Len(row[1]) + 1 .. Len(y) : y[i] \in S
    BY <1>3
  <2> QED
    BY <1>3, <2>1, <2>2, SubSeqProperties
<1> HIDE DEF below
<1>5. q = row[2] \o below
  BY <1>1 DEF row, y, below
<1>6. q \in Seq(S) /\ Len(q) >= 1 /\ q[1] = row[2][1]
  BY <1>3, <1>4, <1>5, ConcatProperties
<1>8. IsRow(row, q[1])
  BY <1>6, <1>7 DEF IsRow
<1> QED
  BY <1>2, <1>6, <1>8

(* Rows whose places are paths.                                            *)
LEMMA RowsAre ==
    ASSUME NEW a, NEW b, NEW x, NEW y
    PROVE  /\ IsRow(<<<<a, b>>, <<x, y>>>>, x)
           /\ \A c : IsRow(<<<<a, b, c>>, <<x, y>>>>, x)
<1>1. IsRow(<<<<a, b>>, <<x, y>>>>, x)
  <2> DEFINE N == {a, b, x, y}
  <2>1. <<a, b>> \in Seq(N) /\ <<x, y>> \in Seq(N) /\ Len(<<x, y>>) = 2 /\ <<x, y>>[1] = x
    OBVIOUS
  <2> HIDE DEF N
  <2> QED
    BY <2>1 DEF IsRow
<1>2. ASSUME NEW c
      PROVE  IsRow(<<<<a, b, c>>, <<x, y>>>>, x)
  <2> DEFINE N == {a, b, c, x, y}
  <2>1. <<a, b, c>> \in Seq(N) /\ <<x, y>> \in Seq(N) /\ Len(<<x, y>>) = 2 /\ <<x, y>>[1] = x
    OBVIOUS
  <2> HIDE DEF N
  <2> QED
    BY <2>1 DEF IsRow
<1> QED
  BY <1>1, <1>2

(* What Kong's tables move is not the plugin that limits the rate.         *)
LEMMA NotMoved ==
    ASSUME NEW t, IsTree(t), NEW table, table = KongMapped \/ table = KongCors,
           NEW q \in DOMAIN Moved(t, table)
    PROVE  Len(q) >= 1 /\ q[1] # "rate-limiting" /\ \E T : q \in Seq(T)
<1>1. ASSUME NEW row \in table
      PROVE  \E x : IsRow(row, x) /\ x # "rate-limiting"
  <2>1. CASE table = KongMapped
    <3>1. /\ IsRow(<<<<"cache", "ttl">>, <<"proxy-cache", "cache_ttl">>>>, "proxy-cache")
          /\ IsRow(<<<<"cache", "methods">>, <<"proxy-cache", "request_method">>>>, "proxy-cache")
          /\ IsRow(<<<<"cache", "vary">>, <<"proxy-cache", "vary_headers">>>>, "proxy-cache")
      BY RowsAre
    <3>2. /\ IsRow(<<<<"headers", "request", "add">>, <<"request-transformer", "add">>>>,
                   "request-transformer")
          /\ IsRow(<<<<"headers", "request", "remove">>, <<"request-transformer", "remove">>>>,
                   "request-transformer")
          /\ IsRow(<<<<"headers", "response", "add">>, <<"response-transformer", "add">>>>,
                   "response-transformer")
          /\ IsRow(<<<<"headers", "response", "remove">>, <<"response-transformer", "remove">>>>,
                   "response-transformer")
      BY RowsAre
    <3>3. IsRow(row, "proxy-cache") \/ IsRow(row, "request-transformer")
            \/ IsRow(row, "response-transformer")
      BY <2>1, <3>1, <3>2 DEF KongMapped
    <3> QED
      BY <3>3
  <2>2. CASE table = KongCors
    BY <2>2, RowsAre DEF KongCors
  <2> QED
    BY <2>1, <2>2
<1>2. PICK row \in table : \E T : q \in Seq(T) /\ Len(q) >= 1 /\ IsRow(row, q[1])
  BY <1>1, MovedTo
<1>3. q[1] # "rate-limiting"
  BY <1>1, <1>2 DEF IsRow
<1> QED
  BY <1>2, <1>3

(* A plugin that limits the rate stands for a policy.                      *)
LEMMA LimiterIs ==
    ASSUME NEW m, IsTree(m), NEW profile, NEW b \in DOMAIN KongPlugins(m, profile),
           <<"plugins">> \o b = <<"plugins", "rate-limiting">>
    PROVE  /\ Has(m, <<"rateLimit">>)
           /\ b = <<"rate-limiting">>
           /\ KongPlugins(m, profile)[b][1] = Bucket(m[<<"rateLimit", "per">>])
<1> DEFINE moved == Moved(FilledOnly(m), KongMapped)
           cors == Moved(m, KongCors)
           plain == [p \in DOMAIN (moved ++ cors) |-> InSeconds((moved ++ cors)[p])]
           one == LeafIf(Has(m, <<"rateLimit">>), <<"rate-limiting">>,
                         <<Bucket(m[<<"rateLimit", "per">>]),
                           m[<<"rateLimit", "requests">>], LimitBy(m)>>)
           two == LeafIf(Has(m, <<"auth", "jwt">>), <<"jwt">>, Object)
           three == LeafIf(On(m, <<"auth", "mTLS">>) /\ profile = "enterprise",
                           <<"mtls-auth">>, Object)
           limit == <<"plugins", "rate-limiting">>
<1>1. KongPlugins(m, profile) = plain ++ one ++ two ++ three
  BY DEF KongPlugins, Converted
<1>2. IsTree(FilledOnly(m))
  BY DEF FilledOnly, Restrict, IsTree
<1>3. /\ <<"plugins">> \in Seq({"plugins"}) /\ Len(<<"plugins">>) = 1
      /\ limit \in Seq({"plugins", "rate-limiting"}) /\ Len(limit) = 2
      /\ limit[2] = "rate-limiting"
  OBVIOUS
<1>4. ASSUME NEW q, <<"plugins">> \o q = limit, NEW T, q \in Seq(T), Len(q) >= 1
      PROVE  q[1] = "rate-limiting"
  <2> DEFINE S == T \cup {"plugins"}
             p == <<"plugins">>
  <2>1. q \in Seq(S) /\ p \in Seq(S) /\ Len(p) = 1 /\ p \o q = limit
    BY <1>3, <1>4
  <2> HIDE DEF S, p, limit
  <2>2. (p \o q)[2] = q[1]
    BY <1>4, <2>1, ConcatProperties
  <2> QED
    BY <1>3, <2>1, <2>2
<1>5. b \notin DOMAIN plain
  <2> SUFFICES ASSUME b \in DOMAIN moved \/ b \in DOMAIN cors
               PROVE  FALSE
    BY DEF ++
  <2>1. PICK t, table : IsTree(t) /\ (table = KongMapped \/ table = KongCors)
                        /\ b \in DOMAIN Moved(t, table)
    BY <1>2
  <2> HIDE DEF moved, cors, plain
  <2>2. Len(b) >= 1 /\ b[1] # "rate-limiting" /\ \E T : b \in Seq(T)
    BY <2>1, NotMoved
  <2> QED
    BY <1>4, <2>2
<1>6. /\ DOMAIN one = IF Has(m, <<"rateLimit">>) THEN {<<"rate-limiting">>} ELSE {}
      /\ DOMAIN two \subseteq {<<"jwt">>} /\ DOMAIN three \subseteq {<<"mtls-auth">>}
  BY DEF LeafIf, Leaf, EmptyTree
<1>7. b # <<"jwt">> /\ b # <<"mtls-auth">>
  <2>0. <<"plugins">> \o b = limit
    OBVIOUS
  <2> HIDE DEF limit
  <2>2. ASSUME NEW x, b = <<x>>
        PROVE  x = "rate-limiting"
    <3>1. b \in Seq({x}) /\ Len(b) >= 1 /\ b[1] = x
      BY <2>2
    <3> QED
      BY <1>4, <2>0, <3>1
  <2> QED
    BY <2>2
<1> HIDE DEF plain, one, two, three, limit, moved, cors
<1>8. b \in DOMAIN one
  BY <1>1, <1>5, <1>6, <1>7 DEF ++
<1>9. Has(m, <<"rateLimit">>) /\ b = <<"rate-limiting">>
  BY <1>6, <1>8
<1>10. KongPlugins(m, profile)[b] = one[b]
  BY <1>1, <1>5, <1>8 DEF ++
<1>11. one[b] = <<Bucket(m[<<"rateLimit", "per">>]),
                 m[<<"rateLimit", "requests">>], LimitBy(m)>>
  BY <1>9 DEF one, LeafIf, Leaf
<1> QED
  BY <1>9, <1>10, <1>11

(* The metadata of a manifest's route, as far as limits go.                *)
LEMMA LimitsAre ==
    ASSUME NEW r, NEW e, NEW d, IsTree(d), MadeOf(r, e, d)
    PROVE  /\ IsTree(r.metadata)
           /\ RequestTimeout \in DOMAIN r.metadata =>
                 Milliseconds(r.metadata[RequestTimeout]) \in Nat
           /\ Has(r.metadata, <<"rateLimit">>) =>
                 /\ <<"rateLimit", "per">> \in DOMAIN r.metadata
                 /\ IsDuration(r.metadata[<<"rateLimit", "per">>])
<1> DEFINE m == Entry(e, d).metadata
           per == <<"rateLimit", "per">>
<1>1. r.metadata = Parsed(m)
  BY RouteIs
<1>2. IsTree(m) /\ Valid(m)
  BY EntryIs DEF MadeOf
<1> HIDE DEF m
<1>3. /\ DOMAIN Parsed(m) \subseteq DOMAIN m
      /\ \A p \in DOMAIN Parsed(m) : Parsed(m)[p] = m[p]
  BY DEF Parsed, Restrict
<1>4. IsTree(Parsed(m))
  BY <1>2, <1>3 DEF IsTree
<1>5. \A p \in Durations \cap DOMAIN m : IsDuration(m[p])
  BY <1>2 DEF Valid
<1>6. RequestTimeout \in DOMAIN Parsed(m) => Milliseconds(Parsed(m)[RequestTimeout]) \in Nat
  <2>1. RequestTimeout \in Durations
    BY DEF RequestTimeout, Durations
  <2> QED
    BY <1>3, <1>5, <2>1, MillisecondsAre
<1>7. ASSUME Has(Parsed(m), <<"rateLimit">>)
      PROVE  per \in DOMAIN Parsed(m) /\ IsDuration(Parsed(m)[per])
  <2>1. Has(m, <<"rateLimit">>)
    BY <1>3, <1>7 DEF Has
  <2>2. <<<<"rateLimit">>, per>> \in Required
    BY DEF Required
  <2> DEFINE rule == <<<<"rateLimit">>, per>>
  <2>3. rule[1] = <<"rateLimit">> /\ rule[2] = per
    OBVIOUS
  <2>4. \A x \in Required : Has(m, x[1]) => x[2] \in DOMAIN m
    BY <1>2 DEF Valid
  <2>5. per \in DOMAIN m
    <3> HIDE DEF per
    <3>1. rule \in Required
      BY <2>2
    <3> HIDE DEF rule
    <3> QED
      BY <2>1, <2>3, <2>4, <3>1
  <2>6. per \in Durations
    BY DEF Durations
  <2>7. ~IsRule(per)
    <3>1. Len(per) = 2
      OBVIOUS
    <3> QED
      BY <3>1 DEF IsRule
  <2> HIDE DEF per
  <2>8. per \in DOMAIN Parsed(m) /\ Parsed(m)[per] = m[per]
    BY <1>2, <2>5, <2>7, ParsedIs
  <2> QED
    BY <1>5, <2>5, <2>6, <2>8
<1> QED
  BY <1>1, <1>4, <1>6, <1>7

(* What extensions leave of the plugins of Kong: the limit, as it is made  *)
(* of the policy, unless they name plugins.                                *)
LEMMA KongKeepsLimiter ==
    ASSUME NEW r, IsTree(r.metadata), ~Has(r.metadata, <<"extensions", "kong", "plugins">>),
           NEW profile, <<"plugins", "rate-limiting">> \in DOMAIN KongRoute(r, profile)
    PROVE  /\ Has(r.metadata, <<"rateLimit">>)
           /\ KongRoute(r, profile)[<<"plugins", "rate-limiting">>][1]
                 = Bucket(r.metadata[<<"rateLimit", "per">>])
<1> DEFINE m == r.metadata
           P == <<"plugins", "rate-limiting">>
           over == Subtree(m, <<"extensions", "kong">>)
           name == Leaf(<<"name">>, r.id)
           methods == Leaf(<<"methods">>, r.method)
           paths == Leaf(<<"paths">>, KongPath(r.path))
           strip == Leaf(<<"strip_path">>, Has(m, <<"rewrite", "stripPrefix">>))
           rules == Rules(m, <<"match", "customHeaders">>) ++ Rules(m, <<"match", "headers">>)
           headers == Named(<<"headers">>, rules)
           made == KongPlugins(m, profile)
           plugins == Planted(made, <<"plugins">>)
           route == name ++ methods ++ paths ++ strip ++ headers ++ plugins
<1>1. KongRoute(r, profile) = Assign(route, over)
  BY DEF KongRoute
<1>2. P \in Seq({"plugins", "rate-limiting"}) /\ Len(P) = 2
      /\ P[1] = "plugins" /\ P[2] = "rate-limiting" /\ Head(P) = "plugins"
  OBVIOUS
<1>3. ASSUME NEW q \in DOMAIN over
      PROVE  Head(P) # Head(q)
  <2>1. q \in Seq(STRING) /\ Len(q) >= 1 /\ q[1] # "plugins"
    BY SubtreeIs
  <2>2. Head(q) = q[1]
    BY <2>1 DEF Head
  <2> QED
    BY <1>2, <2>1, <2>2
<1>4. P \notin DOMAIN name /\ P \notin DOMAIN methods /\ P \notin DOMAIN paths
      /\ P \notin DOMAIN strip
  BY DEF Leaf
<1>5. P \notin DOMAIN headers
  <2> SUFFICES ASSUME NEW n, P = Append(<<"headers">>, n)
               PROVE  FALSE
    BY DEF Named
  <2>1. <<"headers">> \in Seq({"headers", n}) /\ Len(<<"headers">>) = 1
        /\ <<"headers">>[1] = "headers"
    OBVIOUS
  <2>2. Append(<<"headers">>, n)[1] = "headers"
    BY <2>1
  <2> QED
    BY <1>2, <2>2
<1>6. P \notin DOMAIN over
  <2> HIDE DEF P, over
  <2> QED
    BY <1>3
<1> HIDE DEF P, over, name, methods, paths, strip, rules, headers, made, plugins
<1>7. P \in DOMAIN plugins /\ KongRoute(r, profile)[P] = plugins[P]
  <2>1. P \in DOMAIN KongRoute(r, profile)
    BY DEF P
  <2> HIDE DEF route
  <2>2. P \in DOMAIN route /\ KongRoute(r, profile)[P] = route[P]
    BY <1>1, <1>6, <2>1 DEF Assign, ++, Restrict
  <2> QED
    BY <1>4, <1>5, <2>2 DEF ++, route
<1>8. PICK b \in DOMAIN made : P = <<"plugins">> \o b
  BY <1>7 DEF plugins, Planted
<1>9. /\ Has(m, <<"rateLimit">>)
      /\ b = <<"rate-limiting">>
      /\ made[b][1] = Bucket(m[<<"rateLimit", "per">>])
  BY <1>8, LimiterIs DEF made, P
<1>10. plugins[P] = made[Below(<<"plugins">>, P)]
  BY <1>7 DEF plugins, Planted
<1>11. Below(<<"plugins">>, P) = b
  <2>1. Below(<<"plugins">>, P) = SubSeq(P, 2, 2)
    BY <1>2 DEF Below
  <2>2. \A i \in 2 .. 2 : P[i] \in {"plugins", "rate-limiting"}
    BY <1>2
  <2>3. /\ SubSeq(P, 2, 2) \in Seq({"plugins", "rate-limiting"})
        /\ Len(SubSeq(P, 2, 2)) = 1 /\ SubSeq(P, 2, 2)[1] = P[2]
    BY <2>2, SubSeqProperties
  <2>4. <<"rate-limiting">> \in Seq({"plugins", "rate-limiting"})
        /\ Len(<<"rate-limiting">>) = 1 /\ <<"rate-limiting">>[1] = "rate-limiting"
    OBVIOUS
  <2>5. SubSeq(P, 2, 2) = <<"rate-limiting">>
    <3> DEFINE s == SubSeq(P, 2, 2)
               t == <<"rate-limiting">>
    <3>1. s \in Seq({"plugins", "rate-limiting"}) /\ t \in Seq({"plugins", "rate-limiting"})
          /\ Len(s) = 1 /\ Len(t) = 1 /\ s[1] = t[1]
      BY <1>2, <2>3, <2>4
    <3> HIDE DEF s, t
    <3>2. \A i \in 1 .. Len(s) : s[i] = t[i]
      BY <3>1
    <3>3. s = t
      BY <3>1, <3>2, SeqEqual
    <3> QED
      BY <3>3 DEF s, t
  <2> QED
    BY <1>9, <2>1, <2>5
<1> QED
  BY <1>7, <1>9, <1>10, <1>11 DEF P

(* The service of a route waits as long as the route allows, and the route *)
(* is named if it waits longer.                                            *)
LEMMA ServiceWaits ==
    ASSUME NEW routes, NEW r \in routes, RequestTimeout \in DOMAIN r.metadata,
           NEW t \in PickLoosestTimeout(routes)
    PROVE  /\ Milliseconds(r.metadata[RequestTimeout]) <= t
           /\ Milliseconds(r.metadata[RequestTimeout]) < t => r \in TighterThanService(routes)
<1>1. Milliseconds(r.metadata[RequestTimeout]) \in Timeouts(routes)
  BY DEF Timeouts
<1> QED
  BY <1>1 DEF PickLoosestTimeout, TighterThanService

(* A document of Kong, of a manifest it could be made of.                  *)
LEMMA KongRenders ==
    ASSUME NEW upstreams, NEW profile, ~RenderKongConfig(manifest, upstreams, profile).failed
    PROVE  LET routes == manifest.routes
               Of(u) == {routes[i] : i \in {i \in DOMAIN routes :
                                        routes[i].metadata[<<"upstream">>] = u}}
               used == {routes[i].metadata[<<"upstream">>] : i \in DOMAIN routes}
               config == RenderKongConfig(manifest, upstreams, profile)
           IN  /\ \A i \in DOMAIN routes :
                     /\ config.routes[i] = KongRoute(routes[i], profile)
                     /\ KongCanConvert(routes[i].metadata)
               /\ \A u \in used :
                     /\ config.shared[<<"read_timeout", u>>] = PickLoosestTimeout(Of(u))
                     /\ \A r \in TighterThanService(Of(u)) :
                           <<r.id, RequestTimeout>> \in config.warnings
<1> DEFINE routes == manifest.routes
           Of(u) == {routes[i] : i \in {i \in DOMAIN routes :
                                    routes[i].metadata[<<"upstream">>] = u}}
           used == {routes[i].metadata[<<"upstream">>] : i \in DOMAIN routes}
           config == RenderKongConfig(manifest, upstreams, profile)
           made == [i \in DOMAIN routes |-> KongRoute(routes[i], profile)]
           shared == [p \in {<<"read_timeout", u>> : u \in used} |-> PickLoosestTimeout(Of(p[2]))]
           tighter == {<<r.id, RequestTimeout>> :
                         r \in UNION {TighterThanService(Of(u)) : u \in used}}
           warned == (UNION {{<<routes[i].id, f>> :
                                f \in KongWarnings(routes[i].path, routes[i].metadata, profile)}
                              : i \in DOMAIN routes}) \cup tighter
           Fine == /\ \A i \in DOMAIN routes :
                        /\ <<"upstream">> \in DOMAIN routes[i].metadata
                        /\ KongCanConvert(routes[i].metadata)
                   /\ used \subseteq upstreams
<1>1. config = IF Fine THEN [failed |-> FALSE, routes |-> made, shared |-> shared,
                             warnings |-> warned]
               ELSE Failed
  BY Zenon DEF RenderKongConfig
<1>2. Failed.failed = TRUE
  BY DEF Failed
<1>3. /\ Fine
      /\ config.routes = made /\ config.shared = shared /\ config.warnings = warned
  <2> HIDE DEF Fine, made, shared, warned
  <2> QED
    BY <1>1, <1>2
<1> HIDE DEF config
<1>4. \A i \in DOMAIN routes : /\ config.routes[i] = KongRoute(routes[i], profile)
                              /\ KongCanConvert(routes[i].metadata)
  BY <1>3
<1>5. ASSUME NEW u \in used
      PROVE  config.shared[<<"read_timeout", u>>] = PickLoosestTimeout(Of(u))
  <2>1. <<"read_timeout", u>>[2] = u
    OBVIOUS
  <2> HIDE DEF Of, used
  <2> QED
    BY <1>3, <2>1
<1>6. ASSUME NEW u \in used, NEW r \in TighterThanService(Of(u))
      PROVE  <<r.id, RequestTimeout>> \in config.warnings
  <2>1. <<r.id, RequestTimeout>> \in tighter
    <3> HIDE DEF Of, used
    <3> QED
      OBVIOUS
  <2> HIDE DEF tighter
  <2> QED
    BY <1>3, <2>1
<1> QED
  BY <1>4, <1>5, <1>6 DEF config

(* The limits a route asks for, as Kong keeps them.                        *)
THEOREM KongAlwaysKeepsLimits == Spec => []KongKeepsLimits
<1>1. ASSUME RegistrationInvariant, GatewayInvariant, ~manifest.failed, ~configs["kong"].failed,
             NEW i \in DOMAIN manifest.routes
      PROVE  LET r == manifest.routes[i]  m == r.metadata
                 service == configs["kong"].shared[<<"read_timeout", m[<<"upstream">>]>>]
                 limit == <<"plugins", "rate-limiting">>
                 plugins == configs["kong"].routes[i]
             IN  /\ RequestTimeout \in DOMAIN m =>
                      \A t \in service :
                        /\ t >= Milliseconds(m[RequestTimeout])
                        /\ t > Milliseconds(m[RequestTimeout]) =>
                             <<r.id, RequestTimeout>> \in configs["kong"].warnings
                 /\ limit \in DOMAIN plugins /\ ~Has(m, <<"extensions", "kong", "plugins">>) =>
                      LET per == Milliseconds(m[<<"rateLimit", "per">>])
                      IN  per <= 86400000 => BucketSpan(plugins[limit][1]) >= per
  <2> DEFINE routes == manifest.routes
             r == routes[i]
             m == r.metadata
             u == m[<<"upstream">>]
             Of(v) == {routes[k] : k \in {k \in DOMAIN routes :
                                      routes[k].metadata[<<"upstream">>] = v}}
             config == configs["kong"]
             limit == <<"plugins", "rate-limiting">>
             per == m[<<"rateLimit", "per">>]
  <2>1. config = RenderKongConfig(manifest, app.upstreams, app.profile)
    <3>1. configs["kong"] # NotBuilt
      BY <1>1 DEF NotBuilt
    <3> QED
      BY <1>1, <3>1 DEF GatewayInvariant, Gateways, Render
  <2>2. /\ config.routes[i] = KongRoute(r, app.profile)
        /\ KongCanConvert(m)
        /\ config.shared[<<"read_timeout", u>>] = PickLoosestTimeout(Of(u))
        /\ \A x \in TighterThanService(Of(u)) : <<x.id, RequestTimeout>> \in config.warnings
    <3> DEFINE kong == RenderKongConfig(manifest, app.upstreams, app.profile)
               used == {routes[k].metadata[<<"upstream">>] : k \in DOMAIN routes}
    <3>1. ~kong.failed
      BY <1>1, <2>1
    <3>2. u \in used
      BY <1>1
    <3>3. /\ \A k \in DOMAIN routes :
                /\ kong.routes[k] = KongRoute(routes[k], app.profile)
                /\ KongCanConvert(routes[k].metadata)
          /\ \A v \in used :
                /\ kong.shared[<<"read_timeout", v>>] = PickLoosestTimeout(Of(v))
                /\ \A x \in TighterThanService(Of(v)) : <<x.id, RequestTimeout>> \in kong.warnings
      BY <3>1, KongRenders
    <3>4. kong.routes[i] = KongRoute(r, app.profile) /\ KongCanConvert(m)
      <4> HIDE DEF kong, Of, used
      <4> QED
        BY <1>1, <3>3
    <3> HIDE DEF kong, Of, used, u
    <3> QED
      BY <2>1, <3>2, <3>3, <3>4 DEF kong
  <2>3. PICK e, d : IsTree(d) /\ MadeOf(r, e, d)
    BY <1>1, BuiltFrom
  <2>4. /\ IsTree(m)
        /\ RequestTimeout \in DOMAIN m => Milliseconds(m[RequestTimeout]) \in Nat
        /\ Has(m, <<"rateLimit">>) => <<"rateLimit", "per">> \in DOMAIN m /\ IsDuration(per)
    BY <2>3, LimitsAre
  <2>5. r \in Of(u)
    OBVIOUS
  <2> HIDE DEF config, Of, r, u
  <2>6. ASSUME RequestTimeout \in DOMAIN m, NEW t \in config.shared[<<"read_timeout", u>>]
        PROVE  /\ t >= Milliseconds(m[RequestTimeout])
               /\ t > Milliseconds(m[RequestTimeout]) => <<r.id, RequestTimeout>> \in config.warnings
    <3>1. /\ Milliseconds(m[RequestTimeout]) <= t
          /\ Milliseconds(m[RequestTimeout]) < t => r \in TighterThanService(Of(u))
      BY <2>2, <2>5, <2>6, ServiceWaits
    <3> QED
      BY <2>2, <3>1
  <2>7. ASSUME limit \in DOMAIN config.routes[i], ~Has(m, <<"extensions", "kong", "plugins">>),
               Milliseconds(per) <= 86400000
        PROVE  BucketSpan(config.routes[i][limit][1]) >= Milliseconds(per)
    <3>1. Has(m, <<"rateLimit">>) /\ config.routes[i][limit][1] = Bucket(per)
      BY <2>2, <2>4, <2>7, KongKeepsLimiter, SMT
    <3>2. <<"rateLimit", "per">> \in DOMAIN m /\ IsDuration(per) /\ WholeSeconds(per)
      BY <2>2, <2>4, <3>1, SMT DEF KongCanConvert
    <3> QED
      BY <2>7, <3>1, <3>2, BucketFits, SMT
  <2> QED
    BY <2>6, <2>7, SMT DEF config, r, u
<1>2. ASSUME RegistrationInvariant, GatewayInvariant
      PROVE  KongKeepsLimits
  BY <1>1, <1>2, SMT DEF KongKeepsLimits, Built
<1> QED
  BY <1>2, GatewaysFollow, PTL
=============================================================================
