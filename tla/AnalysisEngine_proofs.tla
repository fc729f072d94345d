------------------------ MODULE AnalysisEngine_proofs ------------------------
(***************************************************************************)
(* Proofs about the data-flow engine, for every number of blocks and every *)
(* range of values.                                                        *)
(***************************************************************************)
EXTENDS AnalysisEngine, FiniteSetTheorems, WellFoundedInduction, TLAPS

(***************************************************************************)
(* Counting.                                                               *)
(***************************************************************************)
LEMMA LeastNumber ==
    ASSUME NEW T \in SUBSET Nat, T # {}
    PROVE  \E m \in T : \A k \in T : m <= k
  <1> DEFINE Less == {p \in Nat \X Nat : p[1] < p[2]}
  <1>1. IsWellFoundedOn(Less, Nat)
    BY NatLessThanWellFounded DEF OpToRel
  <1>2. PICK m \in T : \A k \in T : <<k, m>> \notin Less
    <2> HIDE DEF Less
    <2> QED
      BY <1>1, WFMin
  <1>3. m \in Nat /\ \A k \in T : k \in Nat /\ ~(k < m)
    BY <1>2
  <1> HIDE DEF Less
  <1> QED
    BY <1>3

\* What holds of 0, and of n when it holds of n - 1, holds up to N.
Climbs(N, T) == 0 \in T /\ \A n \in 1..N : (n - 1) \in T => n \in T

LEMMA Climb ==
    ASSUME NEW N \in Nat, NEW T, Climbs(N, T)
    PROVE  \A n \in 0..N : n \in T
  <1> DEFINE Missing == {n \in Nat : n <= N /\ n \notin T}
  <1> SUFFICES ASSUME NEW x \in 0..N, x \notin T PROVE FALSE
    OBVIOUS
  <1>1. Missing \in SUBSET Nat /\ Missing # {}
    OBVIOUS
  <1>2. PICK m \in Missing : \A k \in Missing : m <= k
    <2> HIDE DEF Missing
    <2> QED
      BY <1>1, LeastNumber
  <1>3. m \in 1..N /\ m \notin T /\ m \in Nat
    BY DEF Climbs
  <1>4. m - 1 \in Nat /\ m - 1 <= N /\ ~(m <= m - 1)
    BY <1>3
  <1>5. m - 1 \in T
    BY <1>2, <1>4
  <1> QED
    BY <1>3, <1>5 DEF Climbs

\* A function defined along the numbers up to N exists.
Steps(N, start, step, g) ==
    g[0] = start /\ \A n \in 1..N : g[n] = step[n][g[n - 1]]

LEMMA Iteration ==
    ASSUME NEW N \in Nat, NEW V, NEW start \in V, NEW step \in [1..N -> [V -> V]]
    PROVE  \E g \in [0..N -> V] : Steps(N, start, step, g)
  <1> DEFINE T == {m \in 0..N : \E g \in [0..N -> V] : Steps(m, start, step, g)}
  <1>1. 0 \in T
    <2> DEFINE g == [n \in 0..N |-> start]
    <2>1. 0 \in 0..N /\ g \in [0..N -> V] /\ g[0] = start /\ 1..0 = {}
      OBVIOUS
    <2>2. Steps(0, start, step, g)
      <3> HIDE DEF g
      <3> QED
        BY <2>1 DEF Steps
    <2> HIDE DEF g
    <2> QED
      BY <2>1, <2>2
  <1>2. ASSUME NEW m \in 1..N, (m - 1) \in T PROVE m \in T
    <2>1. PICK g \in [0..N -> V] : Steps(m - 1, start, step, g)
      BY <1>2
    <2> DEFINE h == [g EXCEPT ![m] = step[m][g[m - 1]]]
    <2>2. m \in 0..N /\ m - 1 \in 0..N /\ g[m - 1] \in V /\ step[m][g[m - 1]] \in V
      <3>1. m \in 0..N /\ m - 1 \in 0..N
        OBVIOUS
      <3> QED
        BY <3>1
    <2>3. h \in [0..N -> V] /\ h[m] = step[m][g[m - 1]] /\ \A n \in 0..N : n # m => h[n] = g[n]
      BY <2>2
    <2> HIDE DEF h
    <2>4. h[0] = start
      BY <2>1, <2>3 DEF Steps
    <2>5. ASSUME NEW n \in 1..m PROVE h[n] = step[n][h[n - 1]]
      <3>1. n \in 0..N /\ n - 1 \in 0..N /\ n - 1 # m
        OBVIOUS
      <3>2. h[n - 1] = g[n - 1]
        BY <2>3, <3>1
      <3>3. CASE n = m
        BY <2>3, <3>2, <3>3
      <3>4. CASE n # m
        <4>1. n \in 1..(m - 1)
          BY <3>4
        <4> QED
          BY <2>1, <2>3, <3>1, <3>2, <3>4, <4>1 DEF Steps
      <3> QED
        BY <3>3, <3>4
    <2> QED
      BY <2>2, <2>3, <2>4, <2>5 DEF Steps
  <1>3. N \in T
    <2> HIDE DEF T
    <2>1. Climbs(N, T)
      BY <1>1, <1>2 DEF Climbs
    <2> QED
      BY <2>1, Climb
  <1> QED
    BY <1>3

(***************************************************************************)
(* Sequences without repetitions.                                          *)
(***************************************************************************)
Distinct(s) == \A i, j \in 1..Len(s) : s[i] = s[j] => i = j

\* The blocks of s that are in S.
LEMMA AmongChooses ==
    ASSUME NEW X, NEW s \in Seq(X), NEW S
    PROVE  /\ Among(s, S) \in Seq(X)
           /\ ToSet(Among(s, S)) = {x \in ToSet(s) : x \in S}
           /\ Distinct(s) => Distinct(Among(s, S))
  <1> DEFINE N == Len(s)
             after(i, q) == IF s[i] \in S THEN Append(q, s[i]) ELSE q
             step == [i \in 1..N |-> [q \in Seq(X) |-> after(i, q)]]
             F == CHOOSE f : f = [i \in 0..N |-> IF i = 0 THEN <<>> ELSE after(i, f[i - 1])]
  <1>1. N \in Nat /\ (\A i \in 1..N : s[i] \in X) /\ <<>> \in Seq(X)
    OBVIOUS
  <1>2. \A i \in 1..N, q \in Seq(X) : after(i, q) \in Seq(X)
    BY <1>1
  <1>3. step \in [1..N -> [Seq(X) -> Seq(X)]]
    BY <1>2
  <1>4. PICK g \in [0..N -> Seq(X)] : Steps(N, <<>>, step, g)
    <2> HIDE DEF step, N
    <2> QED
      BY <1>1, <1>3, Iteration
  <1>5. g = [i \in 0..N |-> IF i = 0 THEN <<>> ELSE after(i, g[i - 1])]
    <2>1. \A i \in 1..N : g[i] = after(i, g[i - 1])
      <3> TAKE i \in 1..N
      <3>1. i - 1 \in 0..N
        BY <1>1
      <3>2. g[i - 1] \in Seq(X)
        BY <3>1
      <3>3. g[i] = step[i][g[i - 1]]
        BY <1>4 DEF Steps
      <3> HIDE DEF after
      <3> QED
        BY <3>2, <3>3
    <2>2. g[0] = <<>>
      BY <1>4 DEF Steps
    <2> HIDE DEF after
    <2> QED
      BY <1>1, <2>1, <2>2
  <1>6. F = [i \in 0..N |-> IF i = 0 THEN <<>> ELSE after(i, F[i - 1])]
    <2> HIDE DEF after, N
    <2> QED
      BY <1>5
  <1>7. Among(s, S) = F[N]
    BY DEF Among
  <1> HIDE DEF F
  <1>8. F[0] = <<>> /\ \A i \in 1..N : F[i] = after(i, F[i - 1])
    <2> HIDE DEF after
    <2>1. 0 \in 0..N /\ \A i \in 1..N : i \in 0..N /\ i # 0
      BY <1>1
    <2> QED
      BY <1>6, <2>1
  <1> DEFINE Good(i) == /\ F[i] \in Seq(X)
                        /\ \A x : (\E k \in 1..Len(F[i]) : F[i][k] = x) <=> (x \in S /\ \E k \in 1..i : s[k] = x)
                        /\ Distinct(s) => Distinct(F[i])
             T == {i \in 0..N : Good(i)}
  <1>9. 0 \in T
    <2>1. F[0] = <<>> /\ <<>> \in Seq(X) /\ Len(<<>>) = 0 /\ 1..0 = {} /\ 0 \in 0..N
      BY <1>1, <1>8
    <2>2. Distinct(<<>>)
      BY <2>1 DEF Distinct
    <2> QED
      BY <2>1, <2>2
  <1>10. ASSUME NEW i \in 1..N, (i - 1) \in T PROVE i \in T
    <2>1. i \in Nat /\ i \in 0..N /\ i - 1 \in 0..N /\ i - 1 \in Nat /\ s[i] \in X
      BY <1>1
    <2>2. Good(i - 1)
      BY <1>10
    <2>3. PICK q \in Seq(X) : q = F[i - 1]
      BY <2>2
    <2>4. F[i] = after(i, q)
      BY <1>8, <2>3
    <2>5. CASE s[i] \notin S
      <3>1. F[i] = q
        BY <2>4, <2>5
      <3>2. \A k \in 1..i : k \in 1..(i - 1) \/ k = i
        BY <2>1
      <3>3. \A x : (x \in S /\ \E k \in 1..i : s[k] = x) <=> (x \in S /\ \E k \in 1..(i - 1) : s[k] = x)
        BY <2>1, <2>5, <3>2
      <3>4. Good(i)
        BY <2>2, <2>3, <3>1, <3>3
      <3> QED
        BY <2>1, <3>4
    <2>6. CASE s[i] \in S
      <3> DEFINE p == Append(q, s[i])
      <3>1. F[i] = p
        BY <2>4, <2>6
      <3>2. p \in Seq(X) /\ Len(p) = Len(q) + 1 /\ p[Len(q) + 1] = s[i]
            /\ Len(q) \in Nat /\ \A k \in 1..Len(q) : p[k] = q[k]
        BY <2>1
      <3> HIDE DEF p
      <3>3. ASSUME NEW x, NEW k \in 1..Len(p), p[k] = x PROVE x \in S /\ \E j \in 1..i : s[j] = x
        <4>1. CASE k \in 1..Len(q)
          <5>1. PICK j \in 1..(i - 1) : x \in S /\ s[j] = x
            BY <2>2, <2>3, <3>2, <3>3, <4>1
          <5> QED
            BY <2>1, <5>1
        <4>2. CASE k = Len(q) + 1
          BY <2>1, <2>6, <3>2, <3>3, <4>2
        <4> QED
          BY <3>2, <4>1, <4>2
      <3>4. ASSUME NEW x \in S, NEW j \in 1..i, s[j] = x PROVE \E k \in 1..Len(p) : p[k] = x
        <4>1. CASE j \in 1..(i - 1)
          <5>1. PICK k \in 1..Len(q) : q[k] = x
            BY <2>2, <2>3, <3>4, <4>1
          <5> QED
            BY <3>2, <5>1
        <4>2. CASE j = i
          BY <3>2, <3>4, <4>2
        <4> QED
          BY <2>1, <4>1, <4>2
      <3>5. ASSUME Distinct(s) PROVE Distinct(p)
        <4>1. Distinct(q)
          BY <2>2, <2>3, <3>5
        <4>2. ASSUME NEW k \in 1..Len(q) PROVE q[k] # s[i]
          <5>1. PICK j \in 1..(i - 1) : s[j] = q[k]
            BY <2>2, <2>3
          <5>2. j \in 1..N /\ i \in 1..N /\ j # i
            BY <1>1, <2>1
          <5> QED
            BY <3>5, <5>1, <5>2 DEF Distinct
        <4> QED
          BY <3>2, <4>1, <4>2, SMTT(30) DEF Distinct
      <3> QED
        BY <2>1, <3>1, <3>2, <3>3, <3>4, <3>5
    <2> QED
      BY <2>5, <2>6
  <1>11. N \in T
    <2> HIDE DEF T, N
    <2>1. Climbs(N, T)
      BY <1>9, <1>10 DEF Climbs
    <2> QED
      BY <1>1, <2>1, Climb
  <1>12. Good(N)
    BY <1>11
  <1>13. /\ F[N] \in Seq(X)
         /\ \A x : (\E k \in 1..Len(F[N]) : F[N][k] = x) <=> (x \in S /\ \E k \in 1..Len(s) : s[k] = x)
         /\ Distinct(s) => Distinct(F[N])
    BY <1>12
  <1>14. DOMAIN s = 1..Len(s) /\ DOMAIN F[N] = 1..Len(F[N])
    BY <1>13
  <1>15. ToSet(F[N]) = {x \in ToSet(s) : x \in S}
    BY <1>13, <1>14 DEF ToSet
  <1> QED
    BY <1>7, <1>13, <1>15

(***************************************************************************)
(* The order in which the blocks are first processed (TopologicalSort).    *)
(***************************************************************************)
FlowGraph(succ) == succ \in [Blocks -> {<<>>} \cup Branches]

LEMMA FlowGraphFacts ==
    ASSUME NEW succ, FlowGraph(succ), NEW b \in Blocks
    PROVE  /\ succ[b] \in Seq(Blocks) /\ Len(succ[b]) <= 2 /\ Distinct(succ[b])
           /\ \A i \in 1..Len(succ[b]) : succ[b][i] \in Blocks \ {1}
  <1>1. Size \in Nat /\ Size > 1 /\ \A c \in 2..Size : c \in Blocks /\ c # 1
    BY BoundsAssumption DEF BoundsAssumption, Blocks
  <1>2. succ[b] \in {<<>>} \cup Branches
    BY DEF FlowGraph
  <1>3. CASE succ[b] = <<>>
    BY <1>3 DEF Distinct
  <1>4. CASE \E c \in 2..Size : succ[b] = <<c>>
    <2>1. PICK c \in 2..Size : succ[b] = <<c>>
      BY <1>4
    <2>2. Len(<<c>>) = 1 /\ <<c>>[1] = c
      OBVIOUS
    <2> QED
      BY <1>1, <2>1, <2>2 DEF Distinct
  <1>5. CASE \E p \in (2..Size) \X (2..Size) : succ[b] = p /\ p[1] # p[2]
    <2>1. PICK c \in 2..Size, d \in 2..Size : succ[b] = <<c, d>> /\ c # d
      BY <1>5
    <2>2. Len(<<c, d>>) = 2 /\ <<c, d>>[1] = c /\ <<c, d>>[2] = d
      OBVIOUS
    <2>3. <<c, d>> \in Seq(Blocks) /\ \A i \in 1..2 : i = 1 \/ i = 2
      BY <1>1
    <2>4. Distinct(<<c, d>>)
      BY <2>1, <2>2, <2>3 DEF Distinct
    <2> QED
      BY <1>1, <2>1, <2>2, <2>3, <2>4
  <1> QED
    BY <1>2, <1>3, <1>4, <1>5 DEF Branches

\* A search under way: the stack is a path from the entry, the blocks in the order
\* have all their successors on one of the two, and a predecessor on the stack or before.
Search == [stack : Seq(Blocks), order : Seq(Blocks)]
Apart(s) ==
    /\ Distinct(s.stack) /\ Distinct(s.order)
    /\ \A i \in 1..Len(s.stack), j \in 1..Len(s.order) : s.stack[i] # s.order[j]
Rooted(s) ==
    IF s.stack = <<>> THEN s.order # <<>> /\ s.order[1] = 1 ELSE s.stack[1] = 1
Path(succ, s) ==
    \A i \in 1..(Len(s.stack) - 1) : s.stack[i + 1] \in ToSet(succ[s.stack[i]])
Complete(succ, s) ==
    \A i \in 1..Len(s.order) : ToSet(succ[s.order[i]]) \subseteq ToSet(s.stack) \cup ToSet(s.order)
Followed(succ, s) ==
    \A i \in 1..Len(s.order) :
        \/ s.order[i] = 1
        \/ \E p \in ToSet(s.stack) : s.order[i] \in ToSet(succ[p])
        \/ \E j \in 1..(i - 1) : s.order[i] \in ToSet(succ[s.order[j]])
Counted(n, s) == s.stack = <<>> \/ Len(s.stack) + 2 * Len(s.order) = n + 1
Searching(succ, n, s) ==
    s \in Search /\ Apart(s) /\ Rooted(s) /\ Path(succ, s) /\ Complete(succ, s) /\ Followed(succ, s) /\ Counted(n, s)

LEMMA SearchStarts ==
    ASSUME NEW succ, FlowGraph(succ)
    PROVE  Searching(succ, 0, [stack |-> <<1>>, order |-> <<>>])
  <1> DEFINE s == [stack |-> <<1>>, order |-> <<>>]
  <1>1. Size \in Nat /\ Size > 1 /\ 1 \in Blocks
    BY BoundsAssumption DEF BoundsAssumption, Blocks
  <1>2. s \in Search /\ s.stack = <<1>> /\ s.order = <<>>
    BY <1>1 DEF Search
  <1>3. Len(s.stack) = 1 /\ s.stack[1] = 1 /\ Len(s.order) = 0 /\ s.stack # <<>>
    BY <1>2
  <1>4. 1..0 = {} /\ \A i \in 1..1 : i = 1
    OBVIOUS
  <1> HIDE DEF s
  <1>5. Apart(s) /\ Rooted(s)
    BY <1>3, <1>4 DEF Apart, Distinct, Rooted
  <1>6. Path(succ, s) /\ Complete(succ, s) /\ Followed(succ, s)
    BY <1>3, <1>4 DEF Path, Complete, Followed
  <1>7. Counted(0, s)
    BY <1>3 DEF Counted
  <1>8. Searching(succ, 0, s)
    BY <1>2, <1>5, <1>6, <1>7 DEF Searching
  <1> QED
    BY <1>8 DEF s

LEMMA SearchPushes ==
    ASSUME NEW succ, FlowGraph(succ), NEW n \in Nat, NEW s, Searching(succ, n, s), s.stack # <<>>,
           NEW c \in Blocks, c \in ToSet(succ[Last(s.stack)]), c \notin ToSet(s.stack) \cup ToSet(s.order)
    PROVE  Searching(succ, n + 1, [s EXCEPT !.stack = Append(@, c)])
  <1> DEFINE t == [s EXCEPT !.stack = Append(@, c)]
  <1>s. s \in Search /\ s.stack \in Seq(Blocks) /\ s.order \in Seq(Blocks)
    BY DEF Searching, Search
  <1>l. PICK L \in Nat : L = Len(s.stack) /\ L > 0
    BY <1>s
  <1>m. PICK M \in Nat : M = Len(s.order)
    BY <1>s
  <1>c. L + 2 * M = n + 1 => (L + 1) + 2 * M = (n + 1) + 1
    OBVIOUS
  <1>1. s \in Search /\ s.stack \in Seq(Blocks) /\ s.order \in Seq(Blocks) /\ L = Len(s.stack) /\ L > 0 /\ M = Len(s.order) /\ L \in Nat /\ M \in Nat
    BY <1>s, <1>l, <1>m
  <1> USE <1>1
  <1>2. t \in Search /\ t.order = s.order /\ t.stack = Append(s.stack, c)
    <2>1. Append(s.stack, c) \in Seq(Blocks)
      BY <1>1
    <2>2. PICK p \in Seq(Blocks), o \in Seq(Blocks) : s = [stack |-> p, order |-> o]
      BY <1>1 DEF Search
    <2>4. s.stack = p /\ s.order = o
      BY <2>2
    <2>q. PICK q \in Seq(Blocks) : q = Append(p, c)
      BY <2>1, <2>4
    <2>3. t = [stack |-> q, order |-> o]
      <3>1. [[stack |-> p, order |-> o] EXCEPT !.stack = q] = [stack |-> q, order |-> o]
        OBVIOUS
      <3>2. t = [s EXCEPT !.stack = q]
        BY <2>4, <2>q
      <3> QED
        BY <2>2, <3>1, <3>2
    <2> HIDE DEF t
    <2>5. t.stack = q /\ t.order = o
      BY <2>3
    <2> QED
      BY <1>1, <2>q, <2>3, <2>4, <2>5 DEF Search
  <1>3. /\ Len(t.stack) = L + 1 /\ t.stack[L + 1] = c /\ t.stack # <<>> /\ t.stack \in Seq(Blocks)
        /\ \A i \in 1..L : t.stack[i] = s.stack[i]
        /\ \A i \in 1..(L + 1) : i \in 1..L \/ i = L + 1
    BY <1>1, <1>2
  <1>4. /\ \A i \in 1..L : s.stack[i] # c
        /\ \A i \in 1..Len(s.order) : s.order[i] # c
    BY <1>1 DEF ToSet
  <1>5. ToSet(s.stack) \subseteq ToSet(t.stack)
    BY <1>1, <1>3 DEF ToSet
  <1> HIDE DEF t
  <1>6. Apart(t)
    <2>1. Distinct(t.stack)
      BY <1>3, <1>4, SMTT(30) DEF Searching, Apart, Distinct
    <2> QED
      BY <1>2, <1>3, <1>4, <2>1 DEF Searching, Apart
  <1>7. Rooted(t)
    BY <1>1, <1>3 DEF Searching, Rooted
  <1>8. Path(succ, t)
    <2> SUFFICES ASSUME NEW i \in 1..L PROVE t.stack[i + 1] \in ToSet(succ[t.stack[i]])
      BY <1>1, <1>3 DEF Path
    <2>1. CASE i = L
      BY <1>3, <2>1 DEF Last
    <2>2. CASE i # L
      <3>1. i \in 1..(L - 1) /\ i + 1 \in 1..L
        BY <1>1, <2>2
      <3> QED
        BY <1>3, <3>1 DEF Searching, Path
    <2> QED
      BY <2>1, <2>2
  <1>9. Complete(succ, t) /\ Followed(succ, t)
    BY <1>2, <1>5 DEF Searching, Complete, Followed
  <1>10. Counted(n + 1, t)
    <2>1. L + 2 * M = n + 1
      BY <1>1 DEF Searching, Counted
    <2>2. Len(t.stack) + 2 * Len(t.order) = (n + 1) + 1
      BY <1>c, <1>2, <1>3, <2>1
    <2> QED
      BY <2>2 DEF Counted
  <1>11. Searching(succ, n + 1, t)
    BY <1>2, <1>6, <1>7, <1>8, <1>9, <1>10 DEF Searching
  <1> QED
    BY <1>11 DEF t

LEMMA SearchPops ==
    ASSUME NEW succ, FlowGraph(succ), NEW n \in Nat, NEW s, Searching(succ, n, s), s.stack # <<>>,
           ToSet(succ[Last(s.stack)]) \subseteq ToSet(s.stack) \cup ToSet(s.order)
    PROVE  Searching(succ, n + 1, [stack |-> Front(s.stack), order |-> <<Last(s.stack)>> \o s.order])
  <1> DEFINE t == [stack |-> Front(s.stack), order |-> <<Last(s.stack)>> \o s.order]
  <1>s. s \in Search /\ s.stack \in Seq(Blocks) /\ s.order \in Seq(Blocks)
    BY DEF Searching, Search
  <1>l. PICK L \in Nat : L = Len(s.stack) /\ L > 0
    BY <1>s
  <1>m. PICK M \in Nat : M = Len(s.order)
    BY <1>s
  <1>c. L + 2 * M = n + 1 => (L - 1) + 2 * (M + 1) = (n + 1) + 1
    OBVIOUS
  <1>d. L > 0 /\ L # 1 => 1 \in 1..(L - 1) /\ L - 1 \in 1..(L - 1) /\ (L - 1) + 1 = L
    OBVIOUS
  <1>e. L > 0 => L \in 1..L /\ \A i \in 1..L : i = L \/ i \in 1..(L - 1)
    OBVIOUS
  <1>b. PICK b \in Blocks : b = s.stack[L]
    BY <1>s, <1>l
  <1>1. /\ s \in Search /\ s.stack \in Seq(Blocks) /\ s.order \in Seq(Blocks) /\ b = s.stack[L]
        /\ L = Len(s.stack) /\ L > 0 /\ M = Len(s.order) /\ L \in Nat /\ M \in Nat /\ b \in Blocks
    BY <1>s, <1>l, <1>m, <1>b
  <1> USE <1>1
  <1>2. t.stack = Front(s.stack) /\ t.order = <<b>> \o s.order
    BY <1>1 DEF Last
  <1>3. /\ t.stack \in Seq(Blocks) /\ Len(t.stack) = L - 1
        /\ \A i \in 1..(L - 1) : t.stack[i] = s.stack[i]
    BY <1>1, <1>2 DEF Front
  <1>4. /\ t.order \in Seq(Blocks) /\ Len(t.order) = M + 1 /\ t.order[1] = b /\ t.order # <<>>
        /\ \A i \in 1..M : t.order[i + 1] = s.order[i]
    BY <1>1, <1>2
  <1>5. t \in Search
    BY <1>3, <1>4 DEF Search
  <1>6. \A i \in 1..(M + 1) : i = 1 \/ (i - 1 \in 1..M /\ t.order[i] = s.order[i - 1])
    <2> TAKE i \in 1..(M + 1)
    <2>1. i = 1 \/ i - 1 \in 1..M
      BY <1>1
    <2>2. i \in Int /\ (i - 1) + 1 = i
      OBVIOUS
    <2> QED
      BY <1>4, <2>1, <2>2
  <1>7. \A i \in 1..(L - 1) : i \in 1..L /\ i # L
    BY <1>1
  <1> HIDE DEF t
  <1>8. ToSet(t.stack) \cup ToSet(t.order) = ToSet(s.stack) \cup ToSet(s.order)
    <2>1. ASSUME NEW x \in ToSet(t.stack) \cup ToSet(t.order) PROVE x \in ToSet(s.stack) \cup ToSet(s.order)
      <3>1. CASE x \in ToSet(t.stack)
        <4>1. PICK i \in 1..(L - 1) : x = t.stack[i]
          <5>1. DOMAIN t.stack = 1..(L - 1)
            BY <1>3
          <5> QED
            BY <3>1, <5>1 DEF ToSet
        <4>2. i \in DOMAIN s.stack /\ x = s.stack[i]
          BY <1>3, <1>7, <4>1
        <4> QED
          BY <4>2 DEF ToSet
      <3>2. CASE x \in ToSet(t.order)
        <4>1. PICK i \in 1..(M + 1) : x = t.order[i]
          <5>1. DOMAIN t.order = 1..(M + 1)
            BY <1>4
          <5> QED
            BY <3>2, <5>1 DEF ToSet
        <4>2. L \in 1..L
          BY <1>e
        <4> QED
          BY <1>1, <1>4, <1>6, <4>1, <4>2, SMTT(30) DEF ToSet
      <3> QED
        BY <2>1, <3>1, <3>2
    <2>2. ASSUME NEW x \in ToSet(s.stack) PROVE x \in ToSet(t.stack) \cup ToSet(t.order)
      <3>1. PICK i \in 1..L : x = s.stack[i]
        BY <1>1 DEF ToSet
      <3>2. i = L \/ i \in 1..(L - 1)
        BY <1>e
      <3>3. 1 \in 1..(M + 1)
        BY <1>1
      <3>4. CASE i = L
        BY <1>1, <1>4, <3>1, <3>3, <3>4 DEF ToSet
      <3>5. CASE i \in 1..(L - 1)
        BY <1>3, <3>1, <3>5 DEF ToSet
      <3> QED
        BY <3>2, <3>4, <3>5
    <2>3. ASSUME NEW x \in ToSet(s.order) PROVE x \in ToSet(t.stack) \cup ToSet(t.order)
      <3>1. PICK i \in 1..M : x = s.order[i]
        BY <1>1 DEF ToSet
      <3>2. i + 1 \in 1..(M + 1)
        OBVIOUS
      <3>3. DOMAIN t.order = 1..(M + 1) /\ t.order[i + 1] = x
        BY <1>4, <3>1
      <3> QED
        BY <3>2, <3>3 DEF ToSet
    <2> QED
      BY <2>1, <2>2, <2>3
  <1>9. Apart(t)
    <2>1. Distinct(t.stack)
      BY <1>3, <1>7 DEF Searching, Apart, Distinct
    <2>2. \A i \in 1..M : s.order[i] # b
      <3>1. L \in 1..L
        BY <1>1
      <3> QED
        BY <3>1 DEF Searching, Apart
    <2>3. Distinct(t.order)
      <3> SUFFICES ASSUME NEW i \in 1..(M + 1), NEW j \in 1..(M + 1), t.order[i] = t.order[j] PROVE i = j
        BY <1>4 DEF Distinct
      <3>1. CASE i = 1
        BY <1>4, <1>6, <2>2, <3>1
      <3>2. CASE j = 1
        BY <1>4, <1>6, <2>2, <3>2
      <3>3. CASE i # 1 /\ j # 1
        <4>1. i - 1 \in 1..M /\ j - 1 \in 1..M /\ s.order[i - 1] = s.order[j - 1]
          BY <1>6, <3>3
        <4>2. i - 1 = j - 1
          BY <4>1 DEF Searching, Apart, Distinct
        <4> QED
          BY <4>2
      <3> QED
        BY <3>1, <3>2, <3>3
    <2>4. ASSUME NEW i \in 1..(L - 1), NEW j \in 1..(M + 1) PROVE t.stack[i] # t.order[j]
      <3>1. i \in 1..L /\ L \in 1..L /\ i # L /\ t.stack[i] = s.stack[i]
        BY <1>1, <1>3
      <3>2. CASE j = 1
        BY <1>4, <3>1, <3>2 DEF Searching, Apart, Distinct
      <3>3. CASE j # 1
        BY <1>6, <3>1, <3>3 DEF Searching, Apart
      <3> QED
        BY <3>2, <3>3
    <2> QED
      BY <1>3, <1>4, <2>1, <2>3, <2>4 DEF Apart
  <1>10. Rooted(t)
    <2>1. s.stack[1] = 1
      BY DEF Searching, Rooted
    <2>2. CASE L = 1
      BY <1>4, <1>3, <2>1, <2>2 DEF Rooted
    <2>3. CASE L # 1
      <3>1. 1 \in 1..(L - 1)
        BY <1>d, <2>3
      <3>2. t.stack # <<>>
        BY <1>3, <3>1
      <3> QED
        BY <1>3, <2>1, <3>1, <3>2 DEF Rooted
    <2> QED
      BY <2>2, <2>3
  <1>11. Path(succ, t)
    <2> SUFFICES ASSUME NEW i \in 1..(L - 2) PROVE t.stack[i + 1] \in ToSet(succ[t.stack[i]])
      BY <1>1, <1>3 DEF Path
    <2>1. i \in 1..(L - 1) /\ i + 1 \in 1..(L - 1)
      BY <1>1
    <2> QED
      BY <1>3, <2>1 DEF Searching, Path
  <1>12. Complete(succ, t)
    <2> SUFFICES ASSUME NEW i \in 1..(M + 1) PROVE ToSet(succ[t.order[i]]) \subseteq ToSet(s.stack) \cup ToSet(s.order)
      BY <1>4, <1>8 DEF Complete
    <2>1. CASE i = 1
      BY <1>4, <2>1 DEF Last
    <2>2. CASE i # 1
      BY <1>6, <2>2 DEF Searching, Complete
    <2> QED
      BY <2>1, <2>2
  <1>13. Followed(succ, t)
    <2> SUFFICES ASSUME NEW i \in 1..(M + 1), t.order[i] # 1
                 PROVE  \/ \E p \in ToSet(t.stack) : t.order[i] \in ToSet(succ[p])
                        \/ \E j \in 1..(i - 1) : t.order[i] \in ToSet(succ[t.order[j]])
      BY <1>4 DEF Followed
    <2>1. CASE i = 1
      <3>1. L # 1
        BY <1>4, <2>1 DEF Searching, Rooted
      <3>2. L - 1 \in 1..(L - 1) /\ (L - 1) + 1 = L
        BY <1>d, <3>1
      <3>3. b \in ToSet(succ[s.stack[L - 1]])
        BY <3>2 DEF Searching, Path
      <3>4. t.stack[L - 1] = s.stack[L - 1] /\ t.stack[L - 1] \in ToSet(t.stack)
        BY <1>3, <3>2, SMTT(30) DEF ToSet
      <3> QED
        BY <1>4, <2>1, <3>3, <3>4
    <2>2. CASE i # 1
      <3> DEFINE k == i - 1
      <3>1. k \in 1..M /\ t.order[i] = s.order[k] /\ i = k + 1
        BY <1>6, <2>2
      <3>2. \/ \E p \in ToSet(s.stack) : s.order[k] \in ToSet(succ[p])
            \/ \E j \in 1..(k - 1) : s.order[k] \in ToSet(succ[s.order[j]])
        BY <3>1 DEF Searching, Followed
      <3> HIDE DEF k
      <3>3. CASE \E p \in ToSet(s.stack) : s.order[k] \in ToSet(succ[p])
        <4>0. PICK p \in ToSet(s.stack) : s.order[k] \in ToSet(succ[p])
          BY <3>3
        <4>1. PICK h \in 1..L : s.order[k] \in ToSet(succ[s.stack[h]])
          <5>1. PICK h \in 1..L : p = s.stack[h]
            BY <1>1 DEF ToSet
          <5> QED
            BY <4>0, <5>1
        <4>2. CASE h = L
          <5>1. 1 \in 1..(i - 1)
            BY <3>1
          <5> QED
            BY <1>4, <3>1, <4>1, <4>2, <5>1
        <4>3. CASE h # L
          <5>1. h \in 1..(L - 1)
            BY <1>1, <4>3
          <5>2. t.stack[h] = s.stack[h] /\ t.stack[h] \in ToSet(t.stack)
            BY <1>3, <5>1 DEF ToSet
          <5> QED
            BY <3>1, <4>1, <5>2
        <4> QED
          BY <4>2, <4>3
      <3>4. CASE \E j \in 1..(k - 1) : s.order[k] \in ToSet(succ[s.order[j]])
        <4>1. PICK j \in 1..(k - 1) : s.order[k] \in ToSet(succ[s.order[j]])
          BY <3>4
        <4>2. j \in 1..M /\ j + 1 \in 1..(i - 1)
          BY <1>1, <3>1
        <4> QED
          BY <1>4, <3>1, <4>1, <4>2
      <3> QED
        BY <3>2, <3>3, <3>4
    <2> QED
      BY <2>1, <2>2
  <1>14. Counted(n + 1, t)
    <2>1. L + 2 * M = n + 1
      BY <1>1 DEF Searching, Counted
    <2>2. Len(t.stack) + 2 * Len(t.order) = (n + 1) + 1
      BY <1>c, <1>3, <1>4, <2>1
    <2> QED
      BY <2>2 DEF Counted
  <1>15. Searching(succ, n + 1, t)
    BY <1>5, <1>9, <1>10, <1>11, <1>12, <1>13, <1>14 DEF Searching
  <1> QED
    BY <1>15 DEF t

LEMMA SearchStep ==
    ASSUME NEW succ, FlowGraph(succ), NEW n \in Nat, NEW s, Searching(succ, n, s)
    PROVE  Searching(succ, n + 1, Visit(succ, s))
  <1>1. s \in Search /\ s.stack \in Seq(Blocks) /\ s.order \in Seq(Blocks)
    BY DEF Searching, Search
  <1>2. CASE s.stack = <<>>
    <2>1. Visit(succ, s) = s
      BY <1>2 DEF Visit
    <2>2. Counted(n + 1, s)
      BY <1>2 DEF Counted
    <2> QED
      BY <2>1, <2>2 DEF Searching
  <1>3. CASE s.stack # <<>>
    <2> DEFINE b == Last(s.stack)
               unseen == {i \in DOMAIN succ[b] : succ[b][i] \notin ToSet(s.stack) \cup ToSet(s.order)}
               last == CHOOSE i \in unseen : \A j \in unseen : j <= i
    <2>1. b \in Blocks
      BY <1>1, <1>3 DEF Last
    <2>2. /\ succ[b] \in Seq(Blocks) /\ DOMAIN succ[b] = 1..Len(succ[b]) /\ Len(succ[b]) \in Nat /\ Len(succ[b]) <= 2
          /\ \A i \in 1..Len(succ[b]) : succ[b][i] \in Blocks
      BY <2>1, FlowGraphFacts
    <2>3. CASE unseen = {}
      <3>1. Visit(succ, s) = [stack |-> Front(s.stack), order |-> <<b>> \o s.order]
        BY <1>3, <2>3 DEF Visit
      <3>2. ToSet(succ[b]) \subseteq ToSet(s.stack) \cup ToSet(s.order)
        BY <2>3 DEF ToSet
      <3> QED
        BY <1>3, <3>1, <3>2, SearchPops
    <2>4. CASE unseen # {}
      <3>1. Visit(succ, s) = [s EXCEPT !.stack = Append(@, succ[b][last])]
        BY <1>3, <2>4 DEF Visit
      <3>2. \E i \in unseen : \A j \in unseen : j <= i
        <4>1. \A i \in unseen : i = 1 \/ i = 2
          BY <2>2
        <4> HIDE DEF unseen
        <4> QED
          BY <2>4, <4>1
      <3>3. last \in unseen
        <4> HIDE DEF unseen
        <4> QED
          BY <3>2
      <3> HIDE DEF last
      <3>4. last \in DOMAIN succ[b] /\ succ[b][last] \notin ToSet(s.stack) \cup ToSet(s.order)
        BY <3>3
      <3>5. succ[b][last] \in Blocks /\ succ[b][last] \in ToSet(succ[b])
        BY <2>2, <3>4 DEF ToSet
      <3>6. PICK c \in Blocks : c = succ[b][last]
        BY <3>5
      <3>7. c \in ToSet(succ[Last(s.stack)]) /\ c \notin ToSet(s.stack) \cup ToSet(s.order)
        BY <3>4, <3>5, <3>6
      <3>8. Searching(succ, n + 1, [s EXCEPT !.stack = Append(@, c)])
        BY <1>3, <3>7, SearchPushes
      <3> QED
        BY <3>1, <3>6, <3>8
    <2> QED
      BY <2>3, <2>4
  <1> QED
    BY <1>2, <1>3

\* Blocks on the stack and in the order are different, so there are at most Size of them.
LEMMA SearchBounded ==
    ASSUME NEW s \in Search, Apart(s)
    PROVE  Len(s.stack) + Len(s.order) <= Size
  <1>s. s.stack \in Seq(Blocks) /\ s.order \in Seq(Blocks)
    BY DEF Search
  <1>l. PICK L \in Nat : L = Len(s.stack)
    BY <1>s
  <1>m. PICK M \in Nat : M = Len(s.order)
    BY <1>s
  <1>2. \A k \in 1..(L + M) : IF k <= L THEN k \in 1..L ELSE k - L \in 1..M
    OBVIOUS
  <1>c. Cardinality(1..(L + M)) = L + M
    <2>1. 1 \in Int /\ L + M \in Int
      OBVIOUS
    <2>2. Cardinality(1..(L + M)) = IF 1 > L + M THEN 0 ELSE (L + M) - 1 + 1
      BY <2>1, FS_Interval
    <2> QED
      BY <2>2
  <1> DEFINE f == [k \in 1..(L + M) |-> IF k <= L THEN s.stack[k] ELSE s.order[k - L]]
  <1>1. s.stack \in Seq(Blocks) /\ s.order \in Seq(Blocks) /\ L = Len(s.stack) /\ M = Len(s.order) /\ Size \in Nat /\ L \in Nat /\ M \in Nat
    BY <1>s, <1>l, <1>m, BoundsAssumption DEF BoundsAssumption
  <1> USE <1>1
  <1>3. f \in [1..(L + M) -> Blocks]
    <2> SUFFICES ASSUME NEW k \in 1..(L + M) PROVE (IF k <= L THEN s.stack[k] ELSE s.order[k - L]) \in Blocks
      OBVIOUS
    <2>1. IF k <= L THEN k \in 1..L ELSE k - L \in 1..M
      BY <1>2
    <2> QED
      BY <1>1, <2>1
  <1>4. ASSUME NEW j \in 1..(L + M), NEW k \in 1..(L + M), f[j] = f[k] PROVE j = k
    <2>1. CASE j <= L /\ k <= L
      BY <1>1, <1>2, <1>4, <2>1 DEF Apart, Distinct
    <2>2. CASE ~(j <= L) /\ ~(k <= L)
      <3>1. j - L \in 1..M /\ k - L \in 1..M /\ s.order[j - L] = s.order[k - L]
        BY <1>2, <1>4, <2>2
      <3>2. j - L = k - L
        BY <3>1 DEF Apart, Distinct
      <3> QED
        BY <1>1, <3>2
    <2>3. CASE j <= L /\ ~(k <= L)
      BY <1>1, <1>2, <1>4, <2>3 DEF Apart
    <2>4. CASE ~(j <= L) /\ k <= L
      BY <1>1, <1>2, <1>4, <2>4 DEF Apart
    <2> QED
      BY <2>1, <2>2, <2>3, <2>4
  <1>5. f \in Injection(1..(L + M), Blocks)
    BY <1>3, <1>4 DEF Injection, IsInjective
  <1>6. IsFiniteSet(Blocks) /\ Cardinality(Blocks) = Size
    BY <1>1, FS_Interval DEF Blocks
  <1>7. Cardinality(1..(L + M)) <= Size
    <2> HIDE DEF f
    <2> QED
      BY <1>5, <1>6, FS_Injection
  <1> QED
    BY <1>1, <1>7, <1>c

\* The order starts with the entry, has no block twice, holds the successors of its
\* blocks, and puts before each other block one of its predecessors.
Ordered(succ, order) ==
    /\ order \in Seq(Blocks) /\ order # <<>> /\ Distinct(order)
    /\ order[1] = 1
    /\ \A i \in 1..Len(order) : ToSet(succ[order[i]]) \subseteq ToSet(order)
    /\ \A i \in 2..Len(order) : \E j \in 1..(i - 1) : order[i] \in ToSet(succ[order[j]])

THEOREM SortOrders ==
    ASSUME NEW succ, FlowGraph(succ)
    PROVE  Ordered(succ, TopologicalSort(succ))
  <1> DEFINE N == 2 * Size
             start == [stack |-> <<1>>, order |-> <<>>]
             V == {s \in Search : Apart(s) /\ Rooted(s) /\ Path(succ, s) /\ Complete(succ, s) /\ Followed(succ, s)}
             step == [n \in 1..N |-> [s \in V |-> Visit(succ, s)]]
             F == CHOOSE f : f = [n \in 0..N |-> IF n = 0 THEN start ELSE Visit(succ, f[n - 1])]
  <1>1. N \in Nat /\ Size \in Nat
    BY BoundsAssumption DEF BoundsAssumption
  <1>2. start \in V
    BY SearchStarts DEF Searching
  <1>3. ASSUME NEW s \in V PROVE Visit(succ, s) \in V
    <2>1. s.stack \in Seq(Blocks) /\ s.order \in Seq(Blocks)
      BY DEF Search
    <2>2. PICK L \in Nat, M \in Nat : L = Len(s.stack) /\ M = Len(s.order)
      BY <2>1
    <2>3. CASE s.stack = <<>>
      BY <2>3 DEF Visit
    <2>4. CASE s.stack # <<>>
      <3>1. L # 0
        BY <2>1, <2>2, <2>4
      <3>2. PICK n \in Nat : L + 2 * M = n + 1
        <4>1. (L + 2 * M) - 1 \in Nat /\ L + 2 * M = ((L + 2 * M) - 1) + 1
          BY <3>1
        <4> QED
          BY <4>1
      <3>3. Searching(succ, n, s)
        BY <2>2, <3>2 DEF Searching, Counted
      <3>4. Searching(succ, n + 1, Visit(succ, s))
        BY <3>3, SearchStep
      <3> QED
        BY <3>4 DEF Searching
    <2> QED
      BY <2>3, <2>4
  <1>4. step \in [1..N -> [V -> V]]
    <2> HIDE DEF V
    <2> QED
      BY <1>3
  <1>5. PICK g \in [0..N -> V] : Steps(N, start, step, g)
    <2> HIDE DEF step, N, V, start
    <2> QED
      BY <1>1, <1>2, <1>4, Iteration
  <1>6. g = [n \in 0..N |-> IF n = 0 THEN start ELSE Visit(succ, g[n - 1])]
    <2>1. ASSUME NEW n \in 1..N PROVE g[n] = Visit(succ, g[n - 1])
      <3>1. n - 1 \in 0..N
        BY <1>1
      <3>2. g[n - 1] \in V
        <4> HIDE DEF V
        <4> QED
          BY <3>1
      <3>3. g[n] = step[n][g[n - 1]]
        BY <1>5 DEF Steps
      <3> HIDE DEF V
      <3> QED
        BY <3>2, <3>3
    <2>2. g[0] = start
      BY <1>5 DEF Steps
    <2> HIDE DEF V, start
    <2> QED
      BY <1>1, <2>1, <2>2
  <1>7. F = [n \in 0..N |-> IF n = 0 THEN start ELSE Visit(succ, F[n - 1])]
    <2> HIDE DEF V, start
    <2> QED
      BY <1>6
  <1>8. TopologicalSort(succ) = F[N].order
    BY DEF TopologicalSort
  <1> HIDE DEF F
  <1>9. F[0] = start /\ \A n \in 1..N : F[n] = Visit(succ, F[n - 1])
    <2>1. 0 \in 0..N /\ \A n \in 1..N : n \in 0..N /\ n # 0
      BY <1>1
    <2> HIDE DEF start
    <2> QED
      BY <1>7, <2>1
  <1> DEFINE T == {n \in 0..N : Searching(succ, n, F[n])}
  <1>10. 0 \in T
    <2>1. Searching(succ, 0, F[0])
      BY <1>9, SearchStarts
    <2> QED
      BY <1>1, <2>1
  <1>11. ASSUME NEW n \in 1..N, (n - 1) \in T PROVE n \in T
    <2>1. n \in 0..N /\ n - 1 \in Nat /\ (n - 1) + 1 = n
      BY <1>1
    <2>2. Searching(succ, n - 1, F[n - 1])
      BY <1>11
    <2>3. Searching(succ, n, Visit(succ, F[n - 1]))
      BY <2>1, <2>2, SearchStep
    <2> QED
      BY <1>9, <2>1, <2>3
  <1>12. N \in T
    <2> HIDE DEF T, N
    <2>1. Climbs(N, T)
      BY <1>10, <1>11 DEF Climbs
    <2> QED
      BY <1>1, <2>1, Climb
  <1>13. PICK s : s = F[N]
    OBVIOUS
  <1>14. Searching(succ, N, s)
    BY <1>12, <1>13
  <1>15. s.stack = <<>>
    <2>1. s \in Search /\ Apart(s) /\ Counted(N, s)
      BY <1>14 DEF Searching
    <2>2. Len(s.stack) + Len(s.order) <= Size
      BY <2>1, SearchBounded
    <2>3. Len(s.stack) \in Nat /\ Len(s.order) \in Nat /\ s.stack \in Seq(Blocks)
      BY <2>1 DEF Search
    <2> QED
      BY <1>1, <2>1, <2>2, <2>3, SMTT(30) DEF Counted
  <1>16. s.order \in Seq(Blocks) /\ s.order # <<>> /\ Distinct(s.order) /\ s.order[1] = 1
    BY <1>14, <1>15 DEF Searching, Search, Apart, Rooted
  <1>17. ToSet(s.stack) = {}
    BY <1>15 DEF ToSet
  <1>18. \A i \in 1..Len(s.order) : ToSet(succ[s.order[i]]) \subseteq ToSet(s.order)
    BY <1>14, <1>17 DEF Searching, Complete
  <1>19. ASSUME NEW i \in 2..Len(s.order) PROVE \E j \in 1..(i - 1) : s.order[i] \in ToSet(succ[s.order[j]])
    <2>1. i \in 1..Len(s.order) /\ 1 \in 1..Len(s.order) /\ i # 1
      BY <1>16
    <2>2. s.order[i] # 1
      BY <1>16, <2>1 DEF Distinct
    <2> QED
      BY <1>14, <1>17, <2>1, <2>2 DEF Searching, Followed
  <1>20. Ordered(succ, s.order)
    BY <1>16, <1>18, <1>19 DEF Ordered
  <1> QED
    BY <1>8, <1>13, <1>20

(***************************************************************************)
(* The inductive invariant.                                                *)
(***************************************************************************)
BlockOrder == TopologicalSort(successors)
Ranges == {r \in [lo : 0..Largest, hi : 0..Largest] : r.lo <= r.hi}
AbstractStates == [reachable : BOOLEAN, bit : BOOLEAN, pos : SUBSET Blocks, range : Ranges]
Effect(b) == PropagateExpressionEffect(entrySets[b], b)

ProgramOK ==
    /\ analysis \in Analyses
    /\ FlowGraph(successors)
    /\ statement \in [Blocks -> Statements]
    /\ tested \in BOOLEAN /\ (analysis # "range-analysis" => tested = FALSE)

StateOK ==
    /\ worklist \in Seq(Blocks) /\ Distinct(worklist) /\ ToSet(worklist) \subseteq ToSet(BlockOrder)
    /\ entrySets \in [Blocks -> AbstractStates]
    /\ inqueueTimes \in [Blocks -> Nat]
    /\ entrySets[1] = EntryState(analysis)
    /\ \A b \in Blocks : entrySets[b].reachable => b \in ToSet(BlockOrder)
    /\ \A b \in Blocks : ~entrySets[b].reachable => inqueueTimes[b] = 0

\* A block the gen-kill analyses have not reached waits behind a predecessor.
Awaited ==
    analysis # "range-analysis" =>
        \A b \in ToSet(BlockOrder) : entrySets[b].reachable
            \/ \E i, j \in 1..Len(worklist) : j < i /\ worklist[i] = b /\ b \in ToSet(successors[worklist[j]])

\* What s says holds for t as well.
Absorbs(s, t) ==
    /\ s.reachable
    /\ analysis = "range-analysis" => s.range.lo <= t.range.lo /\ t.range.hi <= s.range.hi
    /\ analysis # "range-analysis" => (t.bit => s.bit)

\* The successors of a block that does not wait know what it sends.
Settled ==
    \A b \in Blocks : entrySets[b].reachable /\ b \notin ToSet(worklist) =>
        \A c \in TargetSucc(Effect(b), b) : Absorbs(entrySets[c], Effect(b))

\* Without loops the blocks that wait are the last ones of the order.
InSequence ==
    LoopFree => /\ Len(worklist) <= Len(BlockOrder)
                /\ \A i \in 1..Len(worklist) : worklist[i] = BlockOrder[(Len(BlockOrder) - Len(worklist)) + i]

PlacesSettled ==
    LoopFree /\ analysis # "range-analysis" =>
        \A b \in Blocks : entrySets[b].reachable /\ b \notin ToSet(worklist) =>
            \A c \in ToSet(successors[b]) : Effect(b).pos \subseteq entrySets[c].pos

\* A visit that is due.
Due(b) == IF b \in ToSet(worklist) /\ entrySets[b].reachable THEN 1 ELSE 0
Sent(b) == {v \in Blocks \X (1..3) : b \in ToSet(successors[v[1]]) /\ v[2] <= inqueueTimes[v[1]]}
RangeVisits ==
    analysis = "range-analysis" =>
        /\ inqueueTimes[1] + Due(1) <= 1
        /\ \A b \in Blocks \ {1} :
              inqueueTimes[b] + Due(b)
                  <= Cardinality(Sent(b)) + (IF entrySets[b].reachable /\ entrySets[b].range = Top THEN 1 ELSE 0)
BitVisits ==
    analysis # "range-analysis" =>
        \A b \in Blocks : inqueueTimes[b] + Due(b) <= IF entrySets[b].bit THEN 2 ELSE 1

-----------------------------------------------------------------------------
(* The abstract states, field by field.                                    *)

LEMMA ProgramFacts ==
    ASSUME ProgramOK
    PROVE  /\ Size \in Nat /\ Size > 1 /\ Largest \in Nat /\ Largest > 0 /\ 1 \in Blocks /\ Blocks = 1..Size
           /\ analysis \in {"maybe-init", "maybe-uninit", "range-analysis"}
           /\ \A b \in Blocks : statement[b] \in {"none", "store", "other"}
           /\ Top \in Ranges /\ [lo |-> 0, hi |-> 0] \in Ranges
           /\ Ordered(successors, BlockOrder)
  <1>1. Size \in Nat /\ Size > 1 /\ Largest \in Nat /\ Largest > 0 /\ 1 \in Blocks /\ Blocks = 1..Size
    BY BoundsAssumption DEF BoundsAssumption, Blocks
  <1>2. Top \in Ranges /\ [lo |-> 0, hi |-> 0] \in Ranges
    BY <1>1 DEF Top, Ranges
  <1>3. Ordered(successors, BlockOrder)
    BY SortOrders DEF ProgramOK, BlockOrder
  <1> QED
    BY <1>1, <1>2, <1>3 DEF ProgramOK, Analyses, Statements

LEMMA IncrementRange ==
    ASSUME ProgramOK, NEW r \in Ranges
    PROVE  Increment(r) \in Ranges
  <1>1. Largest \in Nat /\ Top \in Ranges
    BY ProgramFacts
  <1>2. r.lo \in 0..Largest /\ r.hi \in 0..Largest /\ r.lo <= r.hi
    BY DEF Ranges
  <1>3. CASE r.hi # Largest
    <2>1. r.lo + 1 \in 0..Largest /\ r.hi + 1 \in 0..Largest /\ r.lo + 1 <= r.hi + 1
      BY <1>1, <1>2, <1>3
    <2>2. Increment(r) = [lo |-> r.lo + 1, hi |-> r.hi + 1]
      BY <1>3 DEF Increment
    <2> QED
      BY <2>1, <2>2 DEF Ranges
  <1> QED
    BY <1>1, <1>3 DEF Increment

\* The fields of an abstract state that changes in one of them.
LEMMA StateFields ==
    ASSUME NEW s \in AbstractStates
    PROVE  /\ s.reachable \in BOOLEAN /\ s.bit \in BOOLEAN /\ s.pos \in SUBSET Blocks /\ s.range \in Ranges
           /\ s = [reachable |-> s.reachable, bit |-> s.bit, pos |-> s.pos, range |-> s.range]
  BY DEF AbstractStates

RangeAfter(s, b) ==
    IF statement[b] = "none" THEN s.range
    ELSE IF statement[b] = "store" THEN [lo |-> 0, hi |-> 0] ELSE Increment(s.range)
BitAfter(s, b) ==
    IF statement[b] = "none" THEN s.bit
    ELSE IF analysis = "maybe-init" THEN statement[b] = "store" ELSE statement[b] = "other"
PosAfter(s, b) ==
    IF analysis = "maybe-uninit" /\ statement[b] = "store" THEN s.pos \cup {b} ELSE s.pos

LEMMA EffectFields ==
    ASSUME ProgramOK, NEW s \in AbstractStates, NEW b \in Blocks, NEW e, e = PropagateExpressionEffect(s, b)
    PROVE  /\ e \in AbstractStates /\ e.reachable = s.reachable
           /\ analysis = "range-analysis" => e.bit = s.bit /\ e.pos = s.pos /\ e.range = RangeAfter(s, b)
           /\ analysis # "range-analysis" => e.bit = BitAfter(s, b) /\ e.pos = PosAfter(s, b) /\ e.range = s.range
  <1>1. /\ s.reachable \in BOOLEAN /\ s.bit \in BOOLEAN /\ s.pos \in SUBSET Blocks /\ s.range \in Ranges
        /\ s = [reachable |-> s.reachable, bit |-> s.bit, pos |-> s.pos, range |-> s.range]
    BY StateFields
  <1>2. /\ analysis \in {"maybe-init", "maybe-uninit", "range-analysis"}
        /\ statement[b] \in {"none", "store", "other"} /\ [lo |-> 0, hi |-> 0] \in Ranges
    BY ProgramFacts
  <1>3. Increment(s.range) \in Ranges
    BY <1>1, IncrementRange
  <1>4. CASE statement[b] = "none"
    <2>1. e = s
      BY <1>4 DEF PropagateExpressionEffect
    <2> QED
      BY <1>4, <2>1 DEF RangeAfter, BitAfter, PosAfter
  <1>5. CASE analysis = "maybe-init" /\ statement[b] # "none"
    <2>1. e = [s EXCEPT !.bit = statement[b] = "store"]
      BY <1>5 DEF PropagateExpressionEffect
    <2>2. PICK v \in BOOLEAN : v = (statement[b] = "store")
      OBVIOUS
    <2>3. e = [reachable |-> s.reachable, bit |-> v, pos |-> s.pos, range |-> s.range]
      BY <1>1, <2>1, <2>2
    <2>4. e \in AbstractStates
      BY <1>1, <2>3 DEF AbstractStates
    <2>5. e.reachable = s.reachable /\ e.bit = v /\ e.pos = s.pos /\ e.range = s.range
      BY <2>3
    <2> QED
      BY <1>5, <2>2, <2>4, <2>5 DEF BitAfter, PosAfter
  <1>6. CASE analysis = "maybe-uninit" /\ statement[b] = "store"
    <2>1. e = [s EXCEPT !.bit = FALSE, !.pos = @ \cup {b}]
      BY <1>6 DEF PropagateExpressionEffect
    <2>2. PICK p \in SUBSET Blocks : p = s.pos \cup {b}
      BY <1>1
    <2>3. e = [reachable |-> s.reachable, bit |-> FALSE, pos |-> p, range |-> s.range]
      BY <1>1, <2>1, <2>2
    <2>4. e \in AbstractStates
      BY <1>1, <2>3 DEF AbstractStates
    <2>5. e.reachable = s.reachable /\ e.bit = FALSE /\ e.pos = p /\ e.range = s.range
      BY <2>3
    <2>6. BitAfter(s, b) = FALSE
      BY <1>6 DEF BitAfter
    <2> QED
      BY <1>6, <2>2, <2>4, <2>5, <2>6 DEF PosAfter
  <1>7. CASE analysis = "maybe-uninit" /\ statement[b] = "other"
    <2>1. e = [s EXCEPT !.bit = TRUE]
      BY <1>7 DEF PropagateExpressionEffect
    <2>3. e = [reachable |-> s.reachable, bit |-> TRUE, pos |-> s.pos, range |-> s.range]
      BY <1>1, <2>1
    <2>4. e \in AbstractStates
      BY <1>1, <2>3 DEF AbstractStates
    <2>5. e.reachable = s.reachable /\ e.bit = TRUE /\ e.pos = s.pos /\ e.range = s.range
      BY <2>3
    <2>6. BitAfter(s, b) = TRUE
      BY <1>7 DEF BitAfter
    <2> QED
      BY <1>7, <2>4, <2>5, <2>6 DEF PosAfter
  <1>8. CASE analysis = "range-analysis" /\ statement[b] # "none"
    <2>1. PICK r \in Ranges : r = RangeAfter(s, b)
      BY <1>2, <1>3, <1>8 DEF RangeAfter
    <2>2. CASE statement[b] = "store"
      <3>1. e = [s EXCEPT !.range = [lo |-> 0, hi |-> 0]]
        BY <1>8, <2>2 DEF PropagateExpressionEffect
      <3>2. r = [lo |-> 0, hi |-> 0]
        BY <2>1, <2>2 DEF RangeAfter
      <3>3. e = [s EXCEPT !.range = r]
        BY <3>1, <3>2
      <3>4. e = [reachable |-> s.reachable, bit |-> s.bit, pos |-> s.pos, range |-> r]
        BY <1>1, <3>3
      <3>5. e \in AbstractStates
        BY <1>1, <3>4 DEF AbstractStates
      <3> QED
        BY <1>8, <2>1, <3>4, <3>5
    <2>3. CASE statement[b] = "other"
      <3>1. e = [s EXCEPT !.range = Increment(@)]
        BY <1>8, <2>3 DEF PropagateExpressionEffect
      <3>2. r = Increment(s.range)
        BY <2>1, <2>3 DEF RangeAfter
      <3>3. e = [s EXCEPT !.range = r]
        BY <3>1, <3>2
      <3>4. e = [reachable |-> s.reachable, bit |-> s.bit, pos |-> s.pos, range |-> r]
        BY <1>1, <3>3
      <3>5. e \in AbstractStates
        BY <1>1, <3>4 DEF AbstractStates
      <3> QED
        BY <1>8, <2>1, <3>4, <3>5
    <2> QED
      BY <1>2, <1>8, <2>2, <2>3
  <1> QED
    BY <1>2, <1>4, <1>5, <1>6, <1>7, <1>8

Hull(r, q) ==
    [lo |-> IF r.lo <= q.lo THEN r.lo ELSE q.lo, hi |-> IF r.hi >= q.hi THEN r.hi ELSE q.hi]

LEMMA HullFacts ==
    ASSUME ProgramOK, NEW r \in Ranges, NEW q \in Ranges
    PROVE  /\ Hull(r, q) \in Ranges
           /\ Hull(r, q).lo <= r.lo /\ Hull(r, q).lo <= q.lo /\ r.hi <= Hull(r, q).hi /\ q.hi <= Hull(r, q).hi
           /\ q = Top \/ r = Top => Hull(r, q) = Top
  <1>1. Largest \in Nat
    BY ProgramFacts
  <1>2. /\ r.lo \in 0..Largest /\ r.hi \in 0..Largest /\ r.lo <= r.hi
        /\ q.lo \in 0..Largest /\ q.hi \in 0..Largest /\ q.lo <= q.hi
    BY DEF Ranges
  <1>3. PICK l \in 0..Largest, h \in 0..Largest :
            l = (IF r.lo <= q.lo THEN r.lo ELSE q.lo) /\ h = (IF r.hi >= q.hi THEN r.hi ELSE q.hi)
    BY <1>2
  <1>4. l <= r.lo /\ l <= q.lo /\ r.hi <= h /\ q.hi <= h /\ l <= h
    BY <1>1, <1>2, <1>3
  <1>5. Hull(r, q) = [lo |-> l, hi |-> h]
    BY <1>3 DEF Hull
  <1>6. [lo |-> l, hi |-> h] \in Ranges
    BY <1>4 DEF Ranges
  <1>7. q = Top \/ r = Top => l = 0 /\ h = Largest
    BY <1>1, <1>2, <1>4 DEF Top
  <1> QED
    BY <1>4, <1>5, <1>6, <1>7 DEF Top

LEMMA JoinedFields ==
    ASSUME ProgramOK, NEW s \in AbstractStates, NEW t \in AbstractStates, t.reachable, NEW j, j = Joined(s, t)
    PROVE  /\ j \in AbstractStates /\ j.reachable
           /\ analysis = "range-analysis" /\ ~s.reachable => j = t
           /\ analysis = "range-analysis" /\ s.reachable =>
                 j.bit = s.bit /\ j.pos = s.pos /\ j.range = Hull(s.range, t.range)
           /\ analysis # "range-analysis" =>
                 j.bit = (s.bit \/ t.bit) /\ j.pos = s.pos \cup t.pos /\ j.range = s.range
  <1>1. /\ s.reachable \in BOOLEAN /\ s.bit \in BOOLEAN /\ s.pos \in SUBSET Blocks /\ s.range \in Ranges
        /\ s = [reachable |-> s.reachable, bit |-> s.bit, pos |-> s.pos, range |-> s.range]
    BY StateFields
  <1>2. t.reachable \in BOOLEAN /\ t.bit \in BOOLEAN /\ t.pos \in SUBSET Blocks /\ t.range \in Ranges
    BY StateFields
  <1>3. CASE analysis = "range-analysis" /\ ~s.reachable
    <2>1. j = t
      BY <1>3 DEF Joined
    <2> QED
      BY <1>3, <2>1
  <1>4. CASE analysis = "range-analysis" /\ s.reachable
    <2>1. PICK h \in Ranges : h = Hull(s.range, t.range)
      BY <1>1, <1>2, HullFacts
    <2>2. j = [s EXCEPT !.range = Hull(s.range, t.range)]
      BY <1>4 DEF Joined, Hull
    <2>3. j = [s EXCEPT !.range = h]
      BY <2>1, <2>2
    <2>4. j = [reachable |-> s.reachable, bit |-> s.bit, pos |-> s.pos, range |-> h]
      BY <1>1, <2>3
    <2>5. j \in AbstractStates
      BY <1>1, <2>4 DEF AbstractStates
    <2> QED
      BY <1>4, <2>1, <2>4, <2>5
  <1>5. CASE analysis # "range-analysis"
    <2>1. PICK v \in BOOLEAN : v = (s.bit \/ t.bit)
      BY <1>1, <1>2
    <2>2. PICK p \in SUBSET Blocks : p = s.pos \cup t.pos
      BY <1>1, <1>2
    <2>3. j = [s EXCEPT !.reachable = TRUE, !.bit = @ \/ t.bit, !.pos = @ \cup t.pos]
      BY <1>5 DEF Joined
    <2>4. j = [reachable |-> TRUE, bit |-> v, pos |-> p, range |-> s.range]
      BY <1>1, <2>1, <2>2, <2>3
    <2>5. j \in AbstractStates
      BY <1>1, <2>4 DEF AbstractStates
    <2>6. j.reachable = TRUE /\ j.bit = v /\ j.pos = p /\ j.range = s.range
      BY <2>4
    <2> QED
      BY <1>5, <2>1, <2>2, <2>5, <2>6
  <1> QED
    BY <1>1, <1>3, <1>4, <1>5

-----------------------------------------------------------------------------
(* One iteration of the loop.                                              *)

LEMMA ChangedFacts ==
    ASSUME ProgramOK, NEW s \in AbstractStates, NEW t \in AbstractStates, t.reachable
    PROVE  /\ analysis = "range-analysis" => (HasChanged(s, t) <=> Joined(s, t) # s)
           /\ analysis = "range-analysis" /\ ~HasChanged(s, t) => s.reachable
           /\ analysis # "range-analysis" => (HasChanged(s, t) <=> t.bit /\ ~s.bit)
  <1>1. s.bit \in BOOLEAN /\ t.bit \in BOOLEAN
    BY StateFields
  <1>2. PICK j : j = Joined(s, t)
    OBVIOUS
  <1>3. /\ j.reachable
        /\ analysis # "range-analysis" => j.bit = (s.bit \/ t.bit)
    BY <1>2, JoinedFields
  <1>4. HasChanged(s, t) <=> IF analysis = "range-analysis" THEN j # s ELSE j.bit # s.bit
    BY <1>2 DEF HasChanged
  <1> QED
    BY <1>1, <1>2, <1>3, <1>4

LEMMA ExitFields ==
    ASSUME ProgramOK, StateOK, NEW b \in Blocks, NEW x, x = ExitState(b), NEW e, e = Effect(b)
    PROVE  /\ e \in AbstractStates /\ x \in AbstractStates
           /\ e.reachable = entrySets[b].reachable /\ x.reachable = e.reachable
           /\ x.bit = e.bit /\ x.pos = e.pos
           /\ x.range = IF GivesUp(b) THEN Top ELSE e.range
  <1>1. entrySets[b] \in AbstractStates /\ Top \in Ranges
    BY ProgramFacts DEF StateOK
  <1>2. e \in AbstractStates /\ e.reachable = entrySets[b].reachable
    BY <1>1, EffectFields DEF Effect
  <1>3. x = IF GivesUp(b) THEN [e EXCEPT !.range = Top] ELSE e
    BY DEF ExitState, Effect
  <1>4. /\ e.reachable \in BOOLEAN /\ e.bit \in BOOLEAN /\ e.pos \in SUBSET Blocks
        /\ e = [reachable |-> e.reachable, bit |-> e.bit, pos |-> e.pos, range |-> e.range]
    BY <1>2, StateFields
  <1>5. CASE GivesUp(b)
    <2>1. PICK r \in Ranges : r = Top
      BY <1>1
    <2>2. x = [e EXCEPT !.range = r]
      BY <1>3, <1>5, <2>1
    <2>3. x = [reachable |-> e.reachable, bit |-> e.bit, pos |-> e.pos, range |-> r]
      BY <1>4, <2>2
    <2>4. x \in AbstractStates
      BY <1>4, <2>3 DEF AbstractStates
    <2> QED
      BY <1>2, <1>5, <2>1, <2>3, <2>4
  <1>6. CASE ~GivesUp(b)
    BY <1>2, <1>3, <1>6
  <1> QED
    BY <1>5, <1>6

LEMMA TargetFacts ==
    ASSUME ProgramOK, NEW b \in Blocks, NEW s
    PROVE  /\ TargetSucc(s, b) \subseteq ToSet(successors[b])
           /\ analysis # "range-analysis" => TargetSucc(s, b) = ToSet(successors[b])
           /\ TargetSucc(Effect(b), b) \subseteq Targets(b)
           /\ Targets(b) \subseteq ToSet(successors[b])
           /\ analysis # "range-analysis" => Targets(b) = ToSet(successors[b])
           /\ ToSet(successors[b]) \subseteq Blocks \ {1}
  <1>1. /\ successors[b] \in Seq(Blocks) /\ \A i \in 1..Len(successors[b]) : successors[b][i] \in Blocks \ {1}
        /\ DOMAIN successors[b] = 1..Len(successors[b]) /\ Len(successors[b]) \in Nat
    BY FlowGraphFacts DEF ProgramOK
  <1>2. ASSUME NEW t PROVE TargetSucc(t, b) \subseteq ToSet(successors[b])
    <2>1. CASE Len(successors[b]) < 2
      BY <2>1 DEF TargetSucc, ToSet
    <2>2. CASE ~(Len(successors[b]) < 2)
      <3>1. 1 \in DOMAIN successors[b] /\ 2 \in DOMAIN successors[b]
        BY <1>1, <2>2
      <3> QED
        BY <3>1 DEF TargetSucc, ToSet
    <2> QED
      BY <2>1, <2>2
  <1>3. analysis # "range-analysis" => \A t : TargetSucc(t, b) = ToSet(successors[b])
    BY DEF TargetSucc, ToSet
  <1>4. /\ GivesUp(b) => Targets(b) = ToSet(successors[b])
        /\ ~GivesUp(b) => Targets(b) = TargetSucc(Effect(b), b)
    BY DEF Targets, Effect, ToSet
  <1>5. ToSet(successors[b]) \subseteq Blocks \ {1}
    BY <1>1 DEF ToSet
  <1> QED
    BY <1>2, <1>3, <1>4, <1>5

\* The first block that waits is dropped or processed.
Drop(b) ==
    /\ b \in Blocks /\ worklist # <<>> /\ worklist[1] = b /\ ~entrySets[b].reachable
    /\ worklist' = Tail(worklist) /\ UNCHANGED <<program, entrySets, inqueueTimes>>

Process(b, x, T) ==
    /\ b \in Blocks /\ worklist # <<>> /\ worklist[1] = b /\ entrySets[b].reachable
    /\ x = ExitState(b) /\ T = Targets(b)
    /\ entrySets' = [c \in Blocks |-> IF c \in T THEN Joined(entrySets[c], x) ELSE entrySets[c]]
    /\ worklist' \in Seq(Blocks) /\ Distinct(worklist') /\ Len(worklist') >= Len(worklist) - 1
    /\ \A i \in 1..(Len(worklist) - 1) : worklist'[i] = worklist[i + 1]
    /\ ToSet(worklist') = (ToSet(worklist) \ {b}) \cup {c \in T : HasChanged(entrySets[c], x)}
    /\ T \subseteq ToSet(worklist) \ {b} => worklist' = Tail(worklist)
    /\ inqueueTimes' = [inqueueTimes EXCEPT ![b] = @ + 1]
    /\ UNCHANGED program

\* The rest of a sequence without repetitions.
LEMMA TailFacts ==
    ASSUME NEW X, NEW w \in Seq(X), w # <<>>, Distinct(w), NEW v, v = Tail(w)
    PROVE  /\ v \in Seq(X) /\ Len(w) \in Nat /\ Len(w) > 0 /\ Len(v) = Len(w) - 1
           /\ \A i \in 1..(Len(w) - 1) : v[i] = w[i + 1]
           /\ Distinct(v) /\ ToSet(v) = ToSet(w) \ {w[1]}
  <1>1. PICK L \in Nat : L = Len(w)
    OBVIOUS
  <1>2. L > 0 /\ v \in Seq(X) /\ Len(v) = L - 1 /\ \A i \in 1..(L - 1) : v[i] = w[i + 1]
    BY <1>1
  <1>3. 1 \in 1..L /\ \A i \in 1..(L - 1) : i + 1 \in 1..L /\ i + 1 # 1
    BY <1>2
  <1>4. \A i \in 1..L : i # 1 => i - 1 \in 1..(L - 1) /\ (i - 1) + 1 = i
    BY <1>2
  <1>5. DOMAIN w = 1..L /\ DOMAIN v = 1..(L - 1)
    BY <1>1, <1>2
  <1>6. Distinct(v)
    <2> SUFFICES ASSUME NEW i \in 1..(L - 1), NEW j \in 1..(L - 1), v[i] = v[j] PROVE i = j
      BY <1>2 DEF Distinct
    <2>1. i + 1 = j + 1
      BY <1>1, <1>2, <1>3 DEF Distinct
    <2> QED
      BY <2>1
  <1>7. ASSUME NEW x \in ToSet(v) PROVE x \in ToSet(w) \ {w[1]}
    <2>1. PICK i \in 1..(L - 1) : x = v[i]
      BY <1>5 DEF ToSet
    <2>2. x = w[i + 1] /\ i + 1 \in 1..L /\ i + 1 # 1
      BY <1>2, <1>3, <2>1
    <2>3. x # w[1]
      BY <1>1, <1>3, <2>2 DEF Distinct
    <2> QED
      BY <1>5, <2>2, <2>3 DEF ToSet
  <1>8. ASSUME NEW x \in ToSet(w) \ {w[1]} PROVE x \in ToSet(v)
    <2>1. PICK i \in 1..L : x = w[i] /\ i # 1
      BY <1>5 DEF ToSet
    <2>2. i - 1 \in 1..(L - 1) /\ v[i - 1] = x
      BY <1>2, <1>4, <2>1
    <2> QED
      BY <1>5, <2>2 DEF ToSet
  <1> QED
    BY <1>1, <1>2, <1>6, <1>7, <1>8

\* One such sequence after another.
Concatenated(X, v, a, q) ==
    /\ q \in Seq(X) /\ Len(q) >= Len(v) /\ Distinct(q) /\ ToSet(q) = ToSet(v) \cup ToSet(a)
    /\ \A i \in 1..Len(v) : q[i] = v[i]
    /\ ToSet(a) = {} => q = v

LEMMA ConcatFacts ==
    ASSUME NEW X, NEW v \in Seq(X), NEW a \in Seq(X), Distinct(v), Distinct(a), ToSet(v) \cap ToSet(a) = {},
           NEW q, q = v \o a
    PROVE  Concatenated(X, v, a, q)
  <1>1. PICK L \in Nat : L = Len(v)
    OBVIOUS
  <1>2. PICK M \in Nat : M = Len(a)
    OBVIOUS
  <1>3. /\ q \in Seq(X) /\ Len(q) = L + M /\ \A i \in 1..L : q[i] = v[i]
        /\ \A i \in 1..M : q[L + i] = a[i]
    BY <1>1, <1>2
  <1>4. \A i \in 1..(L + M) : i \in 1..L \/ (i - L \in 1..M /\ i = L + (i - L))
    BY <1>1, <1>2
  <1>5. (\A i \in 1..L : i \in 1..(L + M)) /\ (\A i \in 1..M : L + i \in 1..(L + M)) /\ L + M >= L
    BY <1>1, <1>2
  <1>6. DOMAIN v = 1..L /\ DOMAIN a = 1..M /\ DOMAIN q = 1..(L + M)
    BY <1>1, <1>2, <1>3
  <1>7. \A i \in 1..(L + M) : (i \in 1..L /\ q[i] = v[i]) \/ (i - L \in 1..M /\ q[i] = a[i - L])
    BY <1>3, <1>4
  <1>8. \A i \in 1..L, j \in 1..M : v[i] # a[j]
    BY <1>6 DEF ToSet
  <1>9. Distinct(q)
    <2> SUFFICES ASSUME NEW i \in 1..(L + M), NEW j \in 1..(L + M), q[i] = q[j] PROVE i = j
      BY <1>3 DEF Distinct
    <2>1. CASE i \in 1..L /\ j \in 1..L
      BY <1>1, <1>3, <2>1 DEF Distinct
    <2>2. CASE i \notin 1..L /\ j \notin 1..L
      <3>1. i - L \in 1..M /\ j - L \in 1..M /\ a[i - L] = a[j - L]
        BY <1>7, <2>2
      <3>2. i - L = j - L
        BY <1>2, <3>1 DEF Distinct
      <3> QED
        BY <1>1, <3>2
    <2>3. CASE i \in 1..L /\ j \notin 1..L
      BY <1>3, <1>7, <1>8, <2>3
    <2>4. CASE i \notin 1..L /\ j \in 1..L
      BY <1>3, <1>7, <1>8, <2>4
    <2> QED
      BY <2>1, <2>2, <2>3, <2>4
  <1>10. ToSet(q) = ToSet(v) \cup ToSet(a)
    <2>1. ASSUME NEW x \in ToSet(q) PROVE x \in ToSet(v) \cup ToSet(a)
      <3>1. PICK i \in 1..(L + M) : x = q[i]
        BY <1>6 DEF ToSet
      <3> QED
        BY <1>6, <1>7, <3>1 DEF ToSet
    <2>2. ASSUME NEW x \in ToSet(v) PROVE x \in ToSet(q)
      <3>1. PICK i \in 1..L : x = v[i]
        BY <1>6 DEF ToSet
      <3> QED
        BY <1>3, <1>5, <1>6, <3>1 DEF ToSet
    <2>3. ASSUME NEW x \in ToSet(a) PROVE x \in ToSet(q)
      <3>1. PICK i \in 1..M : x = a[i]
        BY <1>6 DEF ToSet
      <3>2. L + i \in 1..(L + M) /\ q[L + i] = x
        BY <1>3, <1>5, <3>1
      <3> QED
        BY <1>6, <3>2 DEF ToSet
    <2> QED
      BY <2>1, <2>2, <2>3
  <1>11. ASSUME ToSet(a) = {} PROVE q = v
    <2>1. M = 0
      <3>1. M # 0 => 1 \in 1..M
        BY <1>2
      <3> QED
        BY <1>6, <1>11, <3>1 DEF ToSet
    <2>2. a = <<>>
      <3>1. a \in Seq(X) /\ (a # <<>> => Len(a) # 0)
        OBVIOUS
      <3> QED
        BY <1>2, <2>1, <3>1
    <2> QED
      BY <2>2
  <1> QED
    BY <1>1, <1>3, <1>5, <1>9, <1>10, <1>11 DEF Concatenated

LEMMA StepCases ==
    ASSUME ProgramOK, StateOK, ProcessBlock
    PROVE  (\E b : Drop(b)) \/ (\E b, x, T : Process(b, x, T))
  <1>1. worklist \in Seq(Blocks) /\ worklist # <<>> /\ Distinct(worklist)
    BY DEF StateOK, ProcessBlock
  <1>2. PICK b \in Blocks : b = Head(worklist) /\ b = worklist[1]
    BY <1>1
  <1>3. PICK v : v = Tail(worklist)
    OBVIOUS
  <1>4. /\ v \in Seq(Blocks) /\ Len(v) = Len(worklist) - 1 /\ Len(worklist) \in Nat
        /\ \A i \in 1..(Len(worklist) - 1) : v[i] = worklist[i + 1]
        /\ Distinct(v) /\ ToSet(v) = ToSet(worklist) \ {b}
    BY <1>1, <1>2, <1>3, TailFacts
  <1>5. CASE ~entrySets[b].reachable
    <2>1. worklist' = Tail(worklist) /\ UNCHANGED <<program, entrySets, inqueueTimes>>
      BY <1>2, <1>5 DEF ProcessBlock
    <2>2. Drop(b)
      BY <1>1, <1>2, <1>5, <2>1 DEF Drop
    <2> QED
      BY <2>2
  <1>6. CASE entrySets[b].reachable
    <2>1. PICK x : x = ExitState(b)
      OBVIOUS
    <2>2. PICK T : T = Targets(b)
      OBVIOUS
    <2>3. PICK S : S = {c \in T : HasChanged(entrySets[c], x)}
      OBVIOUS
    <2>4. PICK a : a = Among(successors[b], S \ ToSet(v))
      OBVIOUS
    <2>5. /\ entrySets' = [c \in Blocks |-> IF c \in T THEN Joined(entrySets[c], x) ELSE entrySets[c]]
          /\ worklist' = v \o a
          /\ inqueueTimes' = [inqueueTimes EXCEPT ![b] = @ + 1]
          /\ UNCHANGED program
      BY <1>2, <1>3, <1>6, <2>1, <2>2, <2>3, <2>4 DEF ProcessBlock
    <2>6. successors[b] \in Seq(Blocks) /\ Distinct(successors[b])
      BY FlowGraphFacts DEF ProgramOK
    <2>7. a \in Seq(Blocks) /\ Distinct(a) /\ ToSet(a) = {c \in ToSet(successors[b]) : c \in S \ ToSet(v)}
      BY <2>4, <2>6, AmongChooses
    <2>8. T \subseteq ToSet(successors[b])
      BY <2>2, TargetFacts
    <2>9. ToSet(a) = S \ ToSet(v)
      BY <2>3, <2>7, <2>8
    <2>10. PICK q : q = v \o a
      OBVIOUS
    <2>11. /\ q \in Seq(Blocks) /\ Len(q) >= Len(v) /\ Distinct(q) /\ ToSet(q) = ToSet(v) \cup ToSet(a)
           /\ \A i \in 1..Len(v) : q[i] = v[i]
           /\ ToSet(a) = {} => q = v
      <3>1. ToSet(v) \cap ToSet(a) = {}
        BY <2>9
      <3>2. v \in Seq(Blocks) /\ Distinct(v)
        BY <1>4
      <3>3. a \in Seq(Blocks) /\ Distinct(a)
        BY <2>7
      <3>4. Concatenated(Blocks, v, a, q)
        BY <2>10, <3>1, <3>2, <3>3, ConcatFacts
      <3> QED
        BY <3>4 DEF Concatenated
    <2>12. worklist' = q
      BY <2>5, <2>10
    <2>13. ToSet(q) = (ToSet(worklist) \ {b}) \cup S
      BY <1>4, <2>9, <2>11
    <2>14. T \subseteq ToSet(worklist) \ {b} => q = Tail(worklist)
      BY <1>3, <1>4, <2>3, <2>9, <2>11
    <2>15. \A i \in 1..(Len(worklist) - 1) : q[i] = worklist[i + 1]
      BY <1>4, <2>11
    <2>16. Len(q) >= Len(worklist) - 1
      BY <1>4, <2>11
    <2>17. Process(b, x, T)
      BY <1>1, <1>2, <1>6, <2>1, <2>2, <2>3, <2>5, <2>11, <2>12, <2>13, <2>14, <2>15, <2>16 DEF Process
    <2> QED
      BY <2>17
  <1> QED
    BY <1>5, <1>6

\* What one iteration does to the abstract states.
LEMMA ProcessFacts ==
    ASSUME ProgramOK, StateOK, NEW b, NEW x, NEW T, Process(b, x, T)
    PROVE  /\ b \in Blocks /\ b \in ToSet(worklist) /\ b \in ToSet(BlockOrder) /\ entrySets[b].reachable
           /\ x \in AbstractStates /\ x.reachable
           /\ T \subseteq ToSet(successors[b]) /\ T \subseteq Blocks \ {1} /\ T \subseteq ToSet(BlockOrder)
           /\ analysis # "range-analysis" => T = ToSet(successors[b])
           /\ entrySets' \in [Blocks -> AbstractStates]
           /\ \A c \in T : entrySets'[c] = Joined(entrySets[c], x) /\ entrySets'[c].reachable
           /\ \A c \in Blocks \ T : entrySets'[c] = entrySets[c]
           /\ \A c \in Blocks : entrySets[c].reachable => entrySets'[c].reachable
           /\ inqueueTimes' \in [Blocks -> Nat] /\ inqueueTimes'[b] = inqueueTimes[b] + 1
           /\ \A c \in Blocks : c # b => inqueueTimes'[c] = inqueueTimes[c]
  <1>1. b \in Blocks /\ worklist # <<>> /\ worklist[1] = b /\ entrySets[b].reachable /\ x = ExitState(b) /\ T = Targets(b)
    BY DEF Process
  <1>2. b \in ToSet(worklist) /\ b \in ToSet(BlockOrder)
    <2>1. worklist \in Seq(Blocks)
      BY DEF StateOK
    <2>2. 1 \in DOMAIN worklist
      BY <1>1, <2>1
    <2> QED
      BY <1>1, <2>2 DEF StateOK, ToSet
  <1>3. x \in AbstractStates /\ x.reachable
    BY <1>1, ExitFields
  <1>4. /\ T \subseteq ToSet(successors[b]) /\ T \subseteq Blocks \ {1}
        /\ analysis # "range-analysis" => T = ToSet(successors[b])
    BY <1>1, TargetFacts
  <1>5. T \subseteq ToSet(BlockOrder)
    <2>1. Ordered(successors, BlockOrder)
      BY ProgramFacts
    <2>2. PICK i \in 1..Len(BlockOrder) : b = BlockOrder[i]
      BY <1>2, <2>1 DEF ToSet, Ordered
    <2>3. ToSet(successors[b]) \subseteq ToSet(BlockOrder)
      BY <2>1, <2>2 DEF Ordered
    <2> QED
      BY <1>4, <2>3
  <1>6. \A c \in Blocks : entrySets[c] \in AbstractStates
    BY DEF StateOK
  <1>7. ASSUME NEW c \in Blocks PROVE Joined(entrySets[c], x) \in AbstractStates /\ Joined(entrySets[c], x).reachable
    BY <1>3, <1>6, JoinedFields
  <1>8. entrySets' = [c \in Blocks |-> IF c \in T THEN Joined(entrySets[c], x) ELSE entrySets[c]]
    BY DEF Process
  <1>9. entrySets' \in [Blocks -> AbstractStates]
    BY <1>6, <1>7, <1>8
  <1>10. /\ \A c \in T : entrySets'[c] = Joined(entrySets[c], x) /\ entrySets'[c].reachable
         /\ \A c \in Blocks \ T : entrySets'[c] = entrySets[c]
    BY <1>4, <1>7, <1>8
  <1>11. /\ inqueueTimes' \in [Blocks -> Nat] /\ inqueueTimes'[b] = inqueueTimes[b] + 1
         /\ \A c \in Blocks : c # b => inqueueTimes'[c] = inqueueTimes[c]
    BY <1>1 DEF Process, StateOK
  <1> QED
    BY <1>1, <1>2, <1>3, <1>4, <1>5, <1>9, <1>10, <1>11

LEMMA ProgramInit == Init => ProgramOK
  <1> SUFFICES ASSUME Init PROVE ProgramOK
    OBVIOUS
  <1>1. Size \in Nat /\ Size > 1 /\ Blocks = 1..Size
    BY BoundsAssumption DEF BoundsAssumption, Blocks
  <1>2. FlowGraph(successors)
    <2>1. PICK f \in [1..(Size - 1) -> Branches] : successors = [b \in Blocks |-> IF b = Size THEN <<>> ELSE f[b]]
      BY DEF Init
    <2>2. \A b \in Blocks : b # Size => b \in 1..(Size - 1)
      BY <1>1
    <2> QED
      BY <2>1, <2>2 DEF FlowGraph
  <1>3. tested \in BOOLEAN /\ (analysis # "range-analysis" => tested = FALSE)
    BY DEF Init
  <1> QED
    BY <1>2, <1>3 DEF ProgramOK, Init

LEMMA ProgramKept == ProgramOK /\ UNCHANGED program => ProgramOK' /\ BlockOrder' = BlockOrder
  BY DEF ProgramOK, program, BlockOrder

LEMMA StateInit == Init => StateOK
  <1> SUFFICES ASSUME Init PROVE StateOK
    OBVIOUS
  <1>1. ProgramOK
    BY ProgramInit
  <1>2. /\ Ordered(successors, BlockOrder) /\ Top \in Ranges /\ [lo |-> 0, hi |-> 0] \in Ranges /\ 1 \in Blocks
    BY <1>1, ProgramFacts
  <1>3. worklist = BlockOrder
    BY DEF Init, BlockOrder
  <1>4. worklist \in Seq(Blocks) /\ Distinct(worklist) /\ 1 \in ToSet(worklist)
    <2>1. BlockOrder \in Seq(Blocks) /\ BlockOrder # <<>> /\ BlockOrder[1] = 1 /\ Distinct(BlockOrder)
      BY <1>2 DEF Ordered
    <2>2. 1 \in DOMAIN BlockOrder
      BY <2>1
    <2> QED
      BY <1>3, <2>1, <2>2 DEF ToSet
  <1>5. EntryState(analysis) \in AbstractStates /\ EntryState(analysis).reachable
    <2>1. PICK r \in Ranges : r = [lo |-> 0, hi |-> 0]
      BY <1>2
    <2>2. PICK v \in BOOLEAN : v = (analysis = "maybe-uninit")
      OBVIOUS
    <2>3. EntryState(analysis) = [reachable |-> TRUE, bit |-> v, pos |-> {}, range |-> r]
      BY <2>1, <2>2 DEF EntryState, Fact
    <2> QED
      BY <2>3 DEF AbstractStates
  <1>6. Bottom \in AbstractStates /\ ~Bottom.reachable
    BY <1>2 DEF Bottom, AbstractStates
  <1>7. entrySets = [b \in Blocks |-> IF b = 1 THEN EntryState(analysis) ELSE Bottom]
    BY DEF Init
  <1>8. /\ entrySets \in [Blocks -> AbstractStates] /\ entrySets[1] = EntryState(analysis)
        /\ \A b \in Blocks : entrySets[b].reachable => b = 1
    <2>1. entrySets \in [Blocks -> AbstractStates]
      BY <1>5, <1>6, <1>7
    <2>2. entrySets[1] = EntryState(analysis)
      BY <1>2, <1>7
    <2>3. ASSUME NEW b \in Blocks, b # 1 PROVE ~entrySets[b].reachable
      BY <1>6, <1>7, <2>3
    <2> QED
      BY <2>1, <2>2, <2>3
  <1>9. inqueueTimes \in [Blocks -> Nat] /\ \A b \in Blocks : inqueueTimes[b] = 0
    BY DEF Init
  <1> QED
    BY <1>3, <1>4, <1>8, <1>9 DEF StateOK

LEMMA StateDrop ==
    ASSUME ProgramOK, StateOK, NEW b, Drop(b)
    PROVE  StateOK'
  <1>1. worklist \in Seq(Blocks) /\ worklist # <<>> /\ Distinct(worklist)
    BY DEF StateOK, Drop
  <1>2. worklist' \in Seq(Blocks) /\ Distinct(worklist') /\ ToSet(worklist') \subseteq ToSet(worklist)
    BY <1>1, TailFacts DEF Drop
  <1>3. BlockOrder' = BlockOrder /\ analysis' = analysis /\ UNCHANGED <<entrySets, inqueueTimes>>
    BY ProgramKept DEF Drop, program
  <1> QED
    BY <1>2, <1>3 DEF StateOK

LEMMA StateProcess ==
    ASSUME ProgramOK, StateOK, NEW b, NEW x, NEW T, Process(b, x, T)
    PROVE  StateOK'
  <1>1. BlockOrder' = BlockOrder /\ analysis' = analysis
    BY ProgramKept DEF Process, program
  <1>2. worklist' \in Seq(Blocks) /\ Distinct(worklist')
    BY DEF Process
  <1>3. ToSet(worklist') \subseteq ToSet(worklist) \cup T
    BY DEF Process
  <1>4. /\ b \in Blocks /\ b \in ToSet(BlockOrder) /\ entrySets[b].reachable
        /\ T \subseteq Blocks \ {1} /\ T \subseteq ToSet(BlockOrder)
        /\ entrySets' \in [Blocks -> AbstractStates]
        /\ \A c \in T : entrySets'[c].reachable
        /\ \A c \in Blocks \ T : entrySets'[c] = entrySets[c]
        /\ inqueueTimes' \in [Blocks -> Nat]
        /\ \A c \in Blocks : c # b => inqueueTimes'[c] = inqueueTimes[c]
    BY ProcessFacts
  <1>5. 1 \in Blocks
    BY ProgramFacts
  <1>6. ToSet(worklist)' \subseteq ToSet(BlockOrder)
    BY <1>3, <1>4 DEF StateOK
  <1>7. entrySets'[1] = EntryState(analysis)
    BY <1>4, <1>5 DEF StateOK
  <1>8. ASSUME NEW c \in Blocks, entrySets'[c].reachable PROVE c \in ToSet(BlockOrder)
    BY <1>4, <1>8 DEF StateOK
  <1>9. ASSUME NEW c \in Blocks, ~entrySets'[c].reachable PROVE inqueueTimes'[c] = 0
    <2>1. c \notin T
      BY <1>4, <1>9
    <2>2. entrySets'[c] = entrySets[c] /\ ~entrySets[c].reachable
      BY <1>4, <1>9, <2>1
    <2>3. c # b
      BY <1>4, <2>2
    <2> QED
      BY <1>4, <2>2, <2>3 DEF StateOK
  <1> QED
    BY <1>1, <1>2, <1>4, <1>6, <1>7, <1>8, <1>9 DEF StateOK

-----------------------------------------------------------------------------
(* No block is dropped before it is reached in the gen-kill analyses.      *)

LEMMA AwaitedInit == Init => Awaited
  <1> SUFFICES ASSUME Init, NEW b \in ToSet(BlockOrder), ~entrySets[b].reachable
               PROVE  \E i, j \in 1..Len(worklist) : j < i /\ worklist[i] = b /\ b \in ToSet(successors[worklist[j]])
    BY DEF Awaited
  <1>1. ProgramOK /\ StateOK
    BY ProgramInit, StateInit
  <1>2. Ordered(successors, BlockOrder) /\ worklist = BlockOrder
    BY <1>1, ProgramFacts DEF Init, BlockOrder
  <1>3. worklist \in Seq(Blocks) /\ worklist[1] = 1 /\ Len(worklist) \in Nat
        /\ \A i \in 2..Len(worklist) : \E j \in 1..(i - 1) : worklist[i] \in ToSet(successors[worklist[j]])
    BY <1>2 DEF Ordered
  <1>4. PICK i \in 1..Len(worklist) : worklist[i] = b
    BY <1>2, <1>3 DEF ToSet
  <1>5. i # 1
    <2>1. entrySets[1].reachable
      BY <1>1 DEF StateOK, EntryState, Fact
    <2> QED
      BY <1>3, <1>4, <2>1
  <1>6. i \in 2..Len(worklist)
    BY <1>3, <1>5
  <1>7. PICK j \in 1..(i - 1) : b \in ToSet(successors[worklist[j]])
    BY <1>3, <1>4, <1>6
  <1>8. j \in 1..Len(worklist) /\ j < i
    BY <1>3
  <1> QED
    BY <1>4, <1>7, <1>8

LEMMA AwaitedHead ==
    ASSUME ProgramOK, StateOK, Awaited, analysis # "range-analysis", worklist # <<>>
    PROVE  entrySets[worklist[1]].reachable
  <1>1. worklist \in Seq(Blocks) /\ Distinct(worklist) /\ ToSet(worklist) \subseteq ToSet(BlockOrder)
    BY DEF StateOK
  <1>2. Len(worklist) \in Nat /\ 1 \in 1..Len(worklist) /\ DOMAIN worklist = 1..Len(worklist)
    BY <1>1
  <1>3. worklist[1] \in ToSet(BlockOrder)
    BY <1>1, <1>2 DEF ToSet
  <1> SUFFICES ASSUME NEW i \in 1..Len(worklist), NEW j \in 1..Len(worklist), j < i, worklist[i] = worklist[1]
               PROVE  FALSE
    BY <1>3 DEF Awaited
  <1>4. i = 1
    BY <1>1, <1>2 DEF Distinct
  <1> QED
    BY <1>2, <1>4

LEMMA AwaitedProcess ==
    ASSUME ProgramOK, StateOK, Awaited, NEW b, NEW x, NEW T, Process(b, x, T)
    PROVE  Awaited'
  <1>1. BlockOrder' = BlockOrder /\ analysis' = analysis /\ successors' = successors
    BY ProgramKept DEF Process, program
  <1> SUFFICES ASSUME analysis # "range-analysis", NEW c \in ToSet(BlockOrder), ~entrySets'[c].reachable
               PROVE  \E i, j \in 1..Len(worklist') :
                          j < i /\ worklist'[i] = c /\ c \in ToSet(successors[worklist'[j]])
    BY <1>1 DEF Awaited
  <1>2. /\ b \in Blocks /\ T = ToSet(successors[b])
        /\ \A d \in T : entrySets'[d].reachable
        /\ \A d \in Blocks : entrySets[d].reachable => entrySets'[d].reachable
    BY ProcessFacts
  <1>3. c \in Blocks
    <2>1. BlockOrder \in Seq(Blocks)
      BY ProgramFacts DEF Ordered
    <2> QED
      BY <2>1 DEF ToSet
  <1>4. ~entrySets[c].reachable /\ c \notin ToSet(successors[b])
    BY <1>2, <1>3
  <1>5. PICK i \in 1..Len(worklist), j \in 1..Len(worklist) :
            j < i /\ worklist[i] = c /\ c \in ToSet(successors[worklist[j]])
    BY <1>4 DEF Awaited
  <1>6. PICK L \in Nat : L = Len(worklist)
    BY DEF StateOK
  <1>7. worklist[1] = b
    BY DEF Process
  <1>8. j # 1
    BY <1>4, <1>5, <1>7
  <1>9. i - 1 \in 1..(L - 1) /\ j - 1 \in 1..(L - 1) /\ j - 1 < i - 1 /\ (i - 1) + 1 = i /\ (j - 1) + 1 = j
    BY <1>5, <1>6, <1>8
  <1>10. worklist'[i - 1] = c /\ worklist'[j - 1] = worklist[j]
    BY <1>5, <1>6, <1>9 DEF Process
  <1>11. PICK M \in Nat : M = Len(worklist')
    BY DEF Process
  <1>12. M >= L - 1
    BY <1>6, <1>11 DEF Process
  <1>13. i - 1 \in 1..M /\ j - 1 \in 1..M
    BY <1>9, <1>12
  <1> QED
    BY <1>5, <1>9, <1>10, <1>11, <1>13

-----------------------------------------------------------------------------
(* What a block has sent stays known.                                      *)

LEMMA AbsorbJoined ==
    ASSUME ProgramOK, NEW s \in AbstractStates, NEW x \in AbstractStates, x.reachable, NEW j, j = Joined(s, x)
    PROVE  /\ Absorbs(j, x)
           /\ \A t : Absorbs(s, t) /\ t \in AbstractStates => Absorbs(j, t)
  <1>1. /\ j \in AbstractStates /\ j.reachable
        /\ analysis = "range-analysis" /\ ~s.reachable => j = x
        /\ analysis = "range-analysis" /\ s.reachable => j.range = Hull(s.range, x.range)
        /\ analysis # "range-analysis" => j.bit = (s.bit \/ x.bit)
    BY JoinedFields
  <1>2. s.range \in Ranges /\ x.range \in Ranges /\ s.bit \in BOOLEAN /\ x.bit \in BOOLEAN
    BY StateFields
  <1>3. PICK h : h = Hull(s.range, x.range)
    OBVIOUS
  <1>4. h.lo <= s.range.lo /\ h.lo <= x.range.lo /\ s.range.hi <= h.hi /\ x.range.hi <= h.hi /\ h \in Ranges
    BY <1>2, <1>3, HullFacts
  <1>5. /\ x.range.lo \in Int /\ x.range.hi \in Int /\ s.range.lo \in Int /\ s.range.hi \in Int
        /\ h.lo \in Int /\ h.hi \in Int
    <2>1. \A r \in Ranges : r.lo \in Int /\ r.hi \in Int
      <3>1. Largest \in Nat
        BY ProgramFacts
      <3> QED
        BY <3>1 DEF Ranges
    <2> QED
      BY <1>2, <1>4, <2>1
  <1>6. CASE analysis # "range-analysis"
    BY <1>1, <1>2, <1>6 DEF Absorbs
  <1>7. CASE analysis = "range-analysis" /\ ~s.reachable
    BY <1>1, <1>5, <1>7 DEF Absorbs
  <1>8. CASE analysis = "range-analysis" /\ s.reachable
    <2>1. j.range = h
      BY <1>1, <1>3, <1>8
    <2>2. Absorbs(j, x)
      BY <1>1, <1>4, <1>8, <2>1 DEF Absorbs
    <2>3. ASSUME NEW t \in AbstractStates, Absorbs(s, t) PROVE Absorbs(j, t)
      <3>1. t.range \in Ranges
        BY StateFields
      <3>2. t.range.lo \in Int /\ t.range.hi \in Int
        <4>1. Largest \in Nat
          BY ProgramFacts
        <4> QED
          BY <3>1, <4>1 DEF Ranges
      <3>3. s.range.lo <= t.range.lo /\ t.range.hi <= s.range.hi
        BY <1>8, <2>3 DEF Absorbs
      <3>4. h.lo <= t.range.lo /\ t.range.hi <= h.hi
        BY <1>4, <1>5, <3>2, <3>3
      <3> QED
        BY <1>1, <1>8, <2>1, <3>4 DEF Absorbs
    <2> QED
      BY <2>2, <2>3
  <1> QED
    BY <1>6, <1>7, <1>8

\* Two states that say the same about the variable.
Alike(s, t) ==
    /\ analysis = "range-analysis" => s.range = t.range
    /\ analysis # "range-analysis" => s.bit = t.bit

LEMMA AlikeEffects ==
    ASSUME ProgramOK, NEW s \in AbstractStates, NEW t \in AbstractStates, Alike(s, t), NEW b \in Blocks,
           NEW d, d = PropagateExpressionEffect(s, b), NEW e, e = PropagateExpressionEffect(t, b)
    PROVE  /\ d \in AbstractStates /\ e \in AbstractStates
           /\ TargetSucc(e, b) = TargetSucc(d, b)
           /\ \A u : Absorbs(u, d) <=> Absorbs(u, e)
  <1>1. /\ d \in AbstractStates
        /\ analysis = "range-analysis" => d.range = RangeAfter(s, b)
        /\ analysis # "range-analysis" => d.bit = BitAfter(s, b)
    BY EffectFields
  <1>2. /\ e \in AbstractStates
        /\ analysis = "range-analysis" => e.range = RangeAfter(t, b)
        /\ analysis # "range-analysis" => e.bit = BitAfter(t, b)
    BY EffectFields
  <1>3. Alike(d, e)
    BY <1>1, <1>2 DEF Alike, RangeAfter, BitAfter
  <1>4. TargetSucc(e, b) = TargetSucc(d, b)
    BY <1>3 DEF Alike, TargetSucc
  <1>5. \A u : Absorbs(u, d) <=> Absorbs(u, e)
    BY <1>3 DEF Alike, Absorbs
  <1> QED
    BY <1>1, <1>2, <1>4, <1>5

\* A block that does not wait after a step was reached before it, and nothing new is
\* known of the variable there.
LEMMA RestingBlock ==
    ASSUME ProgramOK, StateOK, Awaited, NEW b, NEW x, NEW T, Process(b, x, T),
           NEW c \in Blocks, entrySets'[c].reachable, c \notin ToSet(worklist')
    PROVE  /\ entrySets[c].reachable /\ Alike(entrySets[c], entrySets'[c])
           /\ c # b => c \notin ToSet(worklist)
  <1>1. /\ b \in Blocks /\ entrySets[b].reachable /\ x \in AbstractStates /\ x.reachable
        /\ T \subseteq ToSet(BlockOrder)
        /\ \A d \in T : entrySets'[d] = Joined(entrySets[d], x)
        /\ \A d \in Blocks \ T : entrySets'[d] = entrySets[d]
    BY ProcessFacts
  <1>2. ToSet(worklist') = (ToSet(worklist) \ {b}) \cup {d \in T : HasChanged(entrySets[d], x)}
    BY DEF Process
  <1>3. c # b => c \notin ToSet(worklist)
    BY <1>2
  <1>4. CASE c \notin T
    BY <1>1, <1>3, <1>4 DEF Alike
  <1>5. CASE c \in T
    <2>1. ~HasChanged(entrySets[c], x) /\ entrySets[c] \in AbstractStates
      BY <1>2, <1>5 DEF StateOK
    <2>2. PICK s \in AbstractStates : s = entrySets[c]
      BY <2>1
    <2>3. PICK j : j = Joined(s, x)
      OBVIOUS
    <2>4. entrySets'[c] = j
      BY <1>1, <1>5, <2>2, <2>3
    <2>5. CASE analysis = "range-analysis"
      <3>1. j = s /\ s.reachable
        BY <1>1, <2>1, <2>2, <2>3, <2>5, ChangedFacts
      <3> QED
        BY <1>3, <2>2, <2>4, <2>5, <3>1 DEF Alike
    <2>6. CASE analysis # "range-analysis"
      <3>1. ~(x.bit /\ ~s.bit)
        BY <1>1, <2>1, <2>2, <2>6, ChangedFacts
      <3>2. j.bit = (s.bit \/ x.bit)
        BY <1>1, <2>2, <2>3, <2>6, JoinedFields
      <3>3. s.bit \in BOOLEAN /\ x.bit \in BOOLEAN
        BY <1>1, <2>2, StateFields
      <3>4. j.bit = s.bit
        BY <3>1, <3>2, <3>3
      <3>5. s.reachable
        <4> SUFFICES ASSUME ~s.reachable PROVE FALSE
          OBVIOUS
        <4>1. PICK i \in 1..Len(worklist) : worklist[i] = c
          BY <1>1, <1>5, <2>2, <2>6 DEF Awaited
        <4>2. c \in ToSet(worklist)
          <5>1. worklist \in Seq(Blocks)
            BY DEF StateOK
          <5> QED
            BY <4>1, <5>1 DEF ToSet
        <4>3. c # b
          BY <1>1, <2>2
        <4> QED
          BY <1>3, <4>2, <4>3
      <3> QED
        BY <1>3, <2>2, <2>4, <2>6, <3>4, <3>5 DEF Alike
    <2> QED
      BY <2>5, <2>6
  <1> QED
    BY <1>4, <1>5

LEMMA SettledInit == Init => Settled
  <1> SUFFICES ASSUME Init, NEW b \in Blocks, entrySets[b].reachable PROVE b \in ToSet(worklist)
    BY DEF Settled
  <1>1. StateOK /\ worklist = BlockOrder
    BY StateInit DEF Init, BlockOrder
  <1> QED
    BY <1>1 DEF StateOK

SettledAt(c) ==
    entrySets[c].reachable /\ c \notin ToSet(worklist) =>
        \A d \in TargetSucc(Effect(c), c) : Absorbs(entrySets[d], Effect(c))

LEMMA SettledNext ==
    ASSUME UNCHANGED program, NEW c \in Blocks, NEW e, e = PropagateExpressionEffect(entrySets'[c], c),
           entrySets'[c].reachable /\ c \notin ToSet(worklist') =>
               \A d \in TargetSucc(e, c) : Absorbs(entrySets'[d], e)
    PROVE  SettledAt(c)'
  <1>1. Effect(c)' = e
    BY DEF Effect, PropagateExpressionEffect, program
  <1>2. TargetSucc(Effect(c), c)' = TargetSucc(e, c)
    BY <1>1 DEF TargetSucc, program
  <1>3. ASSUME NEW d PROVE Absorbs(entrySets[d], Effect(c))' <=> Absorbs(entrySets'[d], e)
    BY <1>1 DEF Absorbs, program
  <1> QED
    BY <1>2, <1>3 DEF SettledAt

LEMMA SettledProcess ==
    ASSUME ProgramOK, StateOK, Awaited, Settled, NEW b, NEW x, NEW T, Process(b, x, T)
    PROVE  Settled'
  <1>1. /\ b \in Blocks /\ x \in AbstractStates /\ x.reachable /\ T \subseteq Blocks
        /\ entrySets' \in [Blocks -> AbstractStates]
        /\ \A d \in T : entrySets'[d] = Joined(entrySets[d], x)
        /\ \A d \in Blocks \ T : entrySets'[d] = entrySets[d]
    BY ProcessFacts
  <1>2. UNCHANGED program /\ x = ExitState(b) /\ T = Targets(b)
    BY DEF Process
  <1>3. \A d \in Blocks : entrySets[d] \in AbstractStates
    BY DEF StateOK
  <1>4. ASSUME NEW d \in Blocks, NEW t \in AbstractStates, Absorbs(entrySets[d], t)
        PROVE  Absorbs(entrySets'[d], t)
    <2>1. CASE d \in T
      BY <1>1, <1>3, <1>4, <2>1, AbsorbJoined
    <2>2. CASE d \notin T
      BY <1>1, <1>4, <2>2
    <2> QED
      BY <2>1, <2>2
  <1>5. ASSUME NEW c \in Blocks PROVE SettledAt(c)'
    <2>1. PICK e : e = PropagateExpressionEffect(entrySets'[c], c)
      OBVIOUS
    <2>2. PICK f : f = Effect(c)
      OBVIOUS
    <2>3. ASSUME entrySets'[c].reachable, c \notin ToSet(worklist'), NEW d \in TargetSucc(e, c)
          PROVE  Absorbs(entrySets'[d], e)
      <3>1. /\ entrySets[c].reachable /\ Alike(entrySets[c], entrySets'[c])
            /\ c # b => c \notin ToSet(worklist)
        BY <2>3, RestingBlock
      <3>2. entrySets[c] \in AbstractStates /\ entrySets'[c] \in AbstractStates
        BY <1>1, <1>3
      <3>3. /\ f \in AbstractStates /\ TargetSucc(e, c) = TargetSucc(f, c)
            /\ \A u : Absorbs(u, f) <=> Absorbs(u, e)
        <4>1. f = PropagateExpressionEffect(entrySets[c], c)
          BY <2>2 DEF Effect
        <4> QED
          BY <2>1, <3>1, <3>2, <4>1, AlikeEffects
      <3>4. d \in TargetSucc(f, c)
        BY <2>3, <3>3
      <3>5. d \in Blocks
        <4>1. TargetSucc(f, c) \subseteq Blocks
          BY TargetFacts
        <4> QED
          BY <3>4, <4>1
      <3>6. CASE c # b
        <4>1. Absorbs(entrySets[d], f)
          BY <2>2, <3>1, <3>4, <3>6 DEF Settled
        <4> QED
          BY <1>4, <3>3, <3>5, <4>1
      <3>7. CASE c = b
        <4>1. d \in T
          <5>1. TargetSucc(Effect(b), b) \subseteq Targets(b)
            BY <1>1, TargetFacts
          <5> QED
            BY <1>2, <2>2, <3>4, <3>7, <5>1
        <4>2. Absorbs(entrySets'[d], x)
          BY <1>1, <1>3, <3>5, <4>1, AbsorbJoined
        <4>3. x.bit = f.bit /\ (x.range = Top \/ x.range = f.range)
          <5>1. /\ x.bit = f.bit /\ x.range = IF GivesUp(b) THEN Top ELSE f.range
            BY <1>1, <1>2, <2>2, <3>7, ExitFields
          <5> QED
            BY <5>1
        <4>4. f.range \in Ranges /\ entrySets'[d].range \in Ranges
          BY <1>1, <3>3, <3>5, StateFields
        <4>5. Absorbs(entrySets'[d], f)
          <5>1. Largest \in Nat
            BY ProgramFacts
          <5>2. CASE x.range = f.range
            BY <4>2, <4>3, <5>2 DEF Absorbs
          <5>3. CASE x.range = Top
            <6>1. f.range.lo \in 0..Largest /\ f.range.hi \in 0..Largest
                  /\ entrySets'[d].range.lo \in 0..Largest /\ entrySets'[d].range.hi \in 0..Largest
              BY <4>4 DEF Ranges
            <6>2. Top.lo = 0 /\ Top.hi = Largest
              BY DEF Top
            <6>3. analysis = "range-analysis" => entrySets'[d].range.lo <= 0 /\ Largest <= entrySets'[d].range.hi
              BY <4>2, <5>3, <6>2 DEF Absorbs
            <6>4. analysis = "range-analysis" => entrySets'[d].range.lo <= f.range.lo /\ f.range.hi <= entrySets'[d].range.hi
              BY <5>1, <6>1, <6>3
            <6> QED
              BY <4>2, <4>3, <6>4 DEF Absorbs
          <5> QED
            BY <4>3, <5>2, <5>3
        <4> QED
          BY <3>3, <4>5
      <3> QED
        BY <3>6, <3>7
    <2> QED
      BY <1>2, <2>1, <2>3, SettledNext
  <1>6. Blocks' = Blocks
    BY DEF Blocks
  <1> QED
    BY <1>5, <1>6 DEF Settled, SettledAt

LEMMA SettledDrop ==
    ASSUME ProgramOK, StateOK, Settled, NEW b, Drop(b)
    PROVE  Settled'
  <1>1. UNCHANGED program /\ entrySets' = entrySets /\ ~entrySets[b].reachable
    BY DEF Drop
  <1>2. ToSet(worklist') = ToSet(worklist) \ {b}
    <2>1. worklist \in Seq(Blocks) /\ worklist # <<>> /\ Distinct(worklist) /\ b = worklist[1] /\ worklist' = Tail(worklist)
      BY DEF StateOK, Drop
    <2> QED
      BY <2>1, TailFacts
  <1>3. ASSUME NEW c \in Blocks PROVE SettledAt(c)'
    <2>1. PICK e : e = PropagateExpressionEffect(entrySets'[c], c)
      OBVIOUS
    <2>2. e = Effect(c)
      BY <1>1, <2>1 DEF Effect
    <2>3. entrySets'[c].reachable /\ c \notin ToSet(worklist') => \A d \in TargetSucc(e, c) : Absorbs(entrySets'[d], e)
      BY <1>1, <1>2, <2>2 DEF Settled
    <2> QED
      BY <1>1, <2>1, <2>3, SettledNext
  <1> QED
    BY <1>3 DEF Settled, SettledAt, Blocks

LEMMA AwaitedDrop ==
    ASSUME ProgramOK, StateOK, Awaited, NEW b, Drop(b)
    PROVE  Awaited'
  <1>1. analysis' = analysis
    BY DEF Drop, program
  <1>2. analysis = "range-analysis"
    BY AwaitedHead DEF Drop
  <1> QED
    BY <1>1, <1>2 DEF Awaited

-----------------------------------------------------------------------------
(* Without loops every block is processed once, in the order.              *)

\* The successors of a block come later.
LEMMA Later ==
    ASSUME ProgramOK, LoopFree, NEW k \in 1..Len(BlockOrder), NEW c \in ToSet(successors[BlockOrder[k]])
    PROVE  \E i \in 1..Len(BlockOrder) : i > k /\ BlockOrder[i] = c
  <1>1. /\ BlockOrder \in Seq(Blocks)
        /\ \A i \in 1..Len(BlockOrder) : ToSet(successors[BlockOrder[i]]) \subseteq ToSet(BlockOrder)
    BY ProgramFacts DEF Ordered
  <1>2. DOMAIN BlockOrder = 1..Len(BlockOrder)
    BY <1>1
  <1>3. PICK i \in 1..Len(BlockOrder) : BlockOrder[i] = c
    BY <1>1, <1>2 DEF ToSet
  <1>4. c \notin {BlockOrder[j] : j \in 1..k}
    BY <1>2 DEF LoopFree, BlockOrder
  <1>5. PICK L \in Nat : L = Len(BlockOrder)
    BY <1>1
  <1>6. i \notin 1..k
    BY <1>3, <1>4
  <1>7. i > k
    BY <1>5, <1>6
  <1> QED
    BY <1>3, <1>7

LEMMA SequenceInit == Init => InSequence
  <1> SUFFICES ASSUME Init PROVE InSequence
    OBVIOUS
  <1>1. worklist = BlockOrder /\ worklist \in Seq(Blocks)
    BY StateInit DEF Init, BlockOrder, StateOK
  <1>2. PICK L \in Nat : L = Len(worklist)
    BY <1>1
  <1>3. \A i \in 1..L : (L - L) + i = i
    BY <1>2
  <1> QED
    BY <1>1, <1>2, <1>3 DEF InSequence

LEMMA SequenceTail ==
    ASSUME ProgramOK, StateOK, InSequence, UNCHANGED program, worklist # <<>>, worklist' = Tail(worklist)
    PROVE  InSequence'
  <1>1. worklist \in Seq(Blocks) /\ Distinct(worklist)
    BY DEF StateOK
  <1>2. PICK v : v = Tail(worklist)
    OBVIOUS
  <1>3. /\ Len(worklist) \in Nat /\ Len(worklist) > 0 /\ Len(v) = Len(worklist) - 1
        /\ \A i \in 1..(Len(worklist) - 1) : v[i] = worklist[i + 1]
    BY <1>1, <1>2, TailFacts
  <1>4. PICK L \in Nat, M \in Nat : L = Len(worklist) /\ M = Len(BlockOrder)
    <2>1. BlockOrder \in Seq(Blocks)
      BY ProgramFacts DEF Ordered
    <2> QED
      BY <1>3, <2>1
  <1>5. BlockOrder' = BlockOrder /\ LoopFree' = LoopFree
    BY ProgramKept DEF LoopFree, program
  <1>6. ASSUME LoopFree
        PROVE  L - 1 <= M /\ \A i \in 1..(L - 1) : v[i] = BlockOrder[(M - (L - 1)) + i]
    <2>1. L <= M /\ \A i \in 1..L : worklist[i] = BlockOrder[(M - L) + i]
      BY <1>4, <1>6 DEF InSequence
    <2>2. ASSUME NEW i \in 1..(L - 1) PROVE v[i] = BlockOrder[(M - (L - 1)) + i]
      <3>1. i + 1 \in 1..L /\ (M - L) + (i + 1) = (M - (L - 1)) + i
        OBVIOUS
      <3>2. v[i] = worklist[i + 1]
        BY <1>3, <1>4
      <3>3. worklist[i + 1] = BlockOrder[(M - L) + (i + 1)]
        BY <2>1, <3>1
      <3> QED
        BY <3>1, <3>2, <3>3
    <2>3. L - 1 <= M
      BY <2>1
    <2> QED
      BY <2>2, <2>3
  <1>7. worklist' = v /\ Len(v) = L - 1
    BY <1>2, <1>3, <1>4
  <1> QED
    BY <1>4, <1>5, <1>6, <1>7 DEF InSequence

LEMMA SequenceProcess ==
    ASSUME ProgramOK, StateOK, InSequence, NEW b, NEW x, NEW T, Process(b, x, T)
    PROVE  /\ InSequence'
           /\ LoopFree => T \subseteq ToSet(worklist) \ {b} /\ ToSet(worklist') = ToSet(worklist) \ {b}
  <1>1. worklist \in Seq(Blocks) /\ Distinct(worklist) /\ worklist # <<>> /\ worklist[1] = b /\ b \in Blocks
    BY DEF StateOK, Process
  <1>2. PICK L \in Nat, M \in Nat : L = Len(worklist) /\ M = Len(BlockOrder)
    <2>1. BlockOrder \in Seq(Blocks)
      BY ProgramFacts DEF Ordered
    <2> QED
      BY <1>1, <2>1
  <1>3. BlockOrder' = BlockOrder /\ LoopFree' = LoopFree /\ UNCHANGED program
    BY ProgramKept DEF LoopFree, program, Process
  <1>4. ASSUME LoopFree PROVE T \subseteq ToSet(worklist) \ {b}
    <2>1. L <= M /\ \A i \in 1..L : worklist[i] = BlockOrder[(M - L) + i]
      BY <1>2, <1>4 DEF InSequence
    <2>2. L > 0 /\ DOMAIN worklist = 1..L
      BY <1>1, <1>2
    <2>3. (M - L) + 1 \in 1..M
      BY <2>1, <2>2
    <2>4. BlockOrder[(M - L) + 1] = b
      BY <1>1, <2>1, <2>2
    <2> SUFFICES ASSUME NEW c \in T PROVE c \in ToSet(worklist) \ {b}
      OBVIOUS
    <2>5. c \in ToSet(successors[b])
      BY ProcessFacts
    <2>6. PICK i \in 1..M : i > (M - L) + 1 /\ BlockOrder[i] = c
      BY <1>2, <1>4, <2>3, <2>4, <2>5, Later
    <2>7. i - (M - L) \in 1..L /\ i - (M - L) # 1 /\ (M - L) + (i - (M - L)) = i
      BY <2>1, <2>6
    <2>8. worklist[i - (M - L)] = c
      BY <2>1, <2>6, <2>7
    <2>9. c # b
      BY <1>1, <1>2, <2>2, <2>7, <2>8 DEF Distinct
    <2> QED
      BY <2>2, <2>7, <2>8, <2>9 DEF ToSet
  <1>5. CASE LoopFree
    <2>1. worklist' = Tail(worklist)
      BY <1>4, <1>5 DEF Process
    <2>2. InSequence'
      BY <1>1, <1>3, <2>1, SequenceTail
    <2>3. ToSet(worklist') = ToSet(worklist) \ {b}
      BY <1>4, <1>5 DEF Process
    <2> QED
      BY <1>4, <2>2, <2>3
  <1>6. CASE ~LoopFree
    BY <1>3, <1>6 DEF InSequence
  <1> QED
    BY <1>5, <1>6

LEMMA PlacesInit == Init => PlacesSettled
  <1> SUFFICES ASSUME Init, NEW b \in Blocks, entrySets[b].reachable PROVE b \in ToSet(worklist)
    BY DEF PlacesSettled
  <1>1. StateOK /\ worklist = BlockOrder
    BY StateInit DEF Init, BlockOrder
  <1> QED
    BY <1>1 DEF StateOK

PlacesAt(c) ==
    LoopFree /\ analysis # "range-analysis" /\ entrySets[c].reachable /\ c \notin ToSet(worklist) =>
        \A d \in ToSet(successors[c]) : Effect(c).pos \subseteq entrySets[d].pos

LEMMA PlacesNext ==
    ASSUME UNCHANGED program, NEW c \in Blocks, NEW e, e = PropagateExpressionEffect(entrySets'[c], c),
           LoopFree /\ analysis # "range-analysis" /\ entrySets'[c].reachable /\ c \notin ToSet(worklist') =>
               \A d \in ToSet(successors[c]) : e.pos \subseteq entrySets'[d].pos
    PROVE  PlacesAt(c)'
  <1>1. Effect(c)' = e
    BY DEF Effect, PropagateExpressionEffect, program
  <1>2. LoopFree' = LoopFree /\ analysis' = analysis /\ successors' = successors
    BY DEF LoopFree, program
  <1> QED
    BY <1>1, <1>2 DEF PlacesAt

LEMMA PlacesProcess ==
    ASSUME ProgramOK, StateOK, InSequence, PlacesSettled, NEW b, NEW x, NEW T, Process(b, x, T)
    PROVE  PlacesSettled'
  <1>1. /\ b \in Blocks /\ x \in AbstractStates /\ x.reachable /\ T \subseteq Blocks
        /\ analysis # "range-analysis" => T = ToSet(successors[b])
        /\ \A d \in T : entrySets'[d] = Joined(entrySets[d], x)
        /\ \A d \in Blocks \ T : entrySets'[d] = entrySets[d]
    BY ProcessFacts
  <1>2. UNCHANGED program /\ x = ExitState(b)
    BY DEF Process
  <1>3. LoopFree => T \subseteq ToSet(worklist) \ {b} /\ ToSet(worklist') = ToSet(worklist) \ {b}
    BY SequenceProcess
  <1>4. ASSUME NEW c \in Blocks PROVE PlacesAt(c)'
    <2>1. PICK e : e = PropagateExpressionEffect(entrySets'[c], c)
      OBVIOUS
    <2>2. ASSUME LoopFree, analysis # "range-analysis", entrySets'[c].reachable, c \notin ToSet(worklist'),
                 NEW d \in ToSet(successors[c])
          PROVE  e.pos \subseteq entrySets'[d].pos
      <3>1. c \notin T
        BY <1>3, <2>2
      <3>2. entrySets'[c] = entrySets[c]
        BY <1>1, <3>1
      <3>3. e = Effect(c)
        BY <2>1, <3>2 DEF Effect
      <3>4. d \in Blocks
        BY <2>2, TargetFacts
      <3>5. entrySets[d] \in AbstractStates
        BY <3>4 DEF StateOK
      <3>6. d \in T => entrySets'[d].pos = entrySets[d].pos \cup x.pos
        <4> SUFFICES ASSUME d \in T PROVE entrySets'[d].pos = entrySets[d].pos \cup x.pos
          OBVIOUS
        <4>1. PICK j : j = Joined(entrySets[d], x)
          OBVIOUS
        <4>2. j.pos = entrySets[d].pos \cup x.pos
          BY <1>1, <2>2, <3>5, <4>1, JoinedFields
        <4> QED
          BY <1>1, <4>1, <4>2
      <3>7. CASE c = b
        <4>1. d \in T
          BY <1>1, <2>2, <3>7
        <4>2. x.pos = e.pos
          BY <1>1, <1>2, <3>3, <3>7, ExitFields
        <4> QED
          BY <3>6, <4>1, <4>2
      <3>8. CASE c # b
        <4>1. c \notin ToSet(worklist)
          BY <1>3, <2>2, <3>8
        <4>2. e.pos \subseteq entrySets[d].pos
          BY <2>2, <3>2, <3>3, <4>1 DEF PlacesSettled
        <4> QED
          BY <1>1, <3>4, <3>6, <4>2
      <3> QED
        BY <3>7, <3>8
    <2> QED
      BY <1>2, <2>1, <2>2, PlacesNext
  <1> QED
    BY <1>4 DEF PlacesSettled, PlacesAt, Blocks

LEMMA PlacesDrop ==
    ASSUME ProgramOK, StateOK, PlacesSettled, NEW b, Drop(b)
    PROVE  PlacesSettled'
  <1>1. UNCHANGED program /\ entrySets' = entrySets /\ ~entrySets[b].reachable
    BY DEF Drop
  <1>2. ToSet(worklist') = ToSet(worklist) \ {b}
    <2>1. worklist \in Seq(Blocks) /\ worklist # <<>> /\ Distinct(worklist) /\ b = worklist[1] /\ worklist' = Tail(worklist)
      BY DEF StateOK, Drop
    <2> QED
      BY <2>1, TailFacts
  <1>3. ASSUME NEW c \in Blocks PROVE PlacesAt(c)'
    <2>1. PICK e : e = PropagateExpressionEffect(entrySets'[c], c)
      OBVIOUS
    <2>2. e = Effect(c)
      BY <1>1, <2>1 DEF Effect
    <2>3. LoopFree /\ analysis # "range-analysis" /\ entrySets'[c].reachable /\ c \notin ToSet(worklist') =>
              \A d \in ToSet(successors[c]) : e.pos \subseteq entrySets'[d].pos
      BY <1>1, <1>2, <2>2 DEF PlacesSettled
    <2> QED
      BY <1>1, <2>1, <2>3, PlacesNext
  <1> QED
    BY <1>3 DEF PlacesSettled, PlacesAt, Blocks

\* Joining what is absorbed changes nothing.
LEMMA AbsorbedJoin ==
    ASSUME ProgramOK, NEW s \in AbstractStates, NEW t \in AbstractStates, t.reachable, Absorbs(s, t), NEW j, j = Joined(s, t)
    PROVE  /\ s.reachable /\ j.bit = s.bit /\ j.range = s.range
           /\ (analysis # "range-analysis" => t.pos \subseteq s.pos) => j.pos = s.pos
  <1>1. /\ analysis = "range-analysis" /\ s.reachable =>
              j.bit = s.bit /\ j.pos = s.pos /\ j.range = Hull(s.range, t.range)
        /\ analysis # "range-analysis" =>
              j.bit = (s.bit \/ t.bit) /\ j.pos = s.pos \cup t.pos /\ j.range = s.range
    BY JoinedFields
  <1>2. /\ s.bit \in BOOLEAN /\ t.bit \in BOOLEAN /\ s.range \in Ranges /\ t.range \in Ranges
        /\ s.pos \in SUBSET Blocks /\ t.pos \in SUBSET Blocks
    BY StateFields
  <1>3. s.reachable
    BY DEF Absorbs
  <1>4. CASE analysis = "range-analysis"
    <2>1. s.range.lo <= t.range.lo /\ t.range.hi <= s.range.hi
      BY <1>4 DEF Absorbs
    <2>2. PICK lo \in 0..Largest, hi \in 0..Largest : s.range = [lo |-> lo, hi |-> hi]
      BY <1>2 DEF Ranges
    <2>3. PICK l \in 0..Largest, h \in 0..Largest : t.range = [lo |-> l, hi |-> h]
      BY <1>2 DEF Ranges
    <2>4. Largest \in Nat
      BY ProgramFacts
    <2>5. s.range.lo = lo /\ s.range.hi = hi /\ t.range.lo = l /\ t.range.hi = h
      BY <2>2, <2>3
    <2>6. lo <= l /\ h <= hi
      BY <2>1, <2>5
    <2>7. (IF lo <= l THEN lo ELSE l) = lo /\ (IF hi >= h THEN hi ELSE h) = hi
      BY <2>4, <2>6
    <2>8. Hull(s.range, t.range) = s.range
      BY <2>2, <2>5, <2>7 DEF Hull
    <2> QED
      BY <1>1, <1>3, <1>4, <2>8
  <1>5. CASE analysis # "range-analysis"
    <2>1. t.bit => s.bit
      BY <1>5 DEF Absorbs
    <2>2. (s.bit \/ t.bit) = s.bit
      BY <1>2, <2>1
    <2>3. t.pos \subseteq s.pos => s.pos \cup t.pos = s.pos
      OBVIOUS
    <2> QED
      BY <1>1, <1>3, <1>5, <2>2, <2>3
  <1> QED
    BY <1>4, <1>5

LEMMA FixpointAtEnd ==
    ASSUME ProgramOK, StateOK, Settled, PlacesSettled
    PROVE  FixpointReached
  <1> SUFFICES ASSUME Done, NEW b \in Blocks, entrySets[b].reachable, NEW e, e = Effect(b), NEW c \in TargetSucc(e, b),
                      NEW j, j = Joined(entrySets[c], e)
               PROVE  /\ j.bit = entrySets[c].bit /\ j.range = entrySets[c].range /\ entrySets[c].reachable
                      /\ LoopFree => j.pos = entrySets[c].pos
    BY DEF FixpointReached, Effect
  <1>1. ToSet(worklist) = {}
    BY DEF Done, ToSet
  <1>2. c \in ToSet(successors[b]) /\ c \in Blocks
    BY TargetFacts
  <1>3. entrySets[c] \in AbstractStates
    BY <1>2 DEF StateOK
  <1>4. e \in AbstractStates /\ e.reachable
    BY ExitFields
  <1>5. Absorbs(entrySets[c], e)
    BY <1>1 DEF Settled
  <1>6. LoopFree => (analysis # "range-analysis" => e.pos \subseteq entrySets[c].pos)
    BY <1>1, <1>2 DEF PlacesSettled
  <1>7. /\ entrySets[c].reachable /\ j.bit = entrySets[c].bit /\ j.range = entrySets[c].range
        /\ (analysis # "range-analysis" => e.pos \subseteq entrySets[c].pos) => j.pos = entrySets[c].pos
    BY <1>3, <1>4, <1>5, AbsorbedJoin
  <1> QED
    BY <1>6, <1>7

-----------------------------------------------------------------------------
(* A block is processed a few times only.                                  *)

\* The visits of the predecessors that send what they know.
LEMMA SentFacts ==
    ASSUME ProgramOK, NEW c \in Blocks
    PROVE  /\ IsFiniteSet(Sent(c)) /\ Cardinality(Sent(c)) \in Nat
           /\ \A S : S = {p \in Blocks : c \in ToSet(successors[p])} =>
                 Cardinality(S) \in Nat /\ Cardinality(Sent(c)) <= 3 * Cardinality(S)
  <1> DEFINE S == {p \in Blocks : c \in ToSet(successors[p])}
  <1>1. Size \in Nat /\ Blocks = 1..Size
    BY ProgramFacts
  <1>2. IsFiniteSet(Blocks)
    <2>1. 1 \in Int /\ Size \in Int
      BY <1>1
    <2> QED
      BY <1>1, <2>1, FS_Interval
  <1>3. IsFiniteSet(S) /\ Cardinality(S) \in Nat
    <2>1. S \in SUBSET Blocks
      OBVIOUS
    <2> HIDE DEF S
    <2> QED
      BY <1>2, <2>1, FS_Subset, FS_CardinalityType
  <1>4. IsFiniteSet(1..3) /\ Cardinality(1..3) = 3
    <2>1. 1 \in Int /\ 3 \in Int /\ (IF 1 > 3 THEN 0 ELSE 3 - 1 + 1) = 3
      OBVIOUS
    <2> QED
      BY <2>1, FS_Interval
  <1>5. IsFiniteSet(S \X (1..3)) /\ Cardinality(S \X (1..3)) = Cardinality(S) * 3
    <2> HIDE DEF S
    <2> QED
      BY <1>3, <1>4, FS_Product
  <1>6. Sent(c) \in SUBSET (S \X (1..3))
    BY DEF Sent
  <1>7. IsFiniteSet(Sent(c)) /\ Cardinality(Sent(c)) <= Cardinality(S \X (1..3)) /\ Cardinality(Sent(c)) \in Nat
    <2> HIDE DEF S
    <2> QED
      BY <1>5, <1>6, FS_Subset, FS_CardinalityType
  <1>8. Cardinality(Sent(c)) <= 3 * Cardinality(S)
    <2> HIDE DEF S
    <2>1. PICK n \in Nat : n = Cardinality(S)
      BY <1>3
    <2>2. n * 3 = 3 * n
      OBVIOUS
    <2> QED
      BY <1>5, <1>7, <2>1, <2>2
  <1> QED
    BY <1>3, <1>7, <1>8

LEMMA DueFacts ==
    ASSUME NEW c
    PROVE  /\ Due(c) \in {0, 1}
           /\ Due(c) = 1 <=> c \in ToSet(worklist) /\ entrySets[c].reachable
           /\ Due(c)' \in {0, 1}
           /\ Due(c)' = 1 <=> c \in ToSet(worklist') /\ entrySets'[c].reachable
  BY DEF Due

\* A block is due for a further visit only when its state has changed.
LEMMA DueAfter ==
    ASSUME ProgramOK, StateOK, NEW b, NEW x, NEW T, Process(b, x, T), NEW c \in Blocks,
           entrySets[c].reachable \/ analysis = "range-analysis"
    PROVE  inqueueTimes'[c] + Due(c)' <= inqueueTimes[c] + Due(c)
               + (IF c \in T /\ HasChanged(entrySets[c], x) THEN 1 ELSE 0)
  <1>1. /\ b \in Blocks /\ b \in ToSet(worklist) /\ entrySets[b].reachable /\ x \in AbstractStates /\ x.reachable
        /\ \A d \in T : entrySets'[d] = Joined(entrySets[d], x)
        /\ \A d \in Blocks \ T : entrySets'[d] = entrySets[d]
        /\ inqueueTimes' \in [Blocks -> Nat] /\ inqueueTimes'[b] = inqueueTimes[b] + 1
        /\ \A d \in Blocks : d # b => inqueueTimes'[d] = inqueueTimes[d]
    BY ProcessFacts
  <1>2. ToSet(worklist') = (ToSet(worklist) \ {b}) \cup {d \in T : HasChanged(entrySets[d], x)}
    BY DEF Process
  <1>3. PICK n \in Nat, p \in {0, 1}, q \in {0, 1} : n = inqueueTimes[c] /\ p = Due(c) /\ q = Due(c)'
    BY DueFacts DEF StateOK
  <1>4. CASE c \in T /\ HasChanged(entrySets[c], x)
    <2>1. CASE c = b
      <3>1. p = 1 /\ inqueueTimes'[c] = n + 1
        BY <1>1, <1>3, <2>1, DueFacts
      <3>2. (n + 1) + q <= (n + 1) + 1
        OBVIOUS
      <3> QED
        BY <1>3, <1>4, <3>1, <3>2
    <2>2. CASE c # b
      <3>1. inqueueTimes'[c] = n
        BY <1>1, <1>3, <2>2
      <3>2. n + q <= (n + p) + 1
        OBVIOUS
      <3> QED
        BY <1>3, <1>4, <3>1, <3>2
    <2> QED
      BY <2>1, <2>2
  <1>5. CASE ~(c \in T /\ HasChanged(entrySets[c], x))
    <2>1. CASE c = b
      <3>1. p = 1 /\ inqueueTimes'[c] = n + 1
        BY <1>1, <1>3, <2>1, DueFacts
      <3>2. q = 0
        BY <1>2, <1>3, <1>5, <2>1, DueFacts
      <3>3. (n + 1) + 0 <= (n + 1) + 0
        OBVIOUS
      <3> QED
        BY <1>3, <1>5, <3>1, <3>2, <3>3
    <2>2. CASE c # b
      <3>1. inqueueTimes'[c] = n
        BY <1>1, <1>3, <2>2
      <3>2. c \in ToSet(worklist') => c \in ToSet(worklist)
        BY <1>2, <1>5
      <3>3. entrySets'[c].reachable => entrySets[c].reachable
        <4>1. CASE c \notin T
          BY <1>1, <4>1
        <4>2. CASE c \in T
          <5>1. ~HasChanged(entrySets[c], x) /\ entrySets[c] \in AbstractStates
            BY <1>5, <4>2 DEF StateOK
          <5>2. analysis = "range-analysis" => entrySets[c].reachable
            BY <1>1, <5>1, ChangedFacts
          <5> QED
            BY <5>2
        <4> QED
          BY <4>1, <4>2
      <3>4. q = 1 => p = 1
        BY <1>3, <3>2, <3>3, DueFacts
      <3>5. n + q <= (n + p) + 0
        BY <3>4
      <3> QED
        BY <1>3, <1>5, <3>1, <3>5
    <2> QED
      BY <2>1, <2>2
  <1> QED
    BY <1>4, <1>5

\* A block that is dropped was not due.
LEMMA DueDrop ==
    ASSUME StateOK, NEW b, Drop(b), NEW c \in Blocks
    PROVE  Due(c)' = Due(c)
  <1>1. worklist \in Seq(Blocks) /\ worklist # <<>> /\ Distinct(worklist) /\ b = worklist[1] /\ worklist' = Tail(worklist)
    BY DEF StateOK, Drop
  <1>2. ToSet(worklist') = ToSet(worklist) \ {b}
    BY <1>1, TailFacts
  <1>3. entrySets' = entrySets /\ ~entrySets[b].reachable
    BY DEF Drop
  <1> QED
    BY <1>2, <1>3 DEF Due

LEMMA BitVisitsInit == Init => BitVisits
  <1> SUFFICES ASSUME Init, NEW b \in Blocks
               PROVE  inqueueTimes[b] + Due(b) <= IF entrySets[b].bit THEN 2 ELSE 1
    BY DEF BitVisits
  <1>1. inqueueTimes[b] = 0
    BY DEF Init
  <1> QED
    BY <1>1, DueFacts

LEMMA BitVisitsDrop ==
    ASSUME ProgramOK, StateOK, BitVisits, NEW b, Drop(b)
    PROVE  BitVisits'
  <1>1. analysis' = analysis /\ entrySets' = entrySets /\ inqueueTimes' = inqueueTimes
    BY DEF Drop, program
  <1>2. \A c \in Blocks : Due(c)' = Due(c)
    BY DueDrop
  <1> QED
    BY <1>1, <1>2 DEF BitVisits, Blocks

LEMMA BitVisitsProcess ==
    ASSUME ProgramOK, StateOK, BitVisits, NEW b, NEW x, NEW T, Process(b, x, T)
    PROVE  BitVisits'
  <1>1. analysis' = analysis
    BY DEF Process, program
  <1>2. /\ b \in Blocks /\ entrySets[b].reachable /\ x \in AbstractStates /\ x.reachable
        /\ \A d \in T : entrySets'[d] = Joined(entrySets[d], x)
        /\ \A d \in Blocks \ T : entrySets'[d] = entrySets[d]
        /\ inqueueTimes' \in [Blocks -> Nat]
        /\ \A d \in Blocks : d # b => inqueueTimes'[d] = inqueueTimes[d]
    BY ProcessFacts
  <1>3. ASSUME analysis # "range-analysis", NEW c \in Blocks
        PROVE  inqueueTimes'[c] + Due(c)' <= IF entrySets'[c].bit THEN 2 ELSE 1
    <2>1. PICK s \in AbstractStates : s = entrySets[c]
      BY DEF StateOK
    <2>2. PICK n \in Nat, p \in {0, 1}, q \in {0, 1} : n = inqueueTimes[c] /\ p = Due(c) /\ q = Due(c)'
      BY DueFacts DEF StateOK
    <2>3. s.bit \in BOOLEAN /\ x.bit \in BOOLEAN
      BY <1>2, <2>1, StateFields
    <2>4. c \in T => entrySets'[c].bit = (s.bit \/ x.bit)
      <3> SUFFICES ASSUME c \in T PROVE entrySets'[c].bit = (s.bit \/ x.bit)
        OBVIOUS
      <3>1. PICK j : j = Joined(s, x)
        OBVIOUS
      <3>2. j.bit = (s.bit \/ x.bit)
        BY <1>2, <1>3, <3>1, JoinedFields
      <3> QED
        BY <1>2, <2>1, <3>1, <3>2
    <2>5. CASE ~s.reachable
      <3>1. n = 0 /\ c # b
        BY <1>2, <2>1, <2>2, <2>5 DEF StateOK
      <3>2. inqueueTimes'[c] = 0
        BY <1>2, <2>2, <3>1
      <3>3. 0 + q <= 1 /\ 0 + q <= 2
        OBVIOUS
      <3> QED
        BY <2>2, <3>2, <3>3
    <2>6. CASE s.reachable
      <3>1. n + p <= IF s.bit THEN 2 ELSE 1
        BY <1>3, <2>1, <2>2 DEF BitVisits
      <3>2. HasChanged(s, x) <=> x.bit /\ ~s.bit
        BY <1>2, <1>3, ChangedFacts
      <3>3. PICK m \in Nat : m = inqueueTimes'[c]
        BY <1>2
      <3>4. m + q <= (n + p) + (IF c \in T /\ HasChanged(s, x) THEN 1 ELSE 0)
        BY <2>1, <2>2, <2>6, <3>3, DueAfter
      <3>5. CASE c \in T /\ HasChanged(s, x)
        <4>1. ~s.bit /\ entrySets'[c].bit
          BY <2>3, <2>4, <3>2, <3>5
        <4>2. m + q <= (n + p) + 1 /\ n + p <= 1
          BY <3>1, <3>4, <3>5, <4>1
        <4>3. m + q <= 2
          BY <4>2
        <4> QED
          BY <2>2, <3>3, <4>1, <4>3
      <3>6. CASE ~(c \in T /\ HasChanged(s, x))
        <4>1. m + q <= n + p
          BY <3>4, <3>6
        <4>2. entrySets'[c].bit = s.bit
          BY <1>2, <2>1, <2>3, <2>4, <3>2, <3>6
        <4>3. CASE s.bit
          <5>1. n + p <= 2
            BY <3>1, <4>3
          <5>2. m + q <= 2
            BY <4>1, <5>1
          <5> QED
            BY <2>2, <3>3, <4>2, <4>3, <5>2
        <4>4. CASE ~s.bit
          <5>1. n + p <= 1
            BY <3>1, <4>4
          <5>2. m + q <= 1
            BY <4>1, <5>1
          <5> QED
            BY <2>2, <3>3, <4>2, <4>4, <5>2
        <4> QED
          BY <4>3, <4>4
      <3> QED
        BY <3>5, <3>6
    <2> QED
      BY <2>5, <2>6
  <1> QED
    BY <1>1, <1>3 DEF BitVisits, Blocks

\* A visit before the block gives up is one that sends.
LEMMA SentAfter ==
    ASSUME ProgramOK, StateOK, NEW b, NEW x, NEW T, Process(b, x, T), NEW c \in Blocks
    PROVE  /\ Cardinality(Sent(c)') \in Nat /\ Cardinality(Sent(c)') >= Cardinality(Sent(c))
           /\ c \in T /\ analysis = "range-analysis" /\ ~GivesUp(b) => Cardinality(Sent(c)') >= Cardinality(Sent(c)) + 1
  <1>1. /\ b \in Blocks /\ T \subseteq ToSet(successors[b])
        /\ inqueueTimes' \in [Blocks -> Nat] /\ inqueueTimes'[b] = inqueueTimes[b] + 1
        /\ \A d \in Blocks : d # b => inqueueTimes'[d] = inqueueTimes[d]
    BY ProcessFacts
  <1>2. inqueueTimes \in [Blocks -> Nat] /\ successors' = successors /\ UNCHANGED program
    BY DEF StateOK, Process, program
  <1>3. PICK R : R = {v \in Blocks \X (1..3) : c \in ToSet(successors[v[1]]) /\ v[2] <= inqueueTimes'[v[1]]}
    OBVIOUS
  <1>4. Sent(c)' = R
    BY <1>2, <1>3 DEF Sent, Blocks
  <1>5. IsFiniteSet(R)
    <2>1. IsFiniteSet(Blocks \X (1..3))
      <3>1. Size \in Nat /\ Blocks = 1..Size
        BY ProgramFacts
      <3>2. 1 \in Int /\ Size \in Int /\ 3 \in Int
        BY <3>1
      <3>3. IsFiniteSet(Blocks) /\ IsFiniteSet(1..3)
        BY <3>1, <3>2, FS_Interval
      <3> QED
        BY <3>3, FS_Product
    <2> QED
      BY <1>3, <2>1, FS_Subset
  <1>6. Cardinality(R) \in Nat /\ IsFiniteSet(Sent(c)) /\ Cardinality(Sent(c)) \in Nat
    BY <1>5, FS_CardinalityType, SentFacts
  <1>7. Sent(c) \in SUBSET R
    <2> SUFFICES ASSUME NEW v \in Sent(c) PROVE v \in R
      OBVIOUS
    <2>1. PICK d \in Blocks, n \in 1..3 : v = <<d, n>> /\ c \in ToSet(successors[d]) /\ n <= inqueueTimes[d]
      BY DEF Sent
    <2>2. inqueueTimes[d] \in Nat /\ (inqueueTimes'[d] = inqueueTimes[d] \/ inqueueTimes'[d] = inqueueTimes[d] + 1)
      BY <1>1, <1>2
    <2>3. n <= inqueueTimes'[d]
      BY <2>1, <2>2
    <2> QED
      BY <1>3, <2>1, <2>3
  <1>8. Cardinality(R) >= Cardinality(Sent(c))
    BY <1>5, <1>6, <1>7, FS_Subset
  <1>9. ASSUME c \in T, analysis = "range-analysis", ~GivesUp(b) PROVE Cardinality(R) >= Cardinality(Sent(c)) + 1
    <2>1. PICK t \in Nat : t = inqueueTimes[b]
      BY <1>1, <1>2
    <2>2. ~(t + 1 >= 4)
      BY <1>9, <2>1 DEF GivesUp, MAX_INQUEUE_TIMES
    <2>3. t + 1 \in 1..3 /\ ~(t + 1 <= t)
      BY <2>2
    <2> DEFINE v == <<b, t + 1>>
    <2>4. v \in Blocks \X (1..3) /\ v[1] = b /\ v[2] = t + 1
      BY <1>1, <2>3
    <2>5. v \in R
      BY <1>1, <1>3, <1>9, <2>1, <2>4
    <2>6. v \notin Sent(c)
      BY <2>1, <2>3, <2>4 DEF Sent
    <2> HIDE DEF v
    <2>7. Cardinality(Sent(c) \cup {v}) = Cardinality(Sent(c)) + 1
      BY <1>6, <2>6, FS_AddElement
    <2>8. Sent(c) \cup {v} \in SUBSET R
      BY <1>7, <2>5
    <2>9. Cardinality(Sent(c) \cup {v}) <= Cardinality(R)
      BY <1>5, <2>8, FS_Subset
    <2> QED
      BY <1>6, <2>7, <2>9
  <1> QED
    BY <1>4, <1>6, <1>8, <1>9

\* All that is known of a block that was reached is that the variable has some value.
Unknown(s) == s.reachable /\ s.range = Top

LEMMA RangeVisitsInit == Init => RangeVisits
  <1> SUFFICES ASSUME Init PROVE RangeVisits
    OBVIOUS
  <1>1. \A b \in Blocks : inqueueTimes[b] = 0
    BY DEF Init
  <1>2. 1 \in Blocks
    BY ProgramInit, ProgramFacts
  <1>3. inqueueTimes[1] + Due(1) <= 1
    BY <1>1, <1>2, DueFacts
  <1>4. ASSUME NEW b \in Blocks \ {1}
        PROVE  inqueueTimes[b] + Due(b)
                  <= Cardinality(Sent(b)) + (IF entrySets[b].reachable /\ entrySets[b].range = Top THEN 1 ELSE 0)
    <2>1. ~entrySets[b].reachable
      BY DEF Init, Bottom
    <2>2. Due(b) = 0
      BY <2>1 DEF Due
    <2>3. Cardinality(Sent(b)) \in Nat
      BY ProgramInit, SentFacts
    <2> QED
      BY <1>1, <2>1, <2>2, <2>3
  <1> QED
    BY <1>3, <1>4 DEF RangeVisits

LEMMA RangeVisitsDrop ==
    ASSUME ProgramOK, StateOK, RangeVisits, NEW b, Drop(b)
    PROVE  RangeVisits'
  <1>1. analysis' = analysis /\ entrySets' = entrySets /\ inqueueTimes' = inqueueTimes /\ successors' = successors
    BY DEF Drop, program
  <1>2. \A c \in Blocks : Due(c)' = Due(c)
    BY DueDrop
  <1>3. \A c : Sent(c)' = Sent(c)
    BY <1>1 DEF Sent, Blocks
  <1>4. 1 \in Blocks
    BY ProgramFacts
  <1>5. Due(1)' = Due(1)
    BY <1>2, <1>4
  <1>6. Top' = Top /\ Blocks' = Blocks
    BY DEF Top, Blocks
  <1> QED
    BY <1>1, <1>2, <1>3, <1>5, <1>6 DEF RangeVisits

LEMMA RangeVisitsProcess ==
    ASSUME ProgramOK, StateOK, RangeVisits, NEW b, NEW x, NEW T, Process(b, x, T)
    PROVE  RangeVisits'
  <1>1. analysis' = analysis /\ x = ExitState(b) /\ b \in Blocks
    BY DEF Process, program
  <1>2. /\ x \in AbstractStates /\ x.reachable /\ T \subseteq Blocks \ {1}
        /\ entrySets' \in [Blocks -> AbstractStates]
        /\ \A d \in T : entrySets'[d] = Joined(entrySets[d], x) /\ entrySets'[d].reachable
        /\ \A d \in Blocks \ T : entrySets'[d] = entrySets[d]
        /\ inqueueTimes' \in [Blocks -> Nat]
    BY ProcessFacts
  <1>3. 1 \in Blocks
    BY ProgramFacts
  <1> SUFFICES ASSUME analysis = "range-analysis" PROVE RangeVisits'
    BY <1>1 DEF RangeVisits
  <1>4. inqueueTimes'[1] + Due(1)' <= 1
    <2>1. PICK n \in Nat, m \in Nat, p \in {0, 1}, q \in {0, 1} :
              n = inqueueTimes[1] /\ m = inqueueTimes'[1] /\ p = Due(1) /\ q = Due(1)'
      BY <1>2, <1>3, DueFacts DEF StateOK
    <2>2. n + p <= 1
      BY <2>1 DEF RangeVisits
    <2>3. m + q <= (n + p) + (IF 1 \in T /\ HasChanged(entrySets[1], x) THEN 1 ELSE 0)
      BY <1>3, <2>1, DueAfter
    <2>4. 1 \notin T
      BY <1>2
    <2>5. m + q <= 1
      BY <2>2, <2>3, <2>4
    <2> QED
      BY <2>1, <2>5
  <1>5. ASSUME NEW c \in Blocks \ {1}
        PROVE  inqueueTimes'[c] + Due(c)' <= Cardinality(Sent(c)') + (IF Unknown(entrySets'[c]) THEN 1 ELSE 0)
    <2>1. PICK n \in Nat, m \in Nat, p \in {0, 1}, q \in {0, 1} :
              n = inqueueTimes[c] /\ m = inqueueTimes'[c] /\ p = Due(c) /\ q = Due(c)'
      BY <1>2, DueFacts DEF StateOK
    <2>2. PICK k \in Nat, l \in Nat : k = Cardinality(Sent(c)) /\ l = Cardinality(Sent(c)')
      BY SentFacts, SentAfter
    <2>3. PICK s \in AbstractStates : s = entrySets[c]
      BY DEF StateOK
    <2>4. n + p <= k + (IF Unknown(s) THEN 1 ELSE 0)
      BY <2>1, <2>2, <2>3 DEF RangeVisits, Unknown
    <2>5. m + q <= (n + p) + (IF c \in T /\ HasChanged(s, x) THEN 1 ELSE 0)
      BY <2>1, <2>3, DueAfter
    <2>6. l >= k /\ (c \in T /\ ~GivesUp(b) => l >= k + 1)
      BY <2>2, SentAfter
    <2>7. s.range \in Ranges /\ x.range \in Ranges
      BY <1>2, <2>3, StateFields
    <2>8. Unknown(s) => Unknown(entrySets'[c])
      <3>1. CASE c \notin T
        BY <1>2, <2>3, <3>1
      <3>2. CASE c \in T
        <4> SUFFICES ASSUME Unknown(s) PROVE Unknown(entrySets'[c])
          OBVIOUS
        <4>1. PICK j : j = Joined(s, x)
          OBVIOUS
        <4>2. j.range = Hull(s.range, x.range)
          BY <1>2, <4>1, JoinedFields DEF Unknown
        <4>3. Hull(s.range, x.range) = Top
          BY <2>7, HullFacts DEF Unknown
        <4> QED
          BY <1>2, <2>3, <3>2, <4>1, <4>2, <4>3 DEF Unknown
      <3> QED
        BY <3>1, <3>2
    <2>9. CASE ~(c \in T /\ HasChanged(s, x))
      <3>1. m + q <= n + p
        BY <2>5, <2>9
      <3>2. CASE Unknown(entrySets'[c])
        <4>1. n + p <= k + 1
          BY <2>4
        <4>2. m + q <= l + 1
          BY <2>6, <3>1, <4>1
        <4> QED
          BY <2>1, <2>2, <3>2, <4>2
      <3>3. CASE ~Unknown(entrySets'[c])
        <4>1. n + p <= k + 0
          BY <2>4, <2>8, <3>3
        <4>2. m + q <= l + 0
          BY <2>6, <3>1, <4>1
        <4> QED
          BY <2>1, <2>2, <3>3, <4>2
      <3> QED
        BY <3>2, <3>3
    <2>10. CASE c \in T /\ HasChanged(s, x)
      <3>1. m + q <= (n + p) + 1
        BY <2>5, <2>10
      <3>2. CASE ~GivesUp(b)
        <4>1. l >= k + 1
          BY <2>6, <2>10, <3>2
        <4>2. CASE Unknown(entrySets'[c])
          <5>1. n + p <= k + 1
            BY <2>4
          <5>2. m + q <= l + 1
            BY <3>1, <4>1, <5>1
          <5> QED
            BY <2>1, <2>2, <4>2, <5>2
        <4>3. CASE ~Unknown(entrySets'[c])
          <5>1. n + p <= k + 0
            BY <2>4, <2>8, <4>3
          <5>2. m + q <= l + 0
            BY <3>1, <4>1, <5>1
          <5> QED
            BY <2>1, <2>2, <4>3, <5>2
        <4> QED
          BY <4>2, <4>3
      <3>3. CASE GivesUp(b)
        <4>1. x.range = Top
          <5>1. PICK e : e = Effect(b)
            OBVIOUS
          <5> QED
            BY <1>1, <3>3, <5>1, ExitFields
        <4>2. PICK j : j = Joined(s, x)
          OBVIOUS
        <4>3. entrySets'[c] = j /\ j.reachable /\ j # s
          <5>1. HasChanged(s, x) <=> j # s
            BY <1>2, <4>2, ChangedFacts
          <5> QED
            BY <1>2, <2>3, <2>10, <4>2, <5>1
        <4>4. ~s.reachable => j = x
          BY <1>2, <4>2, JoinedFields
        <4>5. s.reachable => j.bit = s.bit /\ j.pos = s.pos /\ j.range = Hull(s.range, x.range)
          BY <1>2, <4>2, JoinedFields
        <4>6. Hull(s.range, x.range) = Top
          BY <2>7, <4>1, HullFacts
        <4>7. Unknown(entrySets'[c])
          BY <4>1, <4>3, <4>4, <4>5, <4>6 DEF Unknown
        <4>8. ~Unknown(s)
          <5> SUFFICES ASSUME Unknown(s) PROVE FALSE
            OBVIOUS
          <5>1. s.reachable /\ s.range = Top
            BY DEF Unknown
          <5>2. j.range = s.range /\ j.bit = s.bit /\ j.pos = s.pos
            BY <4>5, <4>6, <5>1
          <5>3. s = [reachable |-> s.reachable, bit |-> s.bit, pos |-> s.pos, range |-> s.range]
            BY StateFields
          <5>4. j \in AbstractStates
            BY <1>2, <4>2, JoinedFields
          <5>5. j = [reachable |-> j.reachable, bit |-> j.bit, pos |-> j.pos, range |-> j.range] /\ j.reachable \in BOOLEAN
            BY <5>4, StateFields
          <5>6. s.reachable \in BOOLEAN
            BY StateFields
          <5>7. j.reachable = s.reachable
            BY <4>3, <5>1, <5>5, <5>6
          <5> QED
            BY <4>3, <5>2, <5>3, <5>5, <5>7
        <4>9. n + p <= k + 0
          BY <2>4, <4>8
        <4>10. m + q <= l + 1
          BY <2>6, <3>1, <4>9
        <4> QED
          BY <2>1, <2>2, <4>7, <4>10
      <3> QED
        BY <3>2, <3>3
    <2> QED
      BY <2>9, <2>10
  <1>6. Top' = Top /\ Blocks' = Blocks
    BY DEF Top, Blocks
  <1>7. \A c \in Blocks \ {1} : (Cardinality(Sent(c)))' = Cardinality(Sent(c)')
    OBVIOUS
  <1> QED
    BY <1>4, <1>5, <1>6, <1>7 DEF RangeVisits, Unknown

LEMMA FewVisitsHold ==
    ASSUME ProgramOK, StateOK, RangeVisits, BitVisits
    PROVE  FewVisits
  <1> SUFFICES ASSUME NEW b \in Blocks, NEW S, S = {p \in Blocks : \E i \in DOMAIN successors[p] : successors[p][i] = b}
               PROVE  inqueueTimes[b] <= IF analysis = "range-analysis"
                                         THEN (MAX_INQUEUE_TIMES - 1) * Cardinality(S) + 1 ELSE 2
    BY DEF FewVisits
  <1>1. S = {p \in Blocks : b \in ToSet(successors[p])}
    <2>1. \A p \in Blocks : b \in ToSet(successors[p]) <=> \E i \in DOMAIN successors[p] : successors[p][i] = b
      BY DEF ToSet
    <2> QED
      BY <2>1
  <1>2. PICK n \in Nat, q \in {0, 1} : n = inqueueTimes[b] /\ q = Due(b)
    BY DueFacts DEF StateOK
  <1>3. PICK k \in Nat, l \in Nat : k = Cardinality(Sent(b)) /\ l = Cardinality(S) /\ k <= 3 * l
    BY <1>1, SentFacts
  <1>4. CASE analysis # "range-analysis"
    <2>1. n + q <= 2
      BY <1>2, <1>4 DEF BitVisits
    <2>2. n <= 2
      BY <2>1
    <2> QED
      BY <1>2, <1>4, <2>2
  <1>5. CASE analysis = "range-analysis"
    <2>1. n + q <= k + 1
      <3>1. CASE b = 1
        <4>1. n + q <= 1
          BY <1>2, <1>5, <3>1 DEF RangeVisits
        <4> QED
          BY <4>1
      <3>2. CASE b # 1
        BY <1>2, <1>3, <1>5, <3>2 DEF RangeVisits
      <3> QED
        BY <3>1, <3>2
    <2>2. n <= 3 * l + 1
      BY <1>3, <2>1
    <2>3. MAX_INQUEUE_TIMES - 1 = 3
      BY DEF MAX_INQUEUE_TIMES
    <2> QED
      BY <1>2, <1>3, <1>5, <2>2, <2>3
  <1> QED
    BY <1>4, <1>5

-----------------------------------------------------------------------------
(* What the function does: the configurations reached are the least set    *)
(* that holds the first one and is closed under the steps of the function. *)

Configurations == Blocks \X (-1..Largest)
Start == {<<1, IF analysis = "range-analysis" THEN 0 ELSE -1>>}
Extend(S) == S \cup UNION {Runs(c) : c \in S}
Closed(S) == Start \subseteq S /\ \A c \in S : Runs(c) \subseteq S

ValueAfter(b, v) ==
    IF statement[b] = "none" THEN v
    ELSE IF statement[b] = "store" THEN 0
    ELSE IF analysis # "range-analysis" THEN -1
    ELSE IF v = Largest THEN 0 ELSE v + 1
Taken(b, v) ==
    IF ~tested \/ Len(successors[b]) < 2 THEN DOMAIN successors[b] ELSE IF v = 0 THEN {1} ELSE {2}

LEMMA RunsFacts ==
    ASSUME ProgramOK, NEW b \in Blocks, NEW v \in -1..Largest
    PROVE  /\ ValueAfter(b, v) \in -1..Largest
           /\ Runs(<<b, v>>) = {<<successors[b][i], ValueAfter(b, v)>> : i \in Taken(b, ValueAfter(b, v))}
           /\ Taken(b, ValueAfter(b, v)) \subseteq 1..Len(successors[b])
           /\ \A i \in 1..Len(successors[b]) : successors[b][i] \in Blocks
           /\ DOMAIN successors[b] = 1..Len(successors[b])
           /\ Runs(<<b, v>>) \subseteq Configurations
  <1>1. Largest \in Nat /\ statement[b] \in {"none", "store", "other"}
    BY ProgramFacts
  <1>2. ValueAfter(b, v) \in -1..Largest
    BY <1>1 DEF ValueAfter
  <1>3. /\ successors[b] \in Seq(Blocks) /\ Len(successors[b]) \in Nat /\ DOMAIN successors[b] = 1..Len(successors[b])
        /\ \A i \in 1..Len(successors[b]) : successors[b][i] \in Blocks
    BY FlowGraphFacts DEF ProgramOK
  <1>4. Taken(b, ValueAfter(b, v)) \subseteq 1..Len(successors[b])
    BY <1>3 DEF Taken
  <1>5. Runs(<<b, v>>) = {<<successors[b][i], ValueAfter(b, v)>> : i \in Taken(b, ValueAfter(b, v))}
    <2>1. <<b, v>>[1] = b /\ <<b, v>>[2] = v
      OBVIOUS
    <2>2. CASE statement[b] = "none"
      BY <2>1, <2>2 DEF Runs, ValueAfter, Taken
    <2>3. CASE statement[b] = "store"
      BY <2>1, <2>3 DEF Runs, ValueAfter, Taken
    <2>4. CASE statement[b] = "other" /\ analysis # "range-analysis"
      BY <2>1, <2>4 DEF Runs, ValueAfter, Taken
    <2>5. CASE statement[b] = "other" /\ analysis = "range-analysis"
      BY <2>1, <2>5 DEF Runs, ValueAfter, Taken
    <2> QED
      BY <1>1, <2>2, <2>3, <2>4, <2>5
  <1>6. Runs(<<b, v>>) \subseteq Configurations
    BY <1>2, <1>3, <1>4, <1>5 DEF Configurations
  <1> QED
    BY <1>2, <1>3, <1>4, <1>5, <1>6

LEMMA ReachedChain ==
    ASSUME ProgramOK, NEW N, N = Size * (Largest + 2)
    PROVE  /\ N \in Nat /\ IsFiniteSet(Configurations) /\ Cardinality(Configurations) = N
           /\ \E f \in [0..N -> SUBSET Configurations] :
                 f[0] = Start /\ Reached = f[N] /\ \A n \in 1..N : f[n] = Extend(f[n - 1])
  <1> DEFINE V == SUBSET Configurations
             step == [n \in 1..N |-> [S \in V |-> Extend(S)]]
             F == CHOOSE f : f = [n \in 0..N |-> IF n = 0 THEN Start ELSE Extend(f[n - 1])]
  <1>1. Size \in Nat /\ Size > 1 /\ Blocks = 1..Size /\ Largest \in Nat /\ 1 \in Blocks
    BY ProgramFacts
  <1>2. IsFiniteSet(Configurations) /\ Cardinality(Configurations) = N /\ N \in Nat
    <2>1. 1 \in Int /\ Size \in Int /\ (IF 1 > Size THEN 0 ELSE Size - 1 + 1) = Size
      BY <1>1
    <2>2. IsFiniteSet(Blocks) /\ Cardinality(Blocks) = Size
      BY <1>1, <2>1, FS_Interval
    <2>3. -1 \in Int /\ Largest \in Int /\ (IF -1 > Largest THEN 0 ELSE Largest - (-1) + 1) = Largest + 2
      BY <1>1
    <2>4. IsFiniteSet(-1..Largest) /\ Cardinality(-1..Largest) = Largest + 2
      BY <2>3, FS_Interval
    <2>5. IsFiniteSet(Configurations) /\ Cardinality(Configurations) = N
      BY <2>2, <2>4, FS_Product DEF Configurations
    <2> QED
      BY <2>5, FS_CardinalityType
  <1>3. Start \in V
    BY <1>1 DEF Start, Configurations
  <1>4. ASSUME NEW S \in V PROVE Extend(S) \in V
    <2>1. ASSUME NEW c \in S PROVE Runs(c) \subseteq Configurations
      <3>1. PICK b \in Blocks, v \in -1..Largest : c = <<b, v>>
        BY DEF Configurations
      <3> QED
        BY <3>1, RunsFacts
    <2> QED
      BY <2>1 DEF Extend
  <1>5. step \in [1..N -> [V -> V]]
    BY <1>4
  <1>6. PICK g \in [0..N -> V] : Steps(N, Start, step, g)
    <2> HIDE DEF V, step
    <2> QED
      BY <1>2, <1>3, <1>5, Iteration
  <1>7. g = [n \in 0..N |-> IF n = 0 THEN Start ELSE Extend(g[n - 1])]
    <2>1. ASSUME NEW n \in 0..N PROVE g[n] = IF n = 0 THEN Start ELSE Extend(g[n - 1])
      <3>1. CASE n = 0
        BY <1>6, <3>1 DEF Steps
      <3>2. CASE n # 0
        <4>1. n \in 1..N /\ n - 1 \in 0..N
          BY <1>2, <3>2
        <4>2. g[n - 1] \in V
          BY <4>1
        <4>3. g[n] = step[n][g[n - 1]]
          BY <1>6, <4>1 DEF Steps
        <4>4. step[n][g[n - 1]] = Extend(g[n - 1])
          BY <4>1, <4>2
        <4> QED
          BY <3>2, <4>3, <4>4
      <3> QED
        BY <3>1, <3>2
    <2> HIDE DEF step, V
    <2> QED
      BY <2>1
  <1>8. F = [n \in 0..N |-> IF n = 0 THEN Start ELSE Extend(F[n - 1])]
    <2> HIDE DEF V, step
    <2> QED
      BY <1>7
  <1>9. Reached = F[N]
    BY DEF Reached, Start, Extend
  <1> HIDE DEF F
  <1>10. F[0] = Start /\ \A n \in 1..N : F[n] = Extend(F[n - 1])
    <2>1. 0 \in 0..N /\ \A n \in 1..N : n \in 0..N /\ n # 0
      BY <1>2
    <2> QED
      BY <1>8, <2>1
  <1>11. F \in [0..N -> V]
    <2> DEFINE T == {n \in 0..N : F[n] \in V}
    <2>1. 0 \in T
      BY <1>2, <1>3, <1>10
    <2>2. ASSUME NEW n \in 1..N, (n - 1) \in T PROVE n \in T
      BY <1>4, <1>10, <2>2
    <2>3. \A n \in 0..N : n \in T
      <3> HIDE DEF T
      <3>1. Climbs(N, T)
        BY <2>1, <2>2 DEF Climbs
      <3> QED
        BY <1>2, <3>1, Climb
    <2> HIDE DEF V
    <2> QED
      BY <1>8, <2>3
  <1> QED
    BY <1>2, <1>9, <1>10, <1>11

THEOREM ReachedIsLeast ==
    ASSUME ProgramOK
    PROVE  /\ Reached \subseteq Configurations /\ Closed(Reached)
           /\ \A R : Closed(R) => Reached \subseteq R
  <1>1. PICK N \in Nat : N = Size * (Largest + 2)
    BY ReachedChain
  <1>2. IsFiniteSet(Configurations) /\ Cardinality(Configurations) = N
    BY <1>1, ReachedChain
  <1>3. PICK f \in [0..N -> SUBSET Configurations] :
            f[0] = Start /\ Reached = f[N] /\ \A n \in 1..N : f[n] = Extend(f[n - 1])
    BY <1>1, ReachedChain
  <1>4. 0 \in 0..N /\ N \in 0..N /\ \A n \in 1..N : n \in 0..N /\ n - 1 \in 0..N
    OBVIOUS
  <1>5. ASSUME NEW n \in 0..N
        PROVE  f[n] \in SUBSET Configurations /\ IsFiniteSet(f[n]) /\ Cardinality(f[n]) \in Nat /\ Cardinality(f[n]) <= N
    <2>1. f[n] \in SUBSET Configurations
      OBVIOUS
    <2> QED
      BY <1>2, <2>1, FS_Subset, FS_CardinalityType
  <1>6. ASSUME NEW R, Closed(R) PROVE Reached \subseteq R
    <2> DEFINE T == {n \in 0..N : f[n] \subseteq R}
    <2>1. 0 \in T
      BY <1>3, <1>4, <1>6 DEF Closed
    <2>2. ASSUME NEW n \in 1..N, (n - 1) \in T PROVE n \in T
      BY <1>3, <1>4, <1>6, <2>2 DEF Closed, Extend
    <2>3. \A n \in 0..N : n \in T
      <3> HIDE DEF T
      <3>1. Climbs(N, T)
        BY <2>1, <2>2 DEF Climbs
      <3> QED
        BY <3>1, Climb
    <2> QED
      BY <1>3, <1>4, <2>3
  <1>7. Closed(Reached)
    <2> DEFINE T == {n \in 0..N : Start \subseteq f[n] /\ (Closed(f[n]) \/ Cardinality(f[n]) >= n + 1)}
    <2>1. 0 \in T
      <3>1. Cardinality(Start) = 1
        BY FS_Singleton DEF Start
      <3> QED
        BY <1>3, <1>4, <3>1
    <2>2. ASSUME NEW n \in 1..N, (n - 1) \in T PROVE n \in T
      <3>1. f[n] = Extend(f[n - 1]) /\ f[n - 1] \subseteq f[n] /\ n \in 0..N /\ n - 1 \in 0..N
        BY <1>3, <1>4 DEF Extend
      <3>2. CASE f[n] = f[n - 1]
        <4>1. \A c \in f[n - 1] : Runs(c) \subseteq f[n]
          BY <3>1 DEF Extend
        <4> QED
          BY <2>2, <3>1, <3>2, <4>1 DEF Closed
      <3>3. CASE f[n] # f[n - 1]
        <4>1. ~Closed(f[n - 1])
          <5> SUFFICES ASSUME Closed(f[n - 1]) PROVE FALSE
            OBVIOUS
          <5>1. Extend(f[n - 1]) \subseteq f[n - 1]
            BY DEF Closed, Extend
          <5> QED
            BY <3>1, <3>3, <5>1
        <4>2. Cardinality(f[n - 1]) >= (n - 1) + 1
          BY <2>2, <4>1
        <4>3. Cardinality(f[n - 1]) <= Cardinality(f[n]) /\ Cardinality(f[n]) # Cardinality(f[n - 1])
          BY <1>5, <3>1, <3>3, FS_Subset
        <4>4. Cardinality(f[n]) >= n + 1
          <5>1. PICK k \in Nat, l \in Nat : k = Cardinality(f[n - 1]) /\ l = Cardinality(f[n])
            BY <1>5, <3>1
          <5>2. k >= (n - 1) + 1 /\ k <= l /\ l # k
            BY <4>2, <4>3, <5>1
          <5>3. l >= n + 1
            BY <5>2
          <5> QED
            BY <5>1, <5>3
        <4> QED
          BY <2>2, <3>1, <4>4
      <3> QED
        BY <3>2, <3>3
    <2>3. \A n \in 0..N : n \in T
      <3> HIDE DEF T
      <3>1. Climbs(N, T)
        BY <2>1, <2>2 DEF Climbs
      <3> QED
        BY <3>1, Climb
    <2>4. Closed(f[N]) \/ Cardinality(f[N]) >= N + 1
      BY <1>4, <2>3
    <2>5. ~(Cardinality(f[N]) >= N + 1)
      <3>1. PICK k \in Nat : k = Cardinality(f[N]) /\ k <= N
        BY <1>4, <1>5
      <3>2. ~(k >= N + 1)
        BY <3>1
      <3> QED
        BY <3>1, <3>2
    <2> QED
      BY <1>3, <2>4, <2>5
  <1> QED
    BY <1>3, <1>4, <1>5, <1>6, <1>7

-----------------------------------------------------------------------------
(* What the analyses say at the end of what the function does.             *)

\* A range follows the value through a statement and a branch.
LEMMA RangeFollows ==
    ASSUME ProgramOK, StateOK, analysis = "range-analysis", NEW b \in Blocks, NEW e, e = Effect(b),
           NEW v \in entrySets[b].range.lo..entrySets[b].range.hi
    PROVE  /\ v \in -1..Largest /\ ValueAfter(b, v) \in e.range.lo..e.range.hi
           /\ \A i \in Taken(b, ValueAfter(b, v)) : successors[b][i] \in TargetSucc(e, b)
  <1>1. PICK s \in AbstractStates : s = entrySets[b]
    BY DEF StateOK
  <1>2. e.range = RangeAfter(s, b) /\ e \in AbstractStates
    BY <1>1, EffectFields DEF Effect
  <1>3. Largest \in Nat /\ Largest > 0 /\ statement[b] \in {"none", "store", "other"}
    BY ProgramFacts
  <1>4. s.range \in Ranges /\ e.range \in Ranges
    BY <1>1, <1>2, StateFields
  <1>5. PICK lo \in 0..Largest, hi \in 0..Largest : lo = s.range.lo /\ hi = s.range.hi /\ v \in lo..hi /\ lo <= hi
    BY <1>1, <1>4 DEF Ranges
  <1>6. v \in 0..Largest /\ v \in -1..Largest
    BY <1>3, <1>5
  <1>7. ValueAfter(b, v) \in e.range.lo..e.range.hi
    <2>1. CASE statement[b] = "none"
      BY <1>1, <1>2, <2>1 DEF ValueAfter, RangeAfter
    <2>2. CASE statement[b] = "store"
      BY <1>2, <2>2 DEF ValueAfter, RangeAfter
    <2>3. CASE statement[b] = "other"
      <3>1. ValueAfter(b, v) = IF v = Largest THEN 0 ELSE v + 1
        BY <2>3 DEF ValueAfter
      <3>2. e.range = Increment(s.range)
        BY <1>2, <2>3 DEF RangeAfter
      <3>3. CASE hi = Largest
        <4>1. e.range.lo = 0 /\ e.range.hi = Largest
          BY <1>5, <3>2, <3>3 DEF Increment, Top
        <4>2. (IF v = Largest THEN 0 ELSE v + 1) \in 0..Largest
          BY <1>3, <1>6
        <4> QED
          BY <3>1, <4>1, <4>2
      <3>4. CASE hi # Largest
        <4>1. e.range.lo = lo + 1 /\ e.range.hi = hi + 1
          BY <1>5, <3>2, <3>4 DEF Increment
        <4>2. v # Largest /\ v + 1 \in (lo + 1)..(hi + 1)
          BY <1>3, <1>5, <3>4
        <4> QED
          BY <3>1, <4>1, <4>2
      <3> QED
        BY <3>3, <3>4
    <2> QED
      BY <1>3, <2>1, <2>2, <2>3
  <1>8. PICK w : w = ValueAfter(b, v)
    OBVIOUS
  <1>9. PICK l \in 0..Largest, h \in 0..Largest : l = e.range.lo /\ h = e.range.hi /\ w \in l..h
    BY <1>4, <1>7, <1>8 DEF Ranges
  <1>10. ASSUME NEW i \in Taken(b, w) PROVE successors[b][i] \in TargetSucc(e, b)
    <2>1. i \in DOMAIN successors[b]
      BY <1>6, <1>8, RunsFacts
    <2>2. CASE ~tested \/ Len(successors[b]) < 2 \/ e.range = Top
      BY <2>1, <2>2 DEF TargetSucc
    <2>3. CASE ~(~tested \/ Len(successors[b]) < 2 \/ e.range = Top)
      <3>1. i = IF w = 0 THEN 1 ELSE 2
        BY <1>10, <2>3 DEF Taken
      <3>2. CASE h = 0
        <4>1. w = 0
          BY <1>9, <3>2
        <4> QED
          BY <1>9, <2>3, <3>1, <3>2, <4>1 DEF TargetSucc
      <3>3. CASE h # 0 /\ l > 0
        <4>1. w # 0
          BY <1>9, <3>3
        <4> QED
          BY <1>9, <2>3, <3>1, <3>3, <4>1 DEF TargetSucc
      <3>4. CASE h # 0 /\ ~(l > 0)
        BY <1>9, <2>1, <2>3, <3>4 DEF TargetSucc
      <3> QED
        BY <3>2, <3>3, <3>4
    <2> QED
      BY <2>2, <2>3
  <1> QED
    BY <1>6, <1>7, <1>8, <1>10

LEMMA RangesHold ==
    ASSUME ProgramOK, StateOK, Settled
    PROVE  RangesSound
  <1> SUFFICES ASSUME Done, analysis = "range-analysis"
               PROVE  \A b \in Blocks : \A c \in At(b) :
                          entrySets[b].reachable /\ c[2] \in entrySets[b].range.lo..entrySets[b].range.hi
    BY DEF RangesSound
  <1> DEFINE Holds(c) == entrySets[c[1]].reachable /\ c[2] \in entrySets[c[1]].range.lo..entrySets[c[1]].range.hi
             R == {c \in Configurations : Holds(c)}
  <1>1. ToSet(worklist) = {}
    BY DEF Done, ToSet
  <1>2. Largest \in Nat /\ 1 \in Blocks
    BY ProgramFacts
  <1>3. Start \subseteq R
    <2>1. entrySets[1].reachable /\ entrySets[1].range = [lo |-> 0, hi |-> 0]
      BY DEF StateOK, EntryState, Fact
    <2>2. <<1, 0>> \in Configurations /\ <<1, 0>>[1] = 1 /\ <<1, 0>>[2] = 0
      BY <1>2 DEF Configurations
    <2>3. <<1, 0>> \in R
      BY <2>1, <2>2
    <2> QED
      BY <2>3 DEF Start
  <1>4. ASSUME NEW c \in R PROVE Runs(c) \subseteq R
    <2>1. PICK b \in Blocks, v \in -1..Largest : c = <<b, v>> /\ c[1] = b /\ c[2] = v
      BY DEF Configurations
    <2>2. entrySets[b].reachable /\ v \in entrySets[b].range.lo..entrySets[b].range.hi
      BY <2>1
    <2>3. PICK e : e = Effect(b)
      OBVIOUS
    <2>4. PICK w : w = ValueAfter(b, v)
      OBVIOUS
    <2>5. /\ w \in e.range.lo..e.range.hi
          /\ \A i \in Taken(b, w) : successors[b][i] \in TargetSucc(e, b)
      BY <2>2, <2>3, <2>4, RangeFollows
    <2>6. e \in AbstractStates
      BY <2>3, ExitFields
    <2>7. Runs(c) = {<<successors[b][i], w>> : i \in Taken(b, w)} /\ Runs(c) \subseteq Configurations
      BY <2>1, <2>4, RunsFacts
    <2> SUFFICES ASSUME NEW i \in Taken(b, w), NEW d, d = successors[b][i]
                 PROVE  entrySets[d].reachable /\ w \in entrySets[d].range.lo..entrySets[d].range.hi
      <3> HIDE DEF Holds
      <3>1. ASSUME NEW i \in Taken(b, w) PROVE <<successors[b][i], w>> \in R
        <4>1. <<successors[b][i], w>>[1] = successors[b][i] /\ <<successors[b][i], w>>[2] = w
          OBVIOUS
        <4>2. <<successors[b][i], w>> \in Configurations
          BY <2>7
        <4> QED
          BY <4>1, <4>2 DEF Holds
      <3> QED
        BY <2>7, <3>1
    <2>8. d \in TargetSucc(e, b)
      BY <2>5
    <2>9. Absorbs(entrySets[d], e)
      BY <1>1, <2>2, <2>3, <2>8 DEF Settled
    <2>10. d \in Blocks
      BY <2>8, TargetFacts
    <2>11. entrySets[d].range \in Ranges /\ e.range \in Ranges
      BY <2>6, <2>10, StateFields DEF StateOK
    <2>12. entrySets[d].range.lo \in 0..Largest /\ entrySets[d].range.hi \in 0..Largest
           /\ e.range.lo \in 0..Largest /\ e.range.hi \in 0..Largest
      BY <2>11 DEF Ranges
    <2>13. entrySets[d].range.lo <= e.range.lo /\ e.range.hi <= entrySets[d].range.hi /\ entrySets[d].reachable
      BY <2>9 DEF Absorbs
    <2> QED
      BY <1>2, <2>5, <2>12, <2>13
  <1>5. Reached \subseteq R
    <2> HIDE DEF R
    <2>1. Closed(R)
      BY <1>3, <1>4 DEF Closed
    <2> QED
      BY <2>1, ReachedIsLeast
  <1> QED
    BY <1>5 DEF At

\* A variable with this value is in the state that the bit stands for.
Held(v) == IF analysis = "maybe-uninit" THEN v = -1 ELSE v # -1

\* What is said of a block is so on some path.
Witnessed ==
    analysis # "range-analysis" =>
        \A R \in SUBSET Configurations : Closed(R) =>
            \A b \in Blocks :
                /\ entrySets[b].reachable => \E v \in -1..Largest : <<b, v>> \in R
                /\ entrySets[b].bit => \E v \in -1..Largest : <<b, v>> \in R /\ Held(v)

\* A bit follows the value through a statement.
LEMMA BitFollows ==
    ASSUME ProgramOK, analysis # "range-analysis", NEW b \in Blocks, NEW v \in -1..Largest, NEW w, w = ValueAfter(b, v)
    PROVE  /\ w \in -1..Largest
           /\ statement[b] = "none" => w = v
           /\ statement[b] # "none" => \A s : BitAfter(s, b) <=> Held(w)
           /\ \A d \in ToSet(successors[b]) : <<d, w>> \in Runs(<<b, v>>)
           /\ \A c \in Runs(<<b, v>>) : c \in Configurations /\ c[2] = w /\ c[1] \in ToSet(successors[b])
  <1>1. /\ w \in -1..Largest /\ DOMAIN successors[b] = 1..Len(successors[b])
        /\ Runs(<<b, v>>) = {<<successors[b][i], w>> : i \in Taken(b, w)} /\ Runs(<<b, v>>) \subseteq Configurations
    BY RunsFacts
  <1>2. Taken(b, w) = DOMAIN successors[b]
    BY DEF Taken, ProgramOK
  <1>3. /\ analysis \in {"maybe-init", "maybe-uninit"} /\ statement[b] \in {"none", "store", "other"}
    BY ProgramFacts
  <1>4. ASSUME statement[b] # "none", NEW s PROVE BitAfter(s, b) <=> Held(w)
    <2>1. w = IF statement[b] = "store" THEN 0 ELSE -1
      BY <1>4 DEF ValueAfter
    <2>3. CASE analysis = "maybe-init" /\ statement[b] = "store"
      <3>1. Held(w)
        BY <2>1, <2>3 DEF Held
      <3>2. BitAfter(s, b)
        BY <1>4, <2>3 DEF BitAfter
      <3> QED
        BY <3>1, <3>2
    <2>4. CASE analysis = "maybe-init" /\ statement[b] = "other"
      <3>1. ~Held(w)
        BY <2>1, <2>4 DEF Held
      <3>2. ~BitAfter(s, b)
        BY <1>4, <2>4 DEF BitAfter
      <3> QED
        BY <3>1, <3>2
    <2>5. CASE analysis = "maybe-uninit" /\ statement[b] = "store"
      <3>1. ~Held(w)
        BY <2>1, <2>5 DEF Held
      <3>2. ~BitAfter(s, b)
        BY <1>4, <2>5 DEF BitAfter
      <3> QED
        BY <3>1, <3>2
    <2>6. CASE analysis = "maybe-uninit" /\ statement[b] = "other"
      <3>1. Held(w)
        BY <2>1, <2>6 DEF Held
      <3>2. BitAfter(s, b)
        BY <1>4, <2>6 DEF BitAfter
      <3> QED
        BY <3>1, <3>2
    <2> QED
      BY <1>3, <1>4, <2>3, <2>4, <2>5, <2>6
  <1>5. \A d \in ToSet(successors[b]) : <<d, w>> \in Runs(<<b, v>>)
    BY <1>1, <1>2 DEF ToSet
  <1>6. \A c \in Runs(<<b, v>>) : c \in Configurations /\ c[2] = w /\ c[1] \in ToSet(successors[b])
    BY <1>1, <1>2 DEF ToSet
  <1>7. statement[b] = "none" => w = v
    BY DEF ValueAfter
  <1> QED
    BY <1>1, <1>4, <1>5, <1>6, <1>7

LEMMA ClosedKept ==
    ASSUME UNCHANGED program, NEW R
    PROVE  /\ Closed(R)' <=> Closed(R)
           /\ Configurations' = Configurations /\ Blocks' = Blocks /\ analysis' = analysis
           /\ \A v : Held(v)' <=> Held(v)
  <1>1. \A c : Runs(c)' = Runs(c)
    BY DEF Runs, program
  <1>2. Start' = Start
    BY DEF Start, program
  <1> QED
    BY <1>1, <1>2 DEF Closed, Configurations, Blocks, Held, program

LEMMA WitnessedInit == Init => Witnessed
  <1> SUFFICES ASSUME Init, analysis # "range-analysis", NEW R \in SUBSET Configurations, Closed(R), NEW b \in Blocks
               PROVE  /\ entrySets[b].reachable => \E v \in -1..Largest : <<b, v>> \in R
                      /\ entrySets[b].bit => \E v \in -1..Largest : <<b, v>> \in R /\ Held(v)
    BY DEF Witnessed
  <1>1. <<1, -1>> \in R
    BY DEF Closed, Start
  <1>2. Largest \in Nat /\ -1 \in -1..Largest
    BY ProgramInit, ProgramFacts
  <1>3. CASE b = 1
    <2>1. PICK v \in BOOLEAN : v = (analysis = "maybe-uninit")
      OBVIOUS
    <2>2. entrySets[b].bit = v
      <3>1. entrySets[b] = [reachable |-> TRUE, bit |-> v, pos |-> {}, range |-> [lo |-> 0, hi |-> 0]]
        BY <1>3, <2>1 DEF Init, EntryState, Fact
      <3> QED
        BY <3>1
    <2>3. entrySets[b].bit => Held(-1)
      BY <2>1, <2>2 DEF Held
    <2> QED
      BY <1>1, <1>2, <1>3, <2>3
  <1>4. CASE b # 1
    <2>1. ~entrySets[b].reachable /\ ~entrySets[b].bit
      BY <1>4 DEF Init, Bottom
    <2> QED
      BY <2>1
  <1> QED
    BY <1>3, <1>4

LEMMA WitnessedDrop ==
    ASSUME Witnessed, NEW b, Drop(b)
    PROVE  Witnessed'
  <1>1. UNCHANGED program /\ entrySets' = entrySets
    BY DEF Drop
  <1>2. \A R : Closed(R)' <=> Closed(R)
    BY <1>1, ClosedKept
  <1>3. Configurations' = Configurations /\ Blocks' = Blocks /\ analysis' = analysis /\ \A v : Held(v)' <=> Held(v)
    BY <1>1, ClosedKept
  <1> QED
    BY <1>1, <1>2, <1>3 DEF Witnessed

LEMMA WitnessedProcess ==
    ASSUME ProgramOK, StateOK, Witnessed, NEW b, NEW x, NEW T, Process(b, x, T)
    PROVE  Witnessed'
  <1>1. UNCHANGED program /\ x = ExitState(b)
    BY DEF Process
  <1>2. /\ b \in Blocks /\ entrySets[b].reachable /\ x \in AbstractStates /\ x.reachable
        /\ analysis # "range-analysis" => T = ToSet(successors[b])
        /\ \A d \in T : entrySets'[d] = Joined(entrySets[d], x)
        /\ \A d \in Blocks \ T : entrySets'[d] = entrySets[d]
    BY ProcessFacts
  <1>3. ASSUME analysis # "range-analysis", NEW R \in SUBSET Configurations, Closed(R), NEW c \in Blocks
        PROVE  /\ entrySets'[c].reachable => \E v \in -1..Largest : <<c, v>> \in R
               /\ entrySets'[c].bit => \E v \in -1..Largest : <<c, v>> \in R /\ Held(v)
    <2>1. PICK s \in AbstractStates : s = entrySets[c]
      BY DEF StateOK
    <2>2. s.bit => \E v \in -1..Largest : <<c, v>> \in R /\ Held(v)
      BY <1>3, <2>1 DEF Witnessed
    <2>3. CASE c \notin T
      BY <1>2, <1>3, <2>3 DEF Witnessed
    <2>4. CASE c \in T
      <3>1. ASSUME NEW v \in -1..Largest, <<b, v>> \in R, NEW w, w = ValueAfter(b, v)
            PROVE  w \in -1..Largest /\ <<c, w>> \in R
        <4>1. w \in -1..Largest /\ <<c, w>> \in Runs(<<b, v>>)
          BY <1>2, <1>3, <2>4, <3>1, BitFollows
        <4>2. Runs(<<b, v>>) \subseteq R
          BY <1>3, <3>1 DEF Closed
        <4> QED
          BY <4>1, <4>2
      <3>2. PICK u \in -1..Largest : <<b, u>> \in R
        BY <1>2, <1>3 DEF Witnessed
      <3>3. \E v \in -1..Largest : <<c, v>> \in R
        BY <3>1, <3>2
      <3>4. entrySets'[c].bit <=> s.bit \/ x.bit
        <4>1. PICK j : j = Joined(s, x)
          OBVIOUS
        <4>2. j.bit = (s.bit \/ x.bit)
          BY <1>2, <1>3, <4>1, JoinedFields
        <4> QED
          BY <1>2, <2>1, <2>4, <4>1, <4>2
      <3>5. ASSUME x.bit PROVE \E v \in -1..Largest : <<c, v>> \in R /\ Held(v)
        <4>1. PICK e : e = Effect(b)
          OBVIOUS
        <4>2. PICK t \in AbstractStates : t = entrySets[b]
          BY <1>2 DEF StateOK
        <4>3. e.bit
          BY <1>1, <1>2, <3>5, <4>1, ExitFields
        <4>4. e.bit = BitAfter(t, b)
          BY <1>2, <1>3, <4>1, <4>2, EffectFields DEF Effect
        <4>5. CASE statement[b] = "none"
          <5>1. t.bit
            BY <4>3, <4>4, <4>5 DEF BitAfter
          <5>2. PICK v \in -1..Largest : <<b, v>> \in R /\ Held(v)
            BY <1>2, <1>3, <4>2, <5>1 DEF Witnessed
          <5>3. ValueAfter(b, v) = v
            BY <4>5 DEF ValueAfter
          <5> QED
            BY <3>1, <5>2, <5>3
        <4>6. CASE statement[b] # "none"
          <5>1. PICK w : w = ValueAfter(b, u)
            OBVIOUS
          <5>2. BitAfter(t, b) <=> Held(w)
            BY <1>2, <1>3, <4>6, <5>1, BitFollows
          <5> QED
            BY <3>1, <3>2, <4>3, <4>4, <5>1, <5>2
        <4> QED
          BY <4>5, <4>6
      <3> QED
        BY <2>2, <3>3, <3>4, <3>5
    <2> QED
      BY <2>3, <2>4
  <1>4. \A R : Closed(R)' <=> Closed(R)
    BY <1>1, ClosedKept
  <1>5. Configurations' = Configurations /\ Blocks' = Blocks /\ analysis' = analysis /\ \A v : Held(v)' <=> Held(v)
    BY <1>1, ClosedKept
  <1> QED
    BY <1>3, <1>4, <1>5 DEF Witnessed

LEMMA BitsHold ==
    ASSUME ProgramOK, StateOK, Settled, Witnessed
    PROVE  BitsExact
  <1> SUFFICES ASSUME Done, analysis # "range-analysis", NEW b \in Blocks
               PROVE  /\ entrySets[b].reachable <=> At(b) # {}
                      /\ entrySets[b].bit <=> \E c \in At(b) : (c[2] = -1) = (analysis = "maybe-uninit")
    BY DEF BitsExact
  <1> DEFINE R == {c \in Configurations : entrySets[c[1]].reachable /\ (Held(c[2]) => entrySets[c[1]].bit)}
  <1>1. ToSet(worklist) = {}
    BY DEF Done, ToSet
  <1>2. Largest \in Nat /\ 1 \in Blocks /\ analysis \in {"maybe-init", "maybe-uninit"}
    BY ProgramFacts
  <1>3. Start \subseteq R
    <2>1. PICK v \in BOOLEAN : v = (analysis = "maybe-uninit")
      OBVIOUS
    <2>2. entrySets[1].reachable /\ entrySets[1].bit = v
      <3>1. entrySets[1] = [reachable |-> TRUE, bit |-> v, pos |-> {}, range |-> [lo |-> 0, hi |-> 0]]
        BY <2>1 DEF StateOK, EntryState, Fact
      <3> QED
        BY <3>1
    <2>3. <<1, -1>> \in Configurations /\ <<1, -1>>[1] = 1 /\ <<1, -1>>[2] = -1
      BY <1>2 DEF Configurations
    <2>4. Held(-1) => entrySets[1].bit
      BY <1>2, <2>1, <2>2 DEF Held
    <2>5. <<1, -1>> \in R
      BY <2>2, <2>3, <2>4
    <2> QED
      BY <2>5 DEF Start
  <1>4. ASSUME NEW c \in R PROVE Runs(c) \subseteq R
    <2>1. PICK a \in Blocks, v \in -1..Largest : c = <<a, v>> /\ c[1] = a /\ c[2] = v
      BY DEF Configurations
    <2>2. entrySets[a].reachable /\ (Held(v) => entrySets[a].bit)
      BY <2>1
    <2>3. PICK e : e = Effect(a)
      OBVIOUS
    <2>4. PICK t \in AbstractStates : t = entrySets[a]
      BY DEF StateOK
    <2>5. PICK w : w = ValueAfter(a, v)
      OBVIOUS
    <2>6. e.bit = BitAfter(t, a)
      BY <2>3, <2>4, EffectFields DEF Effect
    <2>7. Held(w) => e.bit
      <3>1. CASE statement[a] = "none"
        <4>1. w = v /\ e.bit = t.bit
          BY <2>5, <2>6, <3>1 DEF ValueAfter, BitAfter
        <4> QED
          BY <2>2, <2>4, <4>1
      <3>2. CASE statement[a] # "none"
        <4>1. BitAfter(t, a) <=> Held(w)
          BY <2>5, <3>2, BitFollows
        <4> QED
          BY <2>6, <4>1
      <3> QED
        BY <3>1, <3>2
    <2>8. \A d \in ToSet(successors[a]) : entrySets[d].reachable /\ (e.bit => entrySets[d].bit)
      <3>1. TargetSucc(e, a) = ToSet(successors[a])
        BY TargetFacts
      <3>2. \A d \in ToSet(successors[a]) : Absorbs(entrySets[d], e)
        BY <1>1, <2>2, <2>3, <3>1 DEF Settled
      <3> QED
        BY <3>2 DEF Absorbs
    <2>9. \A d \in Runs(c) : d \in Configurations /\ d[2] = w /\ d[1] \in ToSet(successors[a])
      BY <2>1, <2>5, BitFollows
    <2> QED
      BY <2>7, <2>8, <2>9
  <1>5. Reached \subseteq R
    <2> HIDE DEF R
    <2>1. Closed(R)
      BY <1>3, <1>4 DEF Closed
    <2> QED
      BY <2>1, ReachedIsLeast
  <1>6. /\ entrySets[b].reachable => \E v \in -1..Largest : <<b, v>> \in Reached
        /\ entrySets[b].bit => \E v \in -1..Largest : <<b, v>> \in Reached /\ Held(v)
    BY ReachedIsLeast DEF Witnessed
  <1>7. \A v : Held(v) <=> ((v = -1) = (analysis = "maybe-uninit"))
    BY <1>2 DEF Held
  <1>8. \A v : <<b, v>> \in Reached => <<b, v>> \in At(b)
    BY DEF At
  <1>9. \A c \in At(b) : c[1] = b /\ c \in R
    BY <1>5 DEF At
  <1>10. entrySets[b].reachable <=> At(b) # {}
    BY <1>6, <1>8, <1>9
  <1>11. entrySets[b].bit <=> \E c \in At(b) : Held(c[2])
    <2>1. ASSUME entrySets[b].bit PROVE \E c \in At(b) : Held(c[2])
      <3>1. PICK v \in -1..Largest : <<b, v>> \in Reached /\ Held(v)
        BY <1>6, <2>1
      <3>2. <<b, v>>[2] = v
        OBVIOUS
      <3> QED
        BY <1>8, <3>1, <3>2
    <2>2. ASSUME NEW c \in At(b), Held(c[2]) PROVE entrySets[b].bit
      BY <1>9, <2>2
    <2> QED
      BY <2>1, <2>2
  <1> QED
    BY <1>7, <1>10, <1>11

-----------------------------------------------------------------------------
(* The theorems.                                                           *)

IInv ==
    /\ ProgramOK /\ StateOK /\ Awaited /\ Settled /\ InSequence /\ PlacesSettled
    /\ RangeVisits /\ BitVisits /\ Witnessed

\* The invariant holds in every state of the engine: of its worklist, of the abstract
\* states of the blocks and of the counts of their visits.
THEOREM EngineInvariant == Spec => []IInv
  <1>1. Init => IInv
    BY ProgramInit, StateInit, AwaitedInit, SettledInit, SequenceInit, PlacesInit, RangeVisitsInit, BitVisitsInit,
       WitnessedInit DEF IInv
  <1>2. ASSUME IInv, ProcessBlock PROVE IInv'
    <2> USE <1>2 DEF IInv
    <2>1. ASSUME NEW b, Drop(b) PROVE IInv'
      <3>1. UNCHANGED program /\ worklist # <<>> /\ worklist' = Tail(worklist)
        BY <2>1 DEF Drop
      <3>2. ProgramOK' /\ InSequence'
        BY <3>1, ProgramKept, SequenceTail
      <3>3. StateOK' /\ Awaited' /\ Settled' /\ PlacesSettled'
        BY <2>1, StateDrop, AwaitedDrop, SettledDrop, PlacesDrop
      <3>4. RangeVisits' /\ BitVisits' /\ Witnessed'
        BY <2>1, RangeVisitsDrop, BitVisitsDrop, WitnessedDrop
      <3> QED
        BY <3>2, <3>3, <3>4
    <2>2. ASSUME NEW b, NEW x, NEW T, Process(b, x, T) PROVE IInv'
      <3>1. UNCHANGED program
        BY <2>2 DEF Process
      <3>2. ProgramOK' /\ InSequence'
        BY <2>2, <3>1, ProgramKept, SequenceProcess
      <3>3. StateOK' /\ Awaited' /\ Settled' /\ PlacesSettled'
        BY <2>2, StateProcess, AwaitedProcess, SettledProcess, PlacesProcess
      <3>4. RangeVisits' /\ BitVisits' /\ Witnessed'
        BY <2>2, RangeVisitsProcess, BitVisitsProcess, WitnessedProcess
      <3> QED
        BY <3>2, <3>3, <3>4
    <2> QED
      BY <2>1, <2>2, StepCases
  <1>3. IInv /\ UNCHANGED vars => IInv'
    <2> SUFFICES ASSUME IInv, UNCHANGED vars PROVE IInv'
      OBVIOUS
    <2>1. /\ analysis' = analysis /\ successors' = successors /\ statement' = statement /\ tested' = tested
          /\ worklist' = worklist /\ entrySets' = entrySets /\ inqueueTimes' = inqueueTimes /\ UNCHANGED program
      BY DEF vars, program
    <2>2. ProgramOK' /\ StateOK' /\ Awaited' /\ InSequence'
      <3>1. ProgramOK' /\ BlockOrder' = BlockOrder
        BY <2>1, ProgramKept DEF IInv
      <3>2. StateOK'
        BY <2>1, <3>1 DEF IInv, StateOK
      <3>3. Awaited'
        BY <2>1, <3>1 DEF IInv, Awaited
      <3>4. LoopFree' <=> LoopFree
        BY <2>1 DEF LoopFree
      <3>5. InSequence'
        BY <2>1, <3>1, <3>4 DEF IInv, InSequence
      <3> QED
        BY <3>1, <3>2, <3>3, <3>5
    <2>3. Settled' /\ PlacesSettled'
      <3>1. ASSUME NEW c \in Blocks PROVE SettledAt(c)' /\ PlacesAt(c)'
        <4>1. PICK e : e = PropagateExpressionEffect(entrySets'[c], c)
          OBVIOUS
        <4>2. e = Effect(c)
          BY <2>1, <4>1 DEF Effect
        <4>3. SettledAt(c)'
          BY <2>1, <4>1, <4>2, SettledNext DEF IInv, Settled
        <4>4. PlacesAt(c)'
          BY <2>1, <4>1, <4>2, PlacesNext DEF IInv, PlacesSettled
        <4> QED
          BY <4>3, <4>4
      <3> QED
        BY <3>1 DEF Settled, SettledAt, PlacesSettled, PlacesAt, Blocks
    <2>4. RangeVisits' /\ BitVisits'
      BY <2>1 DEF IInv, RangeVisits, BitVisits, Due, Sent
    <2>5. Witnessed'
      <3>1. \A R : Closed(R)' <=> Closed(R)
        BY <2>1, ClosedKept
      <3>2. Configurations' = Configurations /\ Blocks' = Blocks /\ analysis' = analysis /\ \A v : Held(v)' <=> Held(v)
        BY <2>1, ClosedKept
      <3> QED
        BY <2>1, <3>1, <3>2 DEF IInv, Witnessed
    <2> QED
      BY <2>2, <2>3, <2>4, <2>5 DEF IInv
  <1> QED
    BY <1>1, <1>2, <1>3, PTL DEF Spec, Next

\* Without work left the gen-kill analyses have the exact answer: a block is marked
\* reached when some path leads to it, and its bit is set when some path gives the
\* variable that state (GenKillDomain::Join).
THEOREM BitsAreExact == Spec => []BitsExact
  <1>1. IInv => BitsExact
    BY BitsHold DEF IInv
  <1> QED
    BY <1>1, EngineInvariant, PTL

\* Without work left the range analysis has a range for every value on every path,
\* also at the blocks on which it gave up (CheckInQueueTimes).
THEOREM RangesAreSound == Spec => []RangesSound
  <1>1. IInv => RangesSound
    BY RangesHold DEF IInv
  <1> QED
    BY <1>1, EngineInvariant, PTL

\* Without work left no block has more to say to its successors (IterateToFixpoint).
THEOREM FixpointIsReached == Spec => []FixpointReached
  <1>1. IInv => FixpointReached
    BY FixpointAtEnd DEF IInv
  <1> QED
    BY <1>1, EngineInvariant, PTL

\* No block is processed more often than its predecessors and the limit of
\* CheckInQueueTimes allow, however many values the variable has.
THEOREM VisitsAreFew == Spec => []FewVisits
  <1>1. IInv => FewVisits
    BY FewVisitsHold DEF IInv
  <1> QED
    BY <1>1, EngineInvariant, PTL
=============================================================================
