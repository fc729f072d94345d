------------------------ MODULE PackageManager_proofs ------------------------
(***************************************************************************)
(* The order of the packages is right and complete for any packages and    *)
(* imports, in whatever order the hash containers are walked: what Tarjan's*)
(* algorithm takes off its stack is a whole component, after everything    *)
(* its packages depend on.                                                 *)
(***************************************************************************)
EXTENDS PackageManager, FiniteSetTheorems, SequenceTheorems, TLAPS

Depth == Len(frames)
U(k) == frames[k].u
Left(k) == frames[k].left

Visited == {p \in pkgs : indices[p] # 0}
Done == Placed(Len(orderedPackageInfos))
Mutual(x, y) == Reaches(x, y) /\ Reaches(y, x)

\* The loop of TarjanForSCC(x) has taken the dependency z.
Handled(x, z) == z \in deps(x) /\ \A k \in 1..Depth : U(k) = x => z \notin Left(k)

\* The last call that began before x was visited, or with x itself.
Owns(k, x) ==
    /\ indices[U(k)] <= indices[x]
    /\ k < Depth => indices[x] < indices[U(k + 1)]

\* Packages are numbered as they are visited, and the stack holds them in this order.
Numbered ==
    /\ index = Cardinality(Visited)
    /\ \A p \in Package \ pkgs : indices[p] = 0
    /\ onStack \subseteq Visited
    /\ \A i, j \in 1..Len(st) : i < j => indices[st[i]] < indices[st[j]]

\* The calls are for packages on the stack, each reaches those inside of it.
FramesNested ==
    /\ \A k \in 1..Depth : U(k) \in onStack /\ Left(k) \subseteq deps(U(k))
    /\ \A j, k \in 1..Depth : j < k => indices[U(j)] < indices[U(k)] /\ Reaches(U(j), U(k))
    /\ Depth = 0 => onStack = {}
    /\ phase # "run" => Depth = 0

HandledVisited == \A x \in Visited : \A z \in pkgs : Handled(x, z) => z \in Visited

\* What is still on the stack belongs to the component of the call it came after.
Owned == \A x \in onStack : \E k \in 1..Depth : Owns(k, x) /\ Mutual(x, U(k))

\* The lowlink of a call is the number of a package on the stack it reaches ...
LowReached ==
    \A k \in 1..Depth :
        /\ lowlinks[U(k)] <= indices[U(k)]
        /\ \E z \in onStack : indices[z] = lowlinks[U(k)] /\ Reaches(U(k), z)

\* ... and no larger than that of any package on the stack that a package the call
\* owns depends on.
LowCovers ==
    \A k \in 1..Depth : \A x, z \in onStack :
        Owns(k, x) /\ Handled(x, z) => lowlinks[U(k)] <= indices[z]

\* What has left the stack is in the list, once.
ListInv ==
    /\ Done = Visited \ onStack
    /\ \A i \in 1..Len(orderedPackageInfos) : orderedPackageInfos[i] # {}
    /\ \A i, j \in 1..Len(orderedPackageInfos) :
          i # j => orderedPackageInfos[i] \cap orderedPackageInfos[j] = {}
    /\ phase = "done" => Done = pkgs

Inv ==
    /\ TypeOK /\ Numbered /\ FramesNested /\ HandledVisited /\ Owned /\ LowReached /\ LowCovers
    /\ ListInv /\ DependenciesFirst

-----------------------------------------------------------------------------
(* Packages that reach each other.                                         *)

LEMMA ReachesSelf ==
  ASSUME NEW p
  PROVE  Reaches(p, p)
  BY DEF Reaches

LEMMA ReachesDeps ==
  ASSUME NEW p, NEW q \in deps(p)
  PROVE  Reaches(p, q)
  BY DEF Reaches

LEMMA ReachesTransitive ==
  ASSUME NEW p, NEW q, NEW r, Reaches(p, q), Reaches(q, r)
  PROVE  Reaches(p, r)
  BY DEF Reaches

LEMMA ReachesInside ==
  ASSUME NEW S \in SUBSET pkgs, \A x \in S : deps(x) \subseteq S, NEW p \in S, NEW q, Reaches(p, q)
  PROVE  q \in S
  BY DEF Reaches

LEMMA MutualEquivalence ==
  ASSUME NEW x, NEW y, NEW z, Mutual(x, y), Mutual(y, z)
  PROVE  Mutual(x, z) /\ Mutual(y, x)
  BY ReachesTransitive DEF Mutual

\* The imports and the packages of a call stay as they are.
LEMMA ReachesKept ==
  ASSUME UNCHANGED <<imports, pkgs>>
  PROVE  /\ \A p, q : Reaches(p, q)' = Reaches(p, q)
         /\ \A p : deps(p)' = deps(p)
  BY DEF Reaches, deps

-----------------------------------------------------------------------------
(* The stack and the frames.                                               *)

LEMMA StackNumbers ==
  ASSUME TypeOK, Numbered
  PROVE  /\ index \in Nat /\ pkgs \subseteq Package /\ Len(st) \in Nat
         /\ \A x \in onStack : x \in pkgs /\ x \in Package /\ indices[x] \in 1..index
         /\ \A x, y \in onStack : indices[x] = indices[y] => x = y
  <1>1. /\ index \in Int /\ index >= 0 /\ pkgs \subseteq Package /\ Len(st) \in Nat
        /\ indices \in [Package -> 0..index] /\ onStack = {st[i] : i \in 1..Len(st)}
    <2>1. IsFiniteSet(pkgs)
      BY ConstantsAssumption, FS_Subset DEF TypeOK, ConstantsAssumption
    <2>2. Cardinality(pkgs) \in Nat
      BY <2>1, FS_CardinalityType
    <2> QED
      BY <2>2 DEF TypeOK
  <1>2. \A x \in onStack : x \in pkgs /\ x \in Package /\ indices[x] \in 1..index
    BY <1>1 DEF Numbered, Visited
  <1>3. ASSUME NEW x \in onStack, NEW y \in onStack, indices[x] = indices[y] PROVE x = y
    <2>1. PICK i \in 1..Len(st) : st[i] = x
      BY <1>1
    <2>2. PICK j \in 1..Len(st) : st[j] = y
      BY <1>1
    <2>3. ~(i < j) /\ ~(j < i)
      BY <1>1, <1>2, <1>3, <2>1, <2>2 DEF Numbered
    <2> QED
      BY <1>1, <2>1, <2>2, <2>3
  <1> QED
    BY <1>1, <1>2, <1>3

\* A package on the stack has one owner, and a call owns its own package.
LEMMA OneOwner ==
  ASSUME Inv, NEW j \in 1..Depth, NEW k \in 1..Depth
  PROVE  /\ Owns(k, U(k))
         /\ \A x \in onStack : Owns(j, x) /\ Owns(k, x) => j = k
  <1>1. TypeOK /\ Numbered /\ FramesNested
    BY DEF Inv
  <1>2. Depth \in Nat
    BY <1>1 DEF TypeOK, Depth
  <1>3. \A i \in 1..Depth : U(i) \in onStack /\ indices[U(i)] \in Nat
    BY <1>1, StackNumbers DEF FramesNested
  <1>4. \A a, b \in 1..Depth : a < b => indices[U(a)] < indices[U(b)]
    BY <1>1 DEF FramesNested
  <1>5. Owns(k, U(k))
    BY <1>2, <1>3, <1>4 DEF Owns
  <1>6. ASSUME NEW a \in 1..Depth, NEW b \in 1..Depth, a < b, NEW x \in onStack, Owns(a, x), Owns(b, x)
        PROVE  FALSE
    <2>1. a + 1 \in 1..Depth /\ a < Depth /\ indices[x] \in Nat
      BY <1>1, <1>2, <1>6, StackNumbers
    <2>2. indices[x] < indices[U(a + 1)] /\ indices[U(b)] <= indices[x]
      BY <1>6, <2>1 DEF Owns
    <2>3. indices[U(a + 1)] <= indices[U(b)]
      <3>1. CASE a + 1 = b
        BY <1>3, <3>1
      <3>2. CASE a + 1 < b
        BY <1>3, <1>4, <2>1, <3>2
      <3> QED
        BY <1>2, <1>6, <2>1, <3>1, <3>2
    <2> QED
      BY <1>3, <2>1, <2>2, <2>3
  <1> QED
    BY <1>2, <1>5, <1>6

-----------------------------------------------------------------------------
(* A new call: Root and Descend.                                           *)

\* The call for w is inside the others, whose last one has taken w.
NewFrame(w) ==
    /\ Depth' = Depth + 1
    /\ \A k \in 1..Depth : U(k)' = U(k) /\ Left(k)' = Left(k) \ (IF k = Depth THEN {w} ELSE {})
    /\ frames'[Depth + 1] = [u |-> w, left |-> deps(w)]
    /\ Depth # 0 => w \in Left(Depth)

LEMMA RootFrame ==
  ASSUME Inv, NEW w \in pkgs, Root(w)
  PROVE  NewFrame(w) /\ frames' \in Seq(Frame) /\ phase = "run"
  <1>1. w \in Package /\ deps(w) \subseteq Package
    BY DEF Inv, TypeOK, deps
  <1>2. [u |-> w, left |-> deps(w)] \in Frame
    BY <1>1 DEF Frame
  <1>3. frames = <<>> /\ frames' = <<[u |-> w, left |-> deps(w)]>> /\ phase = "run"
    BY DEF Root
  <1>4. Depth = 0 /\ Depth' = 1 /\ frames'[1] = [u |-> w, left |-> deps(w)]
    BY <1>3 DEF Depth
  <1> QED
    BY <1>2, <1>3, <1>4 DEF NewFrame, U, Left

\* The frames after the loop of the last call has taken w.
LEMMA TakenFrames ==
  ASSUME Inv, NEW w, frames # <<>>
  PROVE  /\ Depth \in Nat \ {0} /\ Top(frames) = frames[Depth] /\ phase = "run"
         /\ Taken(w) \in Seq(Frame) /\ Len(Taken(w)) = Depth
         /\ \A k \in 1..Depth : /\ Taken(w)[k].u = U(k)
                                /\ Taken(w)[k].left = Left(k) \ (IF k = Depth THEN {w} ELSE {})
  <1>1. frames \in Seq(Frame) /\ Depth \in Nat \ {0} /\ Depth = Len(frames)
    BY DEF Inv, TypeOK, Depth
  <1>2. phase = "run"
    BY <1>1 DEF Inv, FramesNested
  <1>3. frames[Depth] \in Frame
    BY <1>1
  <1> DEFINE G == [frames[Depth] EXCEPT !.left = @ \ {w}]
  <1>4. G \in Frame /\ G.u = U(Depth) /\ G.left = Left(Depth) \ {w}
    BY <1>3 DEF Frame, U, Left
  <1>5. Taken(w) = [frames EXCEPT ![Depth] = G]
    BY <1>1 DEF Taken
  <1> HIDE DEF G
  <1>6. /\ Taken(w) \in Seq(Frame) /\ Len(Taken(w)) = Depth
        /\ \A k \in 1..Depth : Taken(w)[k] = IF k = Depth THEN G ELSE frames[k]
    BY <1>1, <1>4, <1>5, ExceptSeq
  <1>7. ASSUME NEW k \in 1..Depth
        PROVE  /\ Taken(w)[k].u = U(k)
               /\ Taken(w)[k].left = Left(k) \ (IF k = Depth THEN {w} ELSE {})
    <2>1. CASE k = Depth
      BY <1>4, <1>6, <2>1
    <2>2. CASE k # Depth
      BY <1>6, <2>2 DEF U, Left
    <2> QED
      BY <2>1, <2>2
  <1> QED
    BY <1>1, <1>2, <1>6, <1>7 DEF Top

LEMMA DescendFrame ==
  ASSUME Inv, NEW w \in pkgs, Descend(w)
  PROVE  NewFrame(w) /\ frames' \in Seq(Frame) /\ phase = "run"
  <1>1. w \in Package /\ deps(w) \subseteq Package
    BY DEF Inv, TypeOK, deps
  <1> DEFINE F == [u |-> w, left |-> deps(w)]
  <1>2. F \in Frame /\ F.u = w /\ F.left = deps(w)
    BY <1>1 DEF Frame
  <1>3. frames # <<>> /\ w \in Top(frames).left /\ frames' = Append(Taken(w), F)
    BY DEF Descend
  <1> HIDE DEF F
  <1>4. /\ frames' \in Seq(Frame) /\ Len(frames') = Depth + 1
        /\ \A k \in 1..Depth : frames'[k] = Taken(w)[k]
        /\ frames'[Depth + 1] = F
    BY <1>2, <1>3, TakenFrames, AppendProperties
  <1>5. w \in Left(Depth)
    BY <1>3, TakenFrames DEF Left
  <1>6. \A k \in 1..Depth : U(k)' = U(k) /\ Left(k)' = Left(k) \ (IF k = Depth THEN {w} ELSE {})
    BY <1>3, <1>4, TakenFrames DEF U, Left
  <1> QED
    BY <1>3, <1>4, <1>5, <1>6, TakenFrames DEF NewFrame, Depth, F

LEMMA VisitedFinite ==
  ASSUME TypeOK
  PROVE  /\ IsFiniteSet(pkgs) /\ IsFiniteSet(Visited)
         /\ Cardinality(pkgs) \in Nat /\ Cardinality(Visited) \in Nat
         /\ Cardinality(Visited) <= Cardinality(pkgs)
  <1>1. IsFiniteSet(pkgs) /\ Visited \subseteq pkgs
    BY ConstantsAssumption, FS_Subset DEF TypeOK, ConstantsAssumption, Visited
  <1> QED
    BY <1>1, FS_Subset, FS_CardinalityType

LEMMA EnterStep ==
  ASSUME Inv, NEW w \in pkgs, Unvisited(w), Enter(w), NewFrame(w),
         frames' \in Seq(Frame), phase = "run",
         UNCHANGED <<imports, phase, pkgs, packageToOtherSccMap, orderedPackageInfos>>
  PROVE  Inv'
  <1> PICK n \in Nat : n = Depth
    BY DEF Inv, TypeOK, Depth
  <1>0. /\ TypeOK /\ Numbered /\ FramesNested /\ HandledVisited /\ Owned /\ LowReached /\ LowCovers
        /\ ListInv /\ DependenciesFirst
    BY DEF Inv
  <1>1. /\ indices[w] = 0 /\ w \in Package
        /\ index' = index + 1
        /\ indices' = [indices EXCEPT ![w] = index + 1]
        /\ lowlinks' = [lowlinks EXCEPT ![w] = index + 1]
        /\ st' = Append(st, w) /\ onStack' = onStack \cup {w}
    BY <1>0 DEF Unvisited, Enter, TypeOK
  <1>2. /\ index \in Nat
        /\ indices \in [Package -> 0..index] /\ lowlinks \in [Package -> 0..index]
        /\ st \in Seq(pkgs) /\ pkgs \subseteq Package /\ Len(st) \in Nat
        /\ \A x \in onStack : x \in pkgs /\ x \in Package /\ indices[x] \in 1..index
        /\ onStack = {st[i] : i \in 1..Len(st)}
    BY <1>0, StackNumbers DEF TypeOK
  <1>3. /\ w \notin onStack /\ indices'[w] = index + 1 /\ lowlinks'[w] = index + 1
        /\ \A x \in Package \ {w} : indices'[x] = indices[x] /\ lowlinks'[x] = lowlinks[x]
        /\ \A x \in onStack : indices'[x] = indices[x] /\ x # w
    BY <1>1, <1>2
  <1>4. Visited' = Visited \cup {w} /\ w \notin Visited
    BY <1>1, <1>2, <1>3 DEF Visited
  <1>5. index = Cardinality(Visited) /\ index' = Cardinality(Visited') /\ index' <= Cardinality(pkgs)
    <2>1. index = Cardinality(Visited)
      BY <1>0 DEF Numbered
    <2>2. index' = Cardinality(Visited')
      BY <1>0, <1>1, <1>4, <2>1, VisitedFinite, FS_AddElement
    <2>3. IsFiniteSet(pkgs) /\ Visited' \subseteq pkgs
      BY <1>0, <1>4, VisitedFinite DEF Visited
    <2> QED
      BY <2>1, <2>2, <2>3, FS_Subset
  <1>6. /\ st' \in Seq(pkgs) /\ Len(st') = Len(st) + 1
        /\ \A i \in 1..Len(st) : st'[i] = st[i] /\ st'[i] \in onStack
        /\ st'[Len(st) + 1] = w
        /\ onStack' = {st'[i] : i \in 1..Len(st')}
    <2>1. /\ st' \in Seq(pkgs) /\ Len(st') = Len(st) + 1
          /\ \A i \in 1..Len(st) : st'[i] = st[i]
          /\ st'[Len(st) + 1] = w
      BY <1>1, <1>2, AppendProperties
    <2>2. \A i \in 1..(Len(st) + 1) : i \in 1..Len(st) \/ i = Len(st) + 1
      BY <1>2
    <2>3. \A i \in 1..Len(st) : i \in 1..(Len(st) + 1)
      BY <1>2
    <2>4. Len(st) + 1 \in 1..(Len(st) + 1)
      BY <1>2
    <2> QED
      BY <1>1, <1>2, <2>1, <2>2, <2>3, <2>4
  <1>7. TypeOK'
    <2>1. indices' \in [Package -> 0..index'] /\ lowlinks' \in [Package -> 0..index']
      BY <1>1, <1>2
    <2>2. index' \in 0..Cardinality(pkgs)
      BY <1>0, <1>1, <1>2, <1>5, VisitedFinite
    <2>3. /\ imports' = imports /\ phase' = phase /\ pkgs' = pkgs
          /\ packageToOtherSccMap' = packageToOtherSccMap /\ orderedPackageInfos' = orderedPackageInfos
      OBVIOUS
    <2> QED
      BY <1>0, <1>6, <2>1, <2>2, <2>3 DEF TypeOK
  <1>8. Numbered'
    <2>1. \A p \in Package \ pkgs : indices'[p] = 0
      BY <1>0, <1>3 DEF Numbered
    <2>2. onStack' \subseteq Visited'
      BY <1>0, <1>1, <1>4 DEF Numbered
    <2>3. ASSUME NEW i \in 1..Len(st'), NEW j \in 1..Len(st'), i < j
          PROVE  indices'[st'[i]] < indices'[st'[j]]
      <3>0. PICK m \in Nat : m = Len(st) /\ Len(st') = m + 1
        BY <1>2, <1>6
      <3>1. i \in 1..Len(st) /\ (j \in 1..Len(st) \/ j = Len(st) + 1)
        BY <2>3, <3>0
      <3>2. ASSUME j \in 1..Len(st) PROVE indices'[st'[i]] < indices'[st'[j]]
        <4>1. indices[st[i]] < indices[st[j]]
          BY <1>0, <2>3, <3>1, <3>2 DEF Numbered
        <4>2. /\ st'[i] = st[i] /\ st'[i] \in onStack
              /\ st'[j] = st[j] /\ st'[j] \in onStack
          BY <1>6, <3>1, <3>2
        <4>3. indices'[st'[i]] = indices[st[i]] /\ indices'[st'[j]] = indices[st[j]]
          BY <1>3, <4>2
        <4> QED
          BY <4>1, <4>3
      <3>3. ASSUME j = Len(st) + 1 PROVE indices'[st'[i]] < indices'[st'[j]]
        <4>1. st'[j] = w /\ st'[i] \in onStack
          BY <1>6, <3>1, <3>3
        <4>2. indices'[st'[i]] \in 1..index
          BY <1>2, <1>3, <4>1
        <4> QED
          BY <1>2, <1>3, <4>1, <4>2, SMTT(30)
      <3> QED
        BY <3>1, <3>2, <3>3
    <2> QED
      BY <1>5, <2>1, <2>2, <2>3 DEF Numbered
  <1>9. /\ Depth' = n + 1
        /\ \A k \in 1..n : U(k)' = U(k) /\ U(k) \in onStack /\ U(k) # w
        /\ \A k \in 1..n : Left(k)' = Left(k) \ (IF k = n THEN {w} ELSE {})
        /\ U(n + 1)' = w /\ Left(n + 1)' = deps(w)
        /\ n # 0 => w \in Left(n)
    BY <1>0, <1>3 DEF NewFrame, FramesNested, U, Left
  <1>10. \A k \in 1..(n + 1) : k \in 1..n \/ k = n + 1
    OBVIOUS
  <1>11. /\ \A p, q : Reaches(p, q)' = Reaches(p, q)
         /\ \A p : deps(p)' = deps(p)
    BY ReachesKept
  <1>12. n # 0 => w \in deps(U(n)) /\ Reaches(U(n), w)
    BY <1>0, <1>9, ReachesDeps DEF FramesNested
  <1>13. FramesNested'
    <2>1. \A k \in 1..n : Left(k) \subseteq deps(U(k))
      BY <1>0 DEF FramesNested
    <2>2. \A k \in 1..(n + 1) : U(k)' \in onStack' /\ Left(k)' \subseteq deps(U(k)')
      BY <1>1, <1>9, <1>10, <2>1
    <2>3. ASSUME NEW j \in 1..(n + 1), NEW k \in 1..(n + 1), j < k
          PROVE  indices'[U(j)'] < indices'[U(k)'] /\ Reaches(U(j)', U(k)')
      <3>1. j \in 1..n
        BY <2>3
      <3>2. CASE k \in 1..n
        BY <1>0, <1>3, <1>9, <2>3, <3>1, <3>2 DEF FramesNested
      <3>3. CASE k = n + 1
        <4>1. indices'[U(j)'] < indices'[U(k)']
          BY <1>2, <1>3, <1>9, <3>1, <3>3
        <4>2. j = n \/ Reaches(U(j), U(n))
          BY <1>0, <3>1 DEF FramesNested
        <4>3. Reaches(U(j), w)
          BY <1>12, <3>1, <4>2, ReachesTransitive
        <4> QED
          BY <1>9, <3>1, <3>3, <4>1, <4>3
      <3> QED
        BY <1>10, <3>2, <3>3
    <2>4. \A j, k \in 1..Depth' : j < k => Reaches(U(j), U(k))'
      BY <1>9, <1>11, <2>3 DEF U
    <2>5. \A k \in 1..Depth' : U(k)' \in onStack' /\ Left(k)' \subseteq deps(U(k))'
      BY <1>9, <1>11, <2>2 DEF U
    <2> QED
      BY <1>9, <2>3, <2>4, <2>5 DEF FramesNested
  <1>14. /\ \A x \in Visited : \A z : Handled(x, z)' => Handled(x, z) \/ (n # 0 /\ x = U(n) /\ z = w)
         /\ \A z : ~Handled(w, z)'
    <2>1. ASSUME NEW x \in Visited, NEW z, Handled(x, z)', ~(n # 0 /\ x = U(n) /\ z = w)
          PROVE  Handled(x, z)
      <3>1. z \in deps(x) /\ \A k \in 1..n : U(k)' = x => z \notin Left(k)'
        BY <1>9, <1>11, <2>1 DEF Handled
      <3>2. ASSUME NEW k \in 1..n, U(k) = x PROVE z \notin Left(k)
        BY <1>9, <2>1, <3>1, <3>2
      <3> QED
        BY <3>1, <3>2 DEF Handled
    <2>2. \A z : ~Handled(w, z)'
      BY <1>9, <1>11 DEF Handled
    <2> QED
      BY <2>1, <2>2
  <1>15. HandledVisited'
    <2>1. \A x \in Visited : \A z \in pkgs : Handled(x, z) => z \in Visited
      BY <1>0 DEF HandledVisited
    <2> QED
      BY <1>4, <1>14, <2>1 DEF HandledVisited
  <1>16. /\ \A x \in onStack : \A k \in 1..n : Owns(k, x)' = Owns(k, x)
         /\ \A x \in onStack : ~Owns(n + 1, x)'
         /\ Owns(n + 1, w)' /\ \A k \in 1..n : ~Owns(k, w)'
    <2>1. ASSUME NEW x \in onStack, NEW k \in 1..n PROVE Owns(k, x)' = Owns(k, x)
      <3>1. U(k)' = U(k) /\ indices'[U(k)] = indices[U(k)] /\ indices'[x] = indices[x]
        BY <1>3, <1>9
      <3>2. CASE k = n
        <4>1. U(k + 1)' = w /\ indices'[x] < indices'[w]
          BY <1>2, <1>3, <1>9, <3>2
        <4> QED
          BY <1>9, <3>1, <3>2, <4>1 DEF Owns
      <3>3. CASE k < n
        <4>1. k + 1 \in 1..n
          BY <3>3
        <4>2. U(k + 1)' = U(k + 1) /\ indices'[U(k + 1)] = indices[U(k + 1)]
          BY <1>3, <1>9, <4>1
        <4> QED
          BY <1>9, <3>1, <3>3, <4>2 DEF Owns
      <3> QED
        BY <3>2, <3>3
    <2>2. \A x \in onStack : ~Owns(n + 1, x)'
      BY <1>2, <1>3, <1>9 DEF Owns
    <2>3. Owns(n + 1, w)'
      BY <1>2, <1>3, <1>9 DEF Owns
    <2>4. ASSUME NEW k \in 1..n PROVE ~Owns(k, w)'
      <3>1. k < Depth' /\ k + 1 \in 1..(n + 1)
        BY <1>9
      <3>2. PICK m \in 1..(n + 1) : m = k + 1
        BY <3>1
      <3>3. indices'[U(m)'] <= index + 1 /\ indices'[U(m)'] \in Nat
        <4>1. U(m)' = w \/ U(m)' \in onStack
          <5>1. CASE m = n + 1
            BY <1>9, <5>1
          <5>2. CASE m \in 1..n
            BY <1>9, <5>2
          <5> QED
            BY <1>10, <5>1, <5>2
        <4>2. \A x \in onStack : indices'[x] \in 1..index
          BY <1>2, <1>3
        <4> QED
          BY <1>2, <1>3, <4>1, <4>2
      <3> QED
        BY <1>2, <1>3, <3>1, <3>2, <3>3 DEF Owns
    <2> QED
      BY <2>1, <2>2, <2>3, <2>4
  <1>17. \A x, y : Mutual(x, y)' = Mutual(x, y)
    BY <1>11 DEF Mutual
  <1>18. Owned'
    <2>1. ASSUME NEW x \in onStack PROVE \E k \in 1..(n + 1) : Owns(k, x)' /\ Mutual(x, U(k))'
      <3>1. PICK k \in 1..n : Owns(k, x) /\ Mutual(x, U(k))
        BY <1>0 DEF Owned
      <3>2. k \in 1..(n + 1) /\ Owns(k, x)' /\ Mutual(x, U(k))'
        BY <1>9, <1>16, <1>17, <3>1 DEF Mutual
      <3> QED
        BY <3>2
    <2>2. Mutual(w, U(n + 1))'
      BY <1>9, <1>11, ReachesSelf DEF Mutual
    <2> QED
      BY <1>1, <1>9, <1>16, <2>1, <2>2 DEF Owned
  <1>19. LowReached'
    <2>1. ASSUME NEW k \in 1..n
          PROVE  /\ lowlinks'[U(k)'] <= indices'[U(k)']
                 /\ \E z \in onStack' : indices'[z] = lowlinks'[U(k)'] /\ Reaches(U(k)', z)
      <3>1. U(k)' = U(k) /\ lowlinks'[U(k)] = lowlinks[U(k)] /\ indices'[U(k)] = indices[U(k)]
        BY <1>2, <1>3, <1>9
      <3>2. /\ lowlinks[U(k)] <= indices[U(k)]
            /\ \E z \in onStack : indices[z] = lowlinks[U(k)] /\ Reaches(U(k), z)
        BY <1>0 DEF LowReached
      <3> QED
        BY <1>1, <1>3, <3>1, <3>2
    <2>2. lowlinks'[w] <= indices'[w] /\ Reaches(w, w)
      BY <1>2, <1>3, ReachesSelf
    <2>3. ASSUME NEW k \in 1..(n + 1)
          PROVE  /\ lowlinks'[U(k)'] <= indices'[U(k)']
                 /\ \E z \in onStack' : indices'[z] = lowlinks'[U(k)'] /\ Reaches(U(k)', z)
      <3>1. CASE k = n + 1
        BY <1>1, <1>3, <1>9, <2>2, <3>1
      <3> QED
        BY <1>10, <2>1, <3>1
    <2> QED
      BY <1>9, <1>11, <2>3 DEF LowReached, U
  <1>20. LowCovers'
    <2>1. SUFFICES ASSUME NEW k \in 1..(n + 1), NEW x \in onStack', NEW z \in onStack',
                          Owns(k, x)', Handled(x, z)'
                   PROVE  lowlinks'[U(k)'] <= indices'[z]
      BY <1>9 DEF LowCovers
    <2>2. x \in onStack /\ x \in Visited /\ k \in 1..n /\ Owns(k, x)
      <3>1. x # w
        BY <1>14, <2>1
      <3>2. x \in onStack
        BY <1>1, <3>1
      <3>3. k \in 1..n
        BY <1>10, <1>16, <2>1, <3>2
      <3> QED
        BY <1>0, <1>16, <2>1, <3>2, <3>3 DEF Numbered
    <2>3. U(k)' = U(k) /\ lowlinks'[U(k)'] = lowlinks[U(k)] /\ lowlinks[U(k)] \in 0..index
      BY <1>2, <1>3, <1>9, <2>2
    <2>4. CASE z = w
      BY <1>2, <1>3, <2>3, <2>4
    <2>5. CASE z # w
      <3>1. z \in onStack /\ indices'[z] = indices[z]
        BY <1>1, <1>3, <2>5
      <3>2. Handled(x, z)
        BY <1>14, <2>1, <2>2, <2>5
      <3> QED
        BY <1>0, <2>2, <2>3, <3>1, <3>2 DEF LowCovers
    <2> QED
      BY <2>4, <2>5
  <1>21. ListInv' /\ DependenciesFirst'
    <2>1. Done' = Done /\ \A i : Placed(i)' = Placed(i)
      BY DEF Done, Placed
    <2>2. Done' = Visited' \ onStack'
      BY <1>0, <1>1, <1>4, <2>1 DEF ListInv, Numbered
    <2>3. ListInv'
      BY <1>0, <2>2 DEF ListInv
    <2>4. DependenciesFirst'
      BY <1>0, <1>11, <2>1 DEF DependenciesFirst
    <2> QED
      BY <2>3, <2>4
  <1> QED
    BY <1>7, <1>8, <1>13, <1>15, <1>18, <1>19, <1>20, <1>21 DEF Inv

-----------------------------------------------------------------------------
(* A dependency met again.                                                 *)

LEMMA SeenBeforeStep ==
  ASSUME Inv, NEW w \in pkgs, SeenBefore(w)
  PROVE  Inv'
  <1> PICK n \in Nat : n = Depth
    BY DEF Inv, TypeOK, Depth
  <1>0. /\ TypeOK /\ Numbered /\ FramesNested /\ HandledVisited /\ Owned /\ LowReached /\ LowCovers
        /\ ListInv /\ DependenciesFirst
    BY DEF Inv
  <1>1. frames # <<>> /\ w \in Top(frames).left /\ indices[w] # 0 /\ frames' = Taken(w)
    BY DEF SeenBefore, Unvisited
  <1>2. UNCHANGED <<imports, phase, pkgs, packageToOtherSccMap, orderedPackageInfos,
                    indices, onStack, st, index>>
    BY DEF SeenBefore
  <1>3. /\ n # 0 /\ n \in 1..n /\ w \in Left(n) /\ Depth' = n /\ frames' \in Seq(Frame) /\ phase = "run"
        /\ \A k \in 1..n : U(k)' = U(k) /\ Left(k)' = Left(k) \ (IF k = n THEN {w} ELSE {})
        /\ Top(frames).u = U(n)
    BY <1>1, TakenFrames DEF U, Left, Depth
  <1>4. /\ index \in Nat /\ pkgs \subseteq Package
        /\ indices \in [Package -> 0..index] /\ lowlinks \in [Package -> 0..index]
        /\ \A x \in onStack : x \in pkgs /\ x \in Package /\ indices[x] \in 1..index
    BY <1>0, StackNumbers DEF TypeOK
  <1>5. /\ \A k \in 1..n : U(k) \in onStack /\ Left(k) \subseteq deps(U(k))
        /\ \A k \in 1..n : U(k) = U(n) => k = n
    BY <1>0, <1>3, <1>4 DEF FramesNested
  <1>6. w \in Visited /\ w \in Package /\ w \in deps(U(n)) /\ Reaches(U(n), w)
    BY <1>1, <1>3, <1>4, <1>5, ReachesDeps DEF Visited
  <1>7. lowlinks' = [lowlinks EXCEPT ![U(n)] = BackEdge(U(n), w)]
    BY <1>3 DEF SeenBefore
  <1>8. /\ lowlinks' \in [Package -> 0..index]
        /\ \A x \in Package \ {U(n)} : lowlinks'[x] = lowlinks[x]
        /\ lowlinks'[U(n)] <= lowlinks[U(n)]
        /\ w \in onStack => lowlinks'[U(n)] <= indices[w]
        /\ lowlinks'[U(n)] = lowlinks[U(n)] \/ (w \in onStack /\ lowlinks'[U(n)] = indices[w])
    <2>1. lowlinks[U(n)] \in 0..index /\ indices[w] \in 0..index /\ U(n) \in Package
      BY <1>3, <1>4, <1>5, <1>6
    <2>2. /\ BackEdge(U(n), w) \in 0..index
          /\ BackEdge(U(n), w) <= lowlinks[U(n)]
          /\ w \in onStack => BackEdge(U(n), w) <= indices[w]
          /\ BackEdge(U(n), w) = lowlinks[U(n)] \/ (w \in onStack /\ BackEdge(U(n), w) = indices[w])
      BY <2>1 DEF BackEdge, Smaller
    <2> QED
      BY <1>4, <1>7, <2>1, <2>2
  <1>9. /\ \A p, q : Reaches(p, q)' = Reaches(p, q)
        /\ \A p : deps(p)' = deps(p)
    BY <1>2, ReachesKept
  <1>10. TypeOK'
    BY <1>0, <1>2, <1>3, <1>8 DEF TypeOK
  <1>11. Visited' = Visited /\ Numbered'
    BY <1>0, <1>2 DEF Visited, Numbered
  <1>12. FramesNested'
    <2>1. \A k \in 1..n : U(k)' \in onStack /\ Left(k)' \subseteq deps(U(k))'
      BY <1>3, <1>5, <1>9
    <2>2. \A j, k \in 1..n : j < k => indices[U(j)'] < indices[U(k)'] /\ Reaches(U(j), U(k))'
      <3>1. \A j, k \in 1..n : j < k => indices[U(j)] < indices[U(k)] /\ Reaches(U(j), U(k))
        BY <1>0 DEF FramesNested
      <3>2. ASSUME NEW j \in 1..n, NEW k \in 1..n PROVE Reaches(U(j), U(k))' = Reaches(U(j), U(k))
        BY <1>3, <1>9 DEF U
      <3> QED
        BY <1>3, <3>1, <3>2
    <2> QED
      BY <1>2, <1>3, <2>1, <2>2 DEF FramesNested
  <1>13. \A x \in Visited : \A z : Handled(x, z)' => Handled(x, z) \/ (x = U(n) /\ z = w)
    <2>1. ASSUME NEW x \in Visited, NEW z, Handled(x, z)', ~(x = U(n) /\ z = w)
          PROVE  Handled(x, z)
      <3>1. z \in deps(x) /\ \A k \in 1..n : U(k)' = x => z \notin Left(k)'
        BY <1>3, <1>9, <2>1 DEF Handled
      <3>2. ASSUME NEW k \in 1..n, U(k) = x PROVE z \notin Left(k)
        BY <1>3, <2>1, <3>1, <3>2
      <3> QED
        BY <3>1, <3>2 DEF Handled
    <2> QED
      BY <2>1
  <1>14. HandledVisited'
    <2>1. \A x \in Visited : \A z \in pkgs : Handled(x, z) => z \in Visited
      BY <1>0 DEF HandledVisited
    <2> QED
      BY <1>2, <1>6, <1>11, <1>13, <2>1 DEF HandledVisited
  <1>15. \A x : \A k \in 1..n : Owns(k, x)' = Owns(k, x)
    <2>1. ASSUME NEW x, NEW k \in 1..n PROVE Owns(k, x)' = Owns(k, x)
      <3>1. k < n => k + 1 \in 1..n
        OBVIOUS
      <3>2. k < n => U(k + 1)' = U(k + 1)
        BY <1>3, <3>1
      <3> QED
        BY <1>2, <1>3, <3>2 DEF Owns
    <2> QED
      BY <2>1
  <1>16. Owned'
    <2>1. ASSUME NEW x \in onStack PROVE \E k \in 1..n : Owns(k, x)' /\ Mutual(x, U(k))'
      <3>1. PICK k \in 1..n : Owns(k, x) /\ Mutual(x, U(k))
        BY <1>0 DEF Owned
      <3>2. Owns(k, x)' /\ Mutual(x, U(k))'
        BY <1>3, <1>9, <1>15, <3>1 DEF Mutual
      <3> QED
        BY <3>2
    <2> QED
      BY <1>2, <1>3, <2>1 DEF Owned
  <1>17. LowReached'
    <2>1. ASSUME NEW k \in 1..n
          PROVE  /\ lowlinks'[U(k)] <= indices[U(k)]
                 /\ \E z \in onStack : indices[z] = lowlinks'[U(k)] /\ Reaches(U(k), z)
      <3>1. /\ lowlinks[U(k)] <= indices[U(k)]
            /\ \E z \in onStack : indices[z] = lowlinks[U(k)] /\ Reaches(U(k), z)
        BY <1>0 DEF LowReached
      <3>2. U(k) \in Package /\ indices[U(k)] \in Nat /\ lowlinks[U(k)] \in Nat /\ lowlinks'[U(k)] \in Nat
        BY <1>4, <1>5, <1>8
      <3>3. CASE lowlinks'[U(k)] = lowlinks[U(k)]
        BY <3>1, <3>3
      <3>4. CASE lowlinks'[U(k)] # lowlinks[U(k)]
        <4>1. U(k) = U(n) /\ w \in onStack /\ lowlinks'[U(k)] = indices[w]
          BY <1>8, <3>2, <3>4
        <4>2. lowlinks'[U(k)] <= lowlinks[U(k)]
          BY <1>8, <4>1
        <4> QED
          BY <1>6, <3>1, <3>2, <4>1, <4>2
      <3> QED
        BY <3>3, <3>4
    <2>2. ASSUME NEW k \in 1..n, NEW z PROVE Reaches(U(k), z)' = Reaches(U(k), z)
      BY <1>3, <1>9 DEF U
    <2> QED
      BY <1>2, <1>3, <2>1, <2>2 DEF LowReached
  <1>18. LowCovers'
    <2>1. SUFFICES ASSUME NEW k \in 1..n, NEW x \in onStack, NEW z \in onStack,
                          Owns(k, x), Handled(x, z)'
                   PROVE  lowlinks'[U(k)] <= indices[z]
      BY <1>2, <1>3, <1>15 DEF LowCovers
    <2>2. U(k) \in Package /\ indices[z] \in Nat /\ lowlinks[U(k)] \in Nat /\ lowlinks'[U(k)] \in Nat
          /\ lowlinks'[U(k)] <= lowlinks[U(k)]
      BY <1>4, <1>5, <1>8
    <2>3. CASE Handled(x, z)
      <3>1. lowlinks[U(k)] <= indices[z]
        BY <1>0, <2>1, <2>3 DEF LowCovers
      <3> QED
        BY <2>2, <3>1
    <2>4. CASE x = U(n) /\ z = w
      <3>1. Owns(n, U(n)) /\ k \in 1..Depth /\ n \in 1..Depth
        BY <1>3, OneOwner
      <3>2. k = n
        BY <2>1, <2>4, <3>1, OneOwner
      <3> QED
        BY <1>8, <2>1, <2>4, <3>2
    <2> QED
      BY <1>0, <1>13, <2>1, <2>3, <2>4 DEF Numbered
  <1>19. ListInv' /\ DependenciesFirst'
    <2>1. Done' = Done /\ \A i : Placed(i)' = Placed(i)
      BY <1>2 DEF Done, Placed
    <2>2. ListInv'
      BY <1>0, <1>2, <1>11, <2>1 DEF ListInv
    <2>3. DependenciesFirst'
      BY <1>0, <1>2, <1>9, <2>1 DEF DependenciesFirst
    <2> QED
      BY <2>2, <2>3
  <1> QED
    BY <1>10, <1>11, <1>12, <1>14, <1>16, <1>17, <1>18, <1>19 DEF Inv

-----------------------------------------------------------------------------
(* The end of a call.                                                      *)

Below(u) == SubSeq(st, 1, Len(st) - Cardinality(Above(u)))

\* What lies above u on the stack are the packages visited since, and u.
LEMMA ComponentOnTop ==
  ASSUME TypeOK, Numbered, NEW u \in onStack
  PROVE  /\ Component(u) = {x \in onStack : indices[u] <= indices[x]}
         /\ Below(u) \in Seq(pkgs)
         /\ {Below(u)[i] : i \in 1..Len(Below(u))} = onStack \ Component(u)
         /\ \A i, j \in 1..Len(Below(u)) : i < j => indices[Below(u)[i]] < indices[Below(u)[j]]
  <1>1. /\ st \in Seq(pkgs) /\ onStack = {st[i] : i \in 1..Len(st)}
        /\ \A x \in onStack : indices[x] \in Nat
        /\ \A i, j \in 1..Len(st) : i < j => indices[st[i]] < indices[st[j]]
        /\ \A i \in 1..Len(st) : st[i] \in pkgs /\ st[i] \in onStack
    <2>1. st \in Seq(pkgs) /\ onStack = {st[i] : i \in 1..Len(st)}
      BY DEF TypeOK
    <2>2. \A x \in onStack : indices[x] \in Nat
      BY StackNumbers
    <2>3. \A i, j \in 1..Len(st) : i < j => indices[st[i]] < indices[st[j]]
      BY DEF Numbered
    <2> QED
      BY <2>1, <2>2, <2>3
  <1> PICK l \in Nat : l = Len(st)
    BY <1>1
  <1>2. PICK a \in 1..l : st[a] = u
    BY <1>1
  <1>3. \A j \in 1..l : st[j] = u => j = a
    <2>1. ASSUME NEW j \in 1..l, st[j] = u, j # a PROVE FALSE
      <3>1. j < a \/ a < j
        BY <2>1
      <3>2. indices[u] < indices[u]
        BY <1>1, <1>2, <2>1, <3>1
      <3> QED
        BY <1>1, <3>2
    <2> QED
      BY <2>1
  <1>4. Above(u) = a..l
    <2>1. \A i \in 1..l : (\E j \in 1..i : st[j] = u) <=> a <= i
      <3>1. ASSUME NEW i \in 1..l, NEW j \in 1..i, st[j] = u PROVE a <= i
        <4>1. j \in 1..l
          BY <3>1
        <4>2. j = a
          BY <1>3, <3>1, <4>1
        <4> QED
          BY <3>1, <4>2
      <3>2. ASSUME NEW i \in 1..l, a <= i PROVE \E j \in 1..i : st[j] = u
        BY <1>2, <3>2
      <3> QED
        BY <3>1, <3>2
    <2>2. Above(u) = {i \in 1..l : a <= i}
      BY <2>1 DEF Above
    <2> QED
      BY <2>2
  <1>5. Cardinality(Above(u)) = l - a + 1
    BY <1>4, FS_Interval
  <1> DEFINE below == Below(u)
  <1>6. below = SubSeq(st, 1, a - 1)
    BY <1>5 DEF Below
  <1>7. /\ below \in Seq(pkgs) /\ Len(below) = a - 1
        /\ \A i \in 1..(a - 1) : below[i] = st[i]
    <2>1. \A i \in 1..(a - 1) : i \in 1..l /\ st[i] \in pkgs
      BY <1>1
    <2>2. /\ below \in Seq(pkgs)
          /\ Len(below) = IF 1 <= a - 1 THEN (a - 1) - 1 + 1 ELSE 0
          /\ \A i \in 1..((a - 1) - 1 + 1) : below[i] = st[1 + i - 1]
      BY <1>6, <2>1, SubSeqProperties
    <2> QED
      BY <2>2
  <1>8. \A i \in 1..l : indices[u] <= indices[st[i]] <=> i \in a..l
    <2>1. ASSUME NEW i \in 1..l PROVE indices[u] <= indices[st[i]] <=> i \in a..l
      <3>1. indices[u] \in Nat /\ indices[st[i]] \in Nat
        BY <1>1
      <3>2. i < a => indices[st[i]] < indices[u]
        BY <1>1, <1>2, <2>1
      <3>3. a < i => indices[u] < indices[st[i]]
        BY <1>1, <1>2, <2>1
      <3>4. a = i => st[i] = u
        BY <1>2
      <3> QED
        BY <3>1, <3>2, <3>3, <3>4
    <2> QED
      BY <2>1
  <1>9. Component(u) = {x \in onStack : indices[u] <= indices[x]}
    <2>1. Component(u) = {st[i] : i \in a..l}
      BY <1>4 DEF Component
    <2>2. ASSUME NEW x \in onStack, indices[u] <= indices[x] PROVE x \in Component(u)
      <3>1. PICK i \in 1..l : st[i] = x
        BY <1>1
      <3> QED
        BY <1>8, <2>1, <2>2, <3>1
    <2>3. ASSUME NEW i \in a..l PROVE st[i] \in onStack /\ indices[u] <= indices[st[i]]
      BY <1>1, <1>8
    <2> QED
      BY <2>1, <2>2, <2>3
  <1>10. {below[i] : i \in 1..Len(below)} = onStack \ Component(u)
    <2>1. ASSUME NEW x \in onStack, x \notin Component(u) PROVE x \in {below[i] : i \in 1..Len(below)}
      <3>1. PICK i \in 1..l : st[i] = x
        BY <1>1
      <3>2. i \in 1..(a - 1)
        BY <1>8, <1>9, <2>1, <3>1
      <3> QED
        BY <1>7, <3>1, <3>2
    <2>2. ASSUME NEW i \in 1..(a - 1) PROVE below[i] \in onStack \ Component(u)
      <3>1. i \in 1..l /\ i \notin a..l
        BY <2>2
      <3> QED
        BY <1>1, <1>7, <1>8, <1>9, <3>1
    <2> QED
      BY <1>7, <2>1, <2>2
  <1>11. \A i, j \in 1..Len(below) : i < j => indices[below[i]] < indices[below[j]]
    <2>1. \A i \in 1..(a - 1) : i \in 1..l
      OBVIOUS
    <2> QED
      BY <1>1, <1>7, <2>1, SMTT(30)
  <1> QED
    BY <1>7, <1>9, <1>10, <1>11

\* The frames without the last one, and the lowlink its caller gets.
LEMMA PoppedFrames ==
  ASSUME Inv, Return, NEW n \in Nat, n = Depth
  PROVE  /\ n # 0 /\ n \in 1..n /\ Left(n) = {} /\ phase = "run" /\ Depth' = n - 1
         /\ frames' \in Seq(Frame) /\ Top(frames).u = U(n)
         /\ \A k \in 1..(n - 1) : k \in 1..n /\ U(k)' = U(k) /\ Left(k)' = Left(k)
         /\ \A k \in 1..n : U(k) \in onStack /\ U(k) \in Package
         /\ \A k \in 1..(n - 1) : indices[U(k)] < indices[U(n)]
         /\ lowlinks' \in [Package -> 0..index]
         /\ \A k \in 1..(n - 1) : k # n - 1 => lowlinks'[U(k)] = lowlinks[U(k)]
         /\ n > 1 => lowlinks'[U(n - 1)] = Smaller(lowlinks[U(n - 1)], lowlinks[U(n)])
         /\ UNCHANGED <<imports, phase, pkgs, packageToOtherSccMap, indices, index>>
  <1>1. /\ frames # <<>> /\ Top(frames).left = {} /\ frames' = Pop(frames)
        /\ lowlinks' = PassedUp(Top(frames).u)
        /\ UNCHANGED <<imports, phase, pkgs, packageToOtherSccMap, indices, index>>
    BY DEF Return
  <1>2. frames \in Seq(Frame) /\ n # 0 /\ n = Len(frames) /\ phase = "run"
    BY <1>1 DEF Inv, TypeOK, Depth, FramesNested
  <1>3. Left(n) = {} /\ Top(frames).u = U(n)
    BY <1>1, <1>2 DEF Top, Left, U
  <1>4. /\ frames' \in Seq(Frame) /\ Len(frames') = n - 1
        /\ \A k \in 1..(n - 1) : frames'[k] = frames[k]
    <2>1. frames' = SubSeq(frames, 1, n - 1) /\ \A k \in 1..(n - 1) : frames[k] \in Frame
      BY <1>1, <1>2 DEF Pop
    <2>2. /\ SubSeq(frames, 1, n - 1) \in Seq(Frame)
          /\ Len(SubSeq(frames, 1, n - 1)) = IF 1 <= n - 1 THEN (n - 1) - 1 + 1 ELSE 0
          /\ \A k \in 1..((n - 1) - 1 + 1) : SubSeq(frames, 1, n - 1)[k] = frames[1 + k - 1]
      BY <1>2, <2>1, SubSeqProperties
    <2> QED
      BY <1>2, <2>1, <2>2
  <1>5. \A k \in 1..(n - 1) : k \in 1..n /\ U(k)' = U(k) /\ Left(k)' = Left(k)
    BY <1>4 DEF U, Left
  <1>6. /\ index \in Nat /\ indices \in [Package -> 0..index] /\ lowlinks \in [Package -> 0..index]
        /\ \A x \in onStack : x \in Package /\ indices[x] \in 1..index
    BY StackNumbers DEF Inv, TypeOK
  <1>7. /\ \A k \in 1..n : U(k) \in onStack /\ U(k) \in Package
        /\ \A j, k \in 1..n : j < k => indices[U(j)] < indices[U(k)]
    BY <1>6 DEF Inv, FramesNested
  <1>8. \A k \in 1..(n - 1) : k # n - 1 => U(k) # U(n - 1)
    BY <1>6, <1>7
  <1>9. /\ lowlinks' \in [Package -> 0..index]
        /\ \A k \in 1..(n - 1) : k # n - 1 => lowlinks'[U(k)] = lowlinks[U(k)]
        /\ n > 1 => lowlinks'[U(n - 1)] = Smaller(lowlinks[U(n - 1)], lowlinks[U(n)])
    <2>1. CASE n = 1
      BY <1>1, <1>2, <1>6, <2>1 DEF PassedUp
    <2>2. CASE n # 1
      <3>1. lowlinks' = [lowlinks EXCEPT ![U(n - 1)] = Smaller(@, lowlinks[U(n)])]
        BY <1>1, <1>2, <1>3, <2>2 DEF PassedUp, U
      <3>2. n \in 1..n /\ n - 1 \in 1..n /\ U(n - 1) \in Package /\ U(n) \in Package
        BY <1>2, <1>7, <2>2
      <3>3. Smaller(lowlinks[U(n - 1)], lowlinks[U(n)]) \in 0..index
        BY <1>6, <3>2 DEF Smaller
      <3> QED
        BY <1>6, <1>7, <1>8, <3>1, <3>2, <3>3
    <2> QED
      BY <2>1, <2>2
  <1>10. n \in 1..n /\ \A k \in 1..(n - 1) : k < n /\ k \in 1..n
    BY <1>2
  <1> QED
    BY <1>1, <1>2, <1>3, <1>4, <1>5, <1>7, <1>9, <1>10 DEF Depth

\* What the caller owned and what the call owned is now the caller's.
LEMMA ReturnKeeps ==
  ASSUME Inv, Return, NEW n \in Nat, n = Depth
  PROVE  /\ \A p, q : Reaches(p, q)' = Reaches(p, q) /\ Mutual(p, q)' = Mutual(p, q)
         /\ \A p : deps(p)' = deps(p)
         /\ \A x, z : Handled(x, z)' = Handled(x, z)
         /\ Visited' = Visited /\ HandledVisited'
         /\ \A x \in onStack : \A k \in 1..(n - 1) :
               Owns(k, x)' = (Owns(k, x) \/ (k = n - 1 /\ Owns(n, x)))
  <1>1. /\ n # 0 /\ n \in 1..n /\ Left(n) = {} /\ Depth' = n - 1
        /\ \A k \in 1..(n - 1) : k \in 1..n /\ U(k)' = U(k) /\ Left(k)' = Left(k)
        /\ \A k \in 1..(n - 1) : indices[U(k)] < indices[U(n)]
        /\ \A k \in 1..n : U(k) \in onStack
        /\ UNCHANGED <<imports, phase, pkgs, packageToOtherSccMap, indices, index>>
    BY PoppedFrames
  <1>2. /\ \A p, q : Reaches(p, q)' = Reaches(p, q)
        /\ \A p : deps(p)' = deps(p)
    BY <1>1, ReachesKept
  <1>3. \A p, q : Mutual(p, q)' = Mutual(p, q)
    BY <1>2 DEF Mutual
  <1>4. ASSUME NEW x, NEW z PROVE Handled(x, z)' = Handled(x, z)
    <2>1. \A k \in 1..n : k \in 1..(n - 1) \/ k = n
      BY <1>1
    <2>2. Handled(x, z) <=> z \in deps(x) /\ \A k \in 1..(n - 1) : U(k) = x => z \notin Left(k)
      BY <1>1, <2>1 DEF Handled
    <2>3. Handled(x, z)' <=> z \in deps(x) /\ \A k \in 1..(n - 1) : U(k)' = x => z \notin Left(k)'
      BY <1>1, <1>2 DEF Handled
    <2>4. Handled(x, z)' <=> Handled(x, z)
      BY <1>1, <2>2, <2>3
    <2>5. Handled(x, z)' \in BOOLEAN /\ Handled(x, z) \in BOOLEAN
      BY DEF Handled
    <2> QED
      BY <2>4, <2>5
  <1>5. Visited' = Visited
    BY <1>1 DEF Visited
  <1>6. HandledVisited'
    BY <1>1, <1>4, <1>5 DEF Inv, HandledVisited
  <1>7. ASSUME NEW x \in onStack, NEW k \in 1..(n - 1)
        PROVE  Owns(k, x)' = (Owns(k, x) \/ (k = n - 1 /\ Owns(n, x)))
    <2>0. indices[x] \in Nat /\ indices[U(k)] \in Nat /\ indices[U(n)] \in Nat /\ indices[U(k)] < indices[U(n)]
      BY <1>1, StackNumbers DEF Inv
    <2>1. Owns(n, x) <=> indices[U(n)] <= indices[x]
      BY <1>1 DEF Owns
    <2>2. Owns(k, x) <=> indices[U(k)] <= indices[x] /\ indices[x] < indices[U(k + 1)]
      BY DEF Owns
    <2>3. CASE k = n - 1
      <3>1. Owns(k, x)' <=> indices[U(k)] <= indices[x]
        BY <1>1, <2>3 DEF Owns
      <3>2. k + 1 = n
        BY <2>3
      <3>3. Owns(k, x)' <=> (Owns(k, x) \/ Owns(n, x))
        BY <2>0, <2>1, <2>2, <3>1, <3>2
      <3> QED
        BY <2>3, <3>3 DEF Owns
    <2>4. CASE k # n - 1
      <3>1. k + 1 \in 1..(n - 1)
        BY <2>4
      <3>2. PICK m \in 1..(n - 1) : m = k + 1
        BY <3>1
      <3>3. U(m)' = U(m)
        BY <1>1
      <3>4. Owns(k, x)' <=> indices[U(k)] <= indices[x] /\ indices[x] < indices[U(m)]
        BY <1>1, <3>2, <3>3 DEF Owns
      <3> QED
        BY <2>2, <2>4, <3>2, <3>4 DEF Owns
    <2> QED
      BY <2>3, <2>4
  <1> QED
    BY <1>2, <1>3, <1>4, <1>5, <1>6, <1>7

\* A call that is no root reaches its caller through what its lowlink points at.
LEMMA ReturnInnerStep ==
  ASSUME Inv, Return, ~IsRoot(Top(frames).u)
  PROVE  Inv'
  <1> PICK n \in Nat : n = Depth
    BY DEF Inv, TypeOK, Depth
  <1> DEFINE u == U(n)
  <1>0. /\ TypeOK /\ Numbered /\ FramesNested /\ HandledVisited /\ Owned /\ LowReached /\ LowCovers
        /\ ListInv /\ DependenciesFirst
    BY DEF Inv
  <1>1. /\ n # 0 /\ n \in 1..n /\ phase = "run" /\ Depth' = n - 1
        /\ frames' \in Seq(Frame) /\ Top(frames).u = U(n)
        /\ \A k \in 1..(n - 1) : k \in 1..n /\ U(k)' = U(k) /\ Left(k)' = Left(k)
        /\ \A k \in 1..n : U(k) \in onStack /\ U(k) \in Package
        /\ \A k \in 1..(n - 1) : indices[U(k)] < indices[U(n)]
        /\ lowlinks' \in [Package -> 0..index]
        /\ \A k \in 1..(n - 1) : k # n - 1 => lowlinks'[U(k)] = lowlinks[U(k)]
        /\ n > 1 => lowlinks'[U(n - 1)] = Smaller(lowlinks[U(n - 1)], lowlinks[U(n)])
        /\ UNCHANGED <<imports, phase, pkgs, packageToOtherSccMap, indices, index>>
    BY PoppedFrames
  <1>2. /\ \A p, q : Reaches(p, q)' = Reaches(p, q) /\ Mutual(p, q)' = Mutual(p, q)
        /\ \A p : deps(p)' = deps(p)
        /\ \A x, z : Handled(x, z)' = Handled(x, z)
        /\ Visited' = Visited /\ HandledVisited'
        /\ \A x \in onStack : \A k \in 1..(n - 1) :
              Owns(k, x)' = (Owns(k, x) \/ (k = n - 1 /\ Owns(n, x)))
    BY ReturnKeeps
  <1>3. UNCHANGED <<orderedPackageInfos, st, onStack>> /\ lowlinks[u] # indices[u]
    BY <1>1 DEF Return, IsRoot
  <1>4. /\ index \in Nat /\ lowlinks \in [Package -> 0..index]
        /\ \A x \in onStack : x \in Package /\ indices[x] \in Nat /\ lowlinks[x] \in Nat /\ lowlinks'[x] \in Nat
    <2>1. index \in Nat /\ \A x \in onStack : x \in Package /\ indices[x] \in 1..index
      BY <1>0, StackNumbers
    <2>2. lowlinks \in [Package -> 0..index]
      BY <1>0 DEF TypeOK
    <2> QED
      BY <1>1, <2>1, <2>2
  <1>5. PICK z0 \in onStack : indices[z0] = lowlinks[u] /\ Reaches(u, z0) /\ lowlinks[u] < indices[u]
    <2>1. /\ lowlinks[u] <= indices[u]
          /\ \E z \in onStack : indices[z] = lowlinks[u] /\ Reaches(u, z)
      BY <1>0, <1>1 DEF LowReached
    <2>2. lowlinks[u] \in Nat /\ indices[u] \in Nat
      BY <1>1, <1>4
    <2> QED
      BY <1>3, <2>1, <2>2
  <1>6. n > 1 /\ n - 1 \in 1..(n - 1) /\ Mutual(u, U(n - 1))
    <2>1. PICK j \in 1..n : Owns(j, z0) /\ Mutual(z0, U(j))
      BY <1>0 DEF Owned
    <2>2. j # n
      <3>1. ~Owns(n, z0)
        BY <1>1, <1>4, <1>5 DEF Owns
      <3> QED
        BY <2>1, <3>1
    <2>3. j \in 1..(n - 1) /\ n - 1 \in 1..n
      BY <1>1, <2>2
    <2>4. Reaches(u, U(j))
      BY <1>5, <2>1, ReachesTransitive DEF Mutual
    <2>5. j = n - 1 \/ Reaches(U(j), U(n - 1))
      BY <1>0, <2>3 DEF FramesNested
    <2>6. Reaches(u, U(n - 1))
      BY <2>4, <2>5, ReachesTransitive
    <2>7. Reaches(U(n - 1), u)
      BY <1>0, <1>1, <2>3 DEF FramesNested
    <2> QED
      BY <2>3, <2>6, <2>7 DEF Mutual
  <1>7. PICK m \in 1..(n - 1) : m = n - 1
    BY <1>6
  <1>8. /\ lowlinks'[U(m)] <= lowlinks[U(m)] /\ lowlinks'[U(m)] <= lowlinks[u]
        /\ lowlinks'[U(m)] = lowlinks[U(m)] \/ lowlinks'[U(m)] = lowlinks[u]
        /\ \A k \in 1..(n - 1) : lowlinks'[U(k)] <= lowlinks[U(k)]
        /\ \A k \in 1..(n - 1) : k # m => lowlinks'[U(k)] = lowlinks[U(k)]
    <2>1. lowlinks'[U(m)] = Smaller(lowlinks[U(m)], lowlinks[u])
      BY <1>1, <1>6, <1>7
    <2>2. lowlinks[U(m)] \in Nat /\ lowlinks[u] \in Nat
      BY <1>1, <1>4
    <2>3. /\ lowlinks'[U(m)] <= lowlinks[U(m)] /\ lowlinks'[U(m)] <= lowlinks[u]
          /\ lowlinks'[U(m)] = lowlinks[U(m)] \/ lowlinks'[U(m)] = lowlinks[u]
      BY <2>1, <2>2 DEF Smaller
    <2>4. ASSUME NEW k \in 1..(n - 1), k # m PROVE lowlinks'[U(k)] = lowlinks[U(k)]
      BY <1>1, <1>7, <2>4
    <2>5. ASSUME NEW k \in 1..(n - 1) PROVE lowlinks'[U(k)] <= lowlinks[U(k)]
      <3>1. lowlinks[U(k)] \in Nat
        BY <1>1, <1>4
      <3> QED
        BY <2>3, <2>4, <3>1
    <2> QED
      BY <2>3, <2>4, <2>5
  <1>9. TypeOK' /\ Numbered'
    <2>1. TypeOK'
      BY <1>0, <1>1, <1>3 DEF TypeOK
    <2>2. Numbered'
      BY <1>0, <1>1, <1>2, <1>3 DEF Numbered
    <2> QED
      BY <2>1, <2>2
  <1>10. FramesNested'
    <2>1. \A k \in 1..(n - 1) : U(k) \in onStack /\ Left(k) \subseteq deps(U(k))
      BY <1>0, <1>1 DEF FramesNested
    <2>2. \A j, k \in 1..(n - 1) : j < k => indices[U(j)] < indices[U(k)] /\ Reaches(U(j), U(k))
      BY <1>0, <1>1 DEF FramesNested
    <2>3. \A k \in 1..(n - 1) : U(k)' \in onStack' /\ Left(k)' \subseteq deps(U(k))'
      BY <1>1, <1>2, <1>3, <2>1 DEF U
    <2>4. \A j, k \in 1..(n - 1) : j < k => indices'[U(j)'] < indices'[U(k)'] /\ Reaches(U(j), U(k))'
      <3>1. ASSUME NEW j \in 1..(n - 1), NEW k \in 1..(n - 1) PROVE Reaches(U(j), U(k))' = Reaches(U(j), U(k))
        BY <1>1, <1>2 DEF U
      <3> QED
        BY <1>1, <2>2, <3>1
    <2> QED
      BY <1>1, <1>6, <2>3, <2>4 DEF FramesNested
  <1>11. Owned'
    <2>1. ASSUME NEW x \in onStack PROVE \E k \in 1..(n - 1) : Owns(k, x)' /\ Mutual(x, U(k))'
      <3>1. PICK k \in 1..n : Owns(k, x) /\ Mutual(x, U(k))
        BY <1>0 DEF Owned
      <3>2. CASE k \in 1..(n - 1)
        <4>1. Owns(k, x)' /\ Mutual(x, U(k))'
          BY <1>1, <1>2, <3>1, <3>2 DEF U
        <4> QED
          BY <3>2, <4>1
      <3>3. CASE k = n
        <4>1. Mutual(x, U(m))
          BY <1>6, <1>7, <3>1, <3>3, MutualEquivalence
        <4>2. Owns(m, x)' /\ Mutual(x, U(m))'
          BY <1>1, <1>2, <1>7, <3>1, <3>3, <4>1 DEF U
        <4> QED
          BY <4>2
      <3> QED
        BY <1>1, <3>2, <3>3
    <2> QED
      BY <1>1, <1>3, <2>1 DEF Owned
  <1>12. LowReached'
    <2>1. ASSUME NEW k \in 1..(n - 1)
          PROVE  /\ lowlinks'[U(k)] <= indices[U(k)]
                 /\ \E z \in onStack : indices[z] = lowlinks'[U(k)] /\ Reaches(U(k), z)
      <3>1. /\ lowlinks[U(k)] <= indices[U(k)]
            /\ \E z \in onStack : indices[z] = lowlinks[U(k)] /\ Reaches(U(k), z)
        BY <1>0, <1>1 DEF LowReached
      <3>2. lowlinks'[U(k)] <= indices[U(k)]
        <4>1. /\ lowlinks[U(k)] \in Nat /\ indices[U(k)] \in Nat /\ lowlinks'[U(k)] \in Nat
              /\ lowlinks'[U(k)] <= lowlinks[U(k)]
          BY <1>1, <1>4, <1>8
        <4> QED
          BY <3>1, <4>1
      <3>3. CASE lowlinks'[U(k)] = lowlinks[U(k)]
        BY <3>1, <3>2, <3>3
      <3>4. CASE lowlinks'[U(k)] # lowlinks[U(k)]
        <4>1. k = m /\ lowlinks'[U(k)] = indices[z0]
          BY <1>5, <1>8, <3>4
        <4>2. Reaches(U(k), z0)
          BY <1>5, <1>6, <1>7, <4>1, ReachesTransitive DEF Mutual
        <4> QED
          BY <3>2, <4>1, <4>2
      <3> QED
        BY <3>3, <3>4
    <2>2. ASSUME NEW k \in 1..(n - 1), NEW z PROVE Reaches(U(k), z)' = Reaches(U(k), z)
      BY <1>1, <1>2 DEF U
    <2> QED
      BY <1>1, <1>3, <2>1, <2>2 DEF LowReached
  <1>13. LowCovers'
    <2>1. SUFFICES ASSUME NEW k \in 1..(n - 1), NEW x \in onStack, NEW z \in onStack,
                          Owns(k, x) \/ (k = n - 1 /\ Owns(n, x)), Handled(x, z)
                   PROVE  lowlinks'[U(k)] <= indices[z]
      BY <1>1, <1>2, <1>3 DEF LowCovers
    <2>2. /\ lowlinks[U(k)] \in Nat /\ lowlinks'[U(k)] \in Nat /\ indices[z] \in Nat /\ lowlinks[u] \in Nat
          /\ lowlinks'[U(k)] <= lowlinks[U(k)]
      BY <1>1, <1>4, <1>8
    <2>3. CASE Owns(k, x)
      <3>1. lowlinks[U(k)] <= indices[z]
        BY <1>0, <1>1, <2>1, <2>3 DEF LowCovers
      <3> QED
        BY <2>2, <3>1
    <2>4. CASE k = n - 1 /\ Owns(n, x)
      <3>1. lowlinks[u] <= indices[z]
        BY <1>0, <1>1, <2>1, <2>4 DEF LowCovers
      <3>2. lowlinks'[U(k)] <= lowlinks[u]
        BY <1>7, <1>8, <2>4
      <3> QED
        BY <2>2, <3>1, <3>2
    <2> QED
      BY <2>1, <2>3, <2>4
  <1>14. ListInv' /\ DependenciesFirst'
    <2>1. Done' = Done /\ \A i : Placed(i)' = Placed(i)
      BY <1>3 DEF Done, Placed
    <2>2. ListInv'
      BY <1>0, <1>1, <1>2, <1>3, <2>1 DEF ListInv
    <2>3. DependenciesFirst'
      BY <1>0, <1>1, <1>2, <1>3, <2>1 DEF DependenciesFirst
    <2> QED
      BY <2>2, <2>3
  <1> QED
    BY <1>2, <1>9, <1>10, <1>11, <1>12, <1>13, <1>14 DEF Inv

\* Everything in the list depends on packages in the list only.
LEMMA DoneClosed ==
  ASSUME Inv
  PROVE  /\ Done \in SUBSET pkgs /\ Done \cap onStack = {}
         /\ \A x \in Done : deps(x) \subseteq Done
  <1>1. Done = Visited \ onStack /\ Visited \subseteq pkgs
    BY DEF Inv, ListInv, Visited
  <1>2. Len(orderedPackageInfos) \in Nat
    BY DEF Inv, TypeOK
  <1>3. ASSUME NEW x \in Done PROVE deps(x) \subseteq Done
    <2>1. PICK i \in 1..Len(orderedPackageInfos) : x \in orderedPackageInfos[i]
      BY DEF Done, Placed
    <2>2. deps(x) \subseteq Placed(i)
      BY <2>1 DEF Inv, DependenciesFirst
    <2>3. Placed(i) \subseteq Done
      BY <1>2, <2>1 DEF Done, Placed
    <2> QED
      BY <2>2, <2>3
  <1> QED
    BY <1>1, <1>3

\* The component of a root: its packages depend on nothing but each other and what
\* is in the list, so that it is a whole class.
LEMMA ComponentIsClass ==
  ASSUME Inv, Return, IsRoot(Top(frames).u), NEW n \in Nat, n = Depth,
         NEW p \in Component(U(n))
  PROVE  /\ Component(U(n)) = {q \in pkgs : Reaches(p, q) /\ Reaches(q, p)}
         /\ deps(p) \subseteq Component(U(n)) \cup Done
  <1> DEFINE u == U(n)
             C == Component(u)
  <1>0. TypeOK /\ Numbered /\ FramesNested /\ HandledVisited /\ Owned /\ LowCovers /\ ListInv
    BY DEF Inv
  <1>1. /\ n # 0 /\ n \in 1..n /\ Left(n) = {} /\ Top(frames).u = u
        /\ \A k \in 1..n : U(k) \in onStack /\ U(k) \in Package
        /\ \A k \in 1..(n - 1) : indices[U(k)] < indices[u]
    BY PoppedFrames
  <1>2. /\ lowlinks[u] = indices[u] /\ indices[u] \in Nat
        /\ \A x \in onStack : x \in pkgs /\ indices[x] \in Nat
    BY <1>0, <1>1, StackNumbers DEF IsRoot
  <1>3. C = {x \in onStack : indices[u] <= indices[x]}
    BY <1>0, <1>1, ComponentOnTop
  <1> HIDE DEF C
  <1>4. \A x \in C : x \in onStack /\ x \in pkgs /\ x \in Visited /\ Owns(n, x)
    BY <1>0, <1>1, <1>2, <1>3 DEF Owns, Numbered
  <1>5. \A x \in C : Mutual(x, u)
    <2>1. ASSUME NEW x \in C PROVE Mutual(x, u)
      <3>1. PICK k \in 1..n : Owns(k, x) /\ Mutual(x, U(k))
        BY <1>0, <1>4 DEF Owned
      <3>2. k = n
        BY <1>1, <1>4, <3>1, OneOwner
      <3> QED
        BY <3>1, <3>2
    <2> QED
      BY <2>1
  <1>6. \A x \in C : deps(x) \subseteq C \cup Done
    <2>1. SUFFICES ASSUME NEW x \in C, NEW z \in deps(x) PROVE z \in C \cup Done
      OBVIOUS
    <2>2. Handled(x, z)
      <3>1. ASSUME NEW k \in 1..n, U(k) = x PROVE z \notin Left(k)
        <4>1. Owns(k, x)
          BY <3>1, OneOwner
        <4>2. k = n
          BY <1>1, <1>4, <4>1, OneOwner
        <4> QED
          BY <1>1, <4>2
      <3> QED
        BY <2>1, <3>1 DEF Handled
    <2>3. z \in Visited
      BY <1>0, <1>4, <2>1, <2>2 DEF HandledVisited, deps
    <2>4. CASE z \in onStack
      <3>1. lowlinks[u] <= indices[z]
        BY <1>0, <1>1, <1>4, <2>2, <2>4 DEF LowCovers
      <3> QED
        BY <1>2, <1>3, <2>4, <3>1
    <2>5. CASE z \notin onStack
      BY <1>0, <2>3, <2>5 DEF ListInv
    <2> QED
      BY <2>4, <2>5
  <1>7. ASSUME NEW q \in C PROVE Reaches(p, q) /\ Reaches(q, p)
    <2>1. Mutual(p, u) /\ Mutual(q, u)
      BY <1>5 DEF C
    <2>2. Mutual(u, q)
      BY <2>1 DEF Mutual
    <2>3. Mutual(p, q)
      BY <2>1, <2>2, MutualEquivalence
    <2> QED
      BY <2>3 DEF Mutual
  <1>8. ASSUME NEW q \in pkgs, Reaches(p, q), Reaches(q, p) PROVE q \in C
    <2>1. /\ Done \in SUBSET pkgs /\ Done \cap onStack = {}
          /\ \A x \in Done : deps(x) \subseteq Done
      BY DoneClosed
    <2>2. C \cup Done \in SUBSET pkgs /\ \A x \in C \cup Done : deps(x) \subseteq C \cup Done
      BY <1>4, <1>6, <2>1
    <2>3. p \in C
      BY DEF C
    <2>4. q \in C \cup Done
      BY <1>8, <2>2, <2>3, ReachesInside
    <2>5. q \notin Done
      <3>1. SUFFICES ASSUME q \in Done PROVE FALSE
        OBVIOUS
      <3>2. p \in Done
        BY <1>8, <2>1, <3>1, ReachesInside
      <3> QED
        BY <1>4, <2>1, <2>3, <3>2
    <2> QED
      BY <2>4, <2>5
  <1>9. p \in C
    BY DEF C
  <1> QED
    BY <1>4, <1>6, <1>7, <1>8, <1>9 DEF C

\* What is left on the stack has the owners, handled dependencies and lowlinks it had.
LEMMA ReturnRootStep ==
  ASSUME Inv, Return, IsRoot(Top(frames).u)
  PROVE  Inv'
  <1> PICK n \in Nat : n = Depth
    BY DEF Inv, TypeOK, Depth
  <1> DEFINE u == U(n)
             C == Component(u)
             list == orderedPackageInfos
  <1>0. /\ TypeOK /\ Numbered /\ FramesNested /\ HandledVisited /\ Owned /\ LowReached /\ LowCovers
        /\ ListInv /\ DependenciesFirst
    BY DEF Inv
  <1>1. /\ n # 0 /\ n \in 1..n /\ phase = "run" /\ Depth' = n - 1
        /\ frames' \in Seq(Frame) /\ Top(frames).u = u
        /\ \A k \in 1..(n - 1) : k \in 1..n /\ U(k)' = U(k) /\ Left(k)' = Left(k)
        /\ \A k \in 1..n : U(k) \in onStack /\ U(k) \in Package
        /\ \A k \in 1..(n - 1) : indices[U(k)] < indices[u]
        /\ lowlinks' \in [Package -> 0..index]
        /\ \A k \in 1..(n - 1) : k # n - 1 => lowlinks'[U(k)] = lowlinks[U(k)]
        /\ n > 1 => lowlinks'[U(n - 1)] = Smaller(lowlinks[U(n - 1)], lowlinks[u])
        /\ UNCHANGED <<imports, phase, pkgs, packageToOtherSccMap, indices, index>>
    BY PoppedFrames
  <1>2. /\ \A p, q : Reaches(p, q)' = Reaches(p, q) /\ Mutual(p, q)' = Mutual(p, q)
        /\ \A p : deps(p)' = deps(p)
        /\ \A x, z : Handled(x, z)' = Handled(x, z)
        /\ Visited' = Visited /\ HandledVisited'
        /\ \A x \in onStack : \A k \in 1..(n - 1) :
              Owns(k, x)' = (Owns(k, x) \/ (k = n - 1 /\ Owns(n, x)))
    BY ReturnKeeps
  <1>3. /\ list' = Append(list, C)
        /\ st' = Below(u) /\ onStack' = onStack \ C /\ lowlinks[u] = indices[u]
    BY <1>1 DEF Return, IsRoot, Below
  <1>4. /\ index \in Nat /\ lowlinks \in [Package -> 0..index]
        /\ \A x \in onStack : x \in pkgs /\ x \in Package /\ indices[x] \in Nat /\ lowlinks[x] \in Nat
    <2>1. index \in Nat /\ \A x \in onStack : x \in pkgs /\ x \in Package /\ indices[x] \in 1..index
      BY <1>0, StackNumbers
    <2>2. lowlinks \in [Package -> 0..index]
      BY <1>0 DEF TypeOK
    <2> QED
      BY <2>1, <2>2
  <1>5. /\ C = {x \in onStack : indices[u] <= indices[x]}
        /\ st' \in Seq(pkgs) /\ {st'[i] : i \in 1..Len(st')} = onStack \ C
        /\ \A i, j \in 1..Len(st') : i < j => indices[st'[i]] < indices[st'[j]]
    <2>1. u \in onStack
      BY <1>1
    <2> DEFINE below == Below(u)
    <2>2. /\ C = {x \in onStack : indices[u] <= indices[x]}
          /\ below \in Seq(pkgs) /\ {below[i] : i \in 1..Len(below)} = onStack \ C
          /\ \A i, j \in 1..Len(below) : i < j => indices[below[i]] < indices[below[j]]
      BY <1>0, <2>1, ComponentOnTop
    <2>3. st' = below
      BY <1>3
    <2> HIDE DEF below, C
    <2> QED
      BY <2>2, <2>3
  <1>6. \A p \in C : /\ C = {q \in pkgs : Reaches(p, q) /\ Reaches(q, p)}
                     /\ deps(p) \subseteq C \cup Done
    BY ComponentIsClass
  <1> HIDE DEF C
  <1>7. \A x \in onStack : Owns(n, x) <=> x \in C
    BY <1>1, <1>5 DEF Owns
  <1>8. u \in C /\ C \subseteq onStack /\ C \subseteq Package /\ C \cap Done = {}
    BY <1>0, <1>1, <1>4, <1>5 DEF ListInv
  <1>9. \A k \in 1..(n - 1) : lowlinks'[U(k)] = lowlinks[U(k)] /\ U(k) \in onStack \ C
    <2>1. ASSUME NEW k \in 1..(n - 1) PROVE lowlinks'[U(k)] = lowlinks[U(k)] /\ U(k) \in onStack \ C
      <3>1. /\ lowlinks[U(k)] <= indices[U(k)] /\ indices[U(k)] < indices[u]
            /\ lowlinks[U(k)] \in Nat /\ indices[U(k)] \in Nat /\ indices[u] \in Nat
        BY <1>0, <1>1, <1>4 DEF LowReached
      <3>2. U(k) \in onStack \ C
        BY <1>1, <1>5, <3>1
      <3>3. k = n - 1 => lowlinks'[U(k)] = lowlinks[U(k)]
        <4>1. k = n - 1 => lowlinks'[U(k)] = Smaller(lowlinks[U(k)], lowlinks[u])
          BY <1>1, <2>1
        <4> QED
          BY <1>3, <3>1, <4>1 DEF Smaller
      <3> QED
        BY <1>1, <3>2, <3>3
    <2> QED
      BY <2>1
  <1>10. /\ list \in Seq(SUBSET Package) /\ list' \in Seq(SUBSET Package)
         /\ Len(list) \in Nat /\ Len(list') = Len(list) + 1
         /\ \A i \in 1..Len(list) : list'[i] = list[i]
         /\ list'[Len(list) + 1] = C
    <2>1. list \in Seq(SUBSET Package)
      BY <1>0 DEF TypeOK
    <2>2. C \in SUBSET Package
      BY <1>8
    <2> QED
      BY <1>3, <2>1, <2>2, AppendProperties
  <1>11. TypeOK' /\ Numbered'
    <2>1. TypeOK'
      BY <1>0, <1>1, <1>3, <1>5, <1>10 DEF TypeOK
    <2>2. Numbered'
      BY <1>0, <1>1, <1>2, <1>3, <1>5 DEF Numbered
    <2> QED
      BY <2>1, <2>2
  <1>12. FramesNested'
    <2>1. \A k \in 1..(n - 1) : Left(k) \subseteq deps(U(k))
      BY <1>0, <1>1 DEF FramesNested
    <2>2. \A j, k \in 1..(n - 1) : j < k => indices[U(j)] < indices[U(k)] /\ Reaches(U(j), U(k))
      BY <1>0, <1>1 DEF FramesNested
    <2>3. \A k \in 1..(n - 1) : U(k)' \in onStack' /\ Left(k)' \subseteq deps(U(k))'
      BY <1>1, <1>2, <1>3, <1>9, <2>1 DEF U
    <2>4. \A j, k \in 1..(n - 1) : j < k => indices'[U(j)'] < indices'[U(k)'] /\ Reaches(U(j), U(k))'
      <3>1. ASSUME NEW j \in 1..(n - 1), NEW k \in 1..(n - 1) PROVE Reaches(U(j), U(k))' = Reaches(U(j), U(k))
        BY <1>1, <1>2 DEF U
      <3> QED
        BY <1>1, <2>2, <3>1
    <2>5. n - 1 = 0 => onStack' = {}
      <3>1. ASSUME n = 1, NEW x \in onStack PROVE x \in C
        BY <1>0, <1>7, <3>1 DEF Owned
      <3> QED
        BY <1>3, <3>1
    <2> QED
      BY <1>1, <2>3, <2>4, <2>5 DEF FramesNested
  <1>13. Owned'
    <2>1. ASSUME NEW x \in onStack \ C PROVE \E k \in 1..(n - 1) : Owns(k, x)' /\ Mutual(x, U(k))'
      <3>1. PICK k \in 1..n : Owns(k, x) /\ Mutual(x, U(k))
        BY <1>0 DEF Owned
      <3>2. k \in 1..(n - 1)
        BY <1>1, <1>7, <3>1
      <3>3. Owns(k, x)' /\ Mutual(x, U(k))'
        BY <1>1, <1>2, <3>1, <3>2 DEF U
      <3> QED
        BY <3>2, <3>3
    <2> QED
      BY <1>1, <1>3, <2>1 DEF Owned
  <1>14. LowReached'
    <2>1. ASSUME NEW k \in 1..(n - 1)
          PROVE  /\ lowlinks'[U(k)] <= indices[U(k)]
                 /\ \E z \in onStack \ C : indices[z] = lowlinks'[U(k)] /\ Reaches(U(k), z)
      <3>1. lowlinks[U(k)] <= indices[U(k)]
        BY <1>0, <1>1 DEF LowReached
      <3>2. PICK z \in onStack : indices[z] = lowlinks[U(k)] /\ Reaches(U(k), z)
        BY <1>0, <1>1 DEF LowReached
      <3>3. indices[z] < indices[u]
        <4>1. indices[z] <= indices[U(k)] /\ indices[U(k)] < indices[u]
          BY <1>1, <3>1, <3>2
        <4>2. indices[z] \in Nat /\ indices[U(k)] \in Nat /\ indices[u] \in Nat
          BY <1>1, <1>4
        <4> QED
          BY <4>1, <4>2
      <3>4. z \notin C
        BY <1>1, <1>4, <1>5, <3>3
      <3> QED
        BY <1>9, <3>1, <3>2, <3>4
    <2>2. ASSUME NEW k \in 1..(n - 1), NEW z PROVE Reaches(U(k), z)' = Reaches(U(k), z)
      BY <1>1, <1>2 DEF U
    <2> QED
      BY <1>1, <1>3, <2>1, <2>2 DEF LowReached
  <1>15. LowCovers'
    <2>1. ASSUME NEW k \in 1..(n - 1), NEW x \in onStack \ C, NEW z \in onStack \ C, Owns(k, x)', Handled(x, z)'
          PROVE  lowlinks'[U(k)'] <= indices'[z]
      <3>1. Handled(x, z)
        BY <1>2, <2>1
      <3>2. Owns(k, x)
        BY <1>2, <1>7, <2>1
      <3>3. lowlinks[U(k)] <= indices[z]
        BY <1>0, <1>1, <3>1, <3>2 DEF LowCovers
      <3> QED
        BY <1>1, <1>9, <3>3
    <2> QED
      BY <1>1, <1>3, <2>1 DEF LowCovers
  <1>16. /\ \A i \in 1..Len(list) : Placed(i)' = Placed(i)
         /\ Done' = Done \cup C
    <2>1. ASSUME NEW i \in 1..Len(list) PROVE Placed(i)' = Placed(i)
      <3>1. \A j \in 1..i : list'[j] = list[j]
        BY <1>10
      <3> QED
        BY <3>1 DEF Placed
    <2>2. Done' = UNION {list'[j] : j \in 1..(Len(list) + 1)}
      BY <1>10 DEF Done, Placed
    <2>3. Done = UNION {list[j] : j \in 1..Len(list)}
      BY DEF Done, Placed
    <2>4. \A j \in 1..(Len(list) + 1) : j \in 1..Len(list) \/ j = Len(list) + 1
      BY <1>10
    <2>5. Len(list) + 1 \in 1..(Len(list) + 1) /\ \A j \in 1..Len(list) : j \in 1..(Len(list) + 1)
      BY <1>10
    <2> QED
      BY <1>10, <2>1, <2>2, <2>3, <2>4, <2>5
  <1>17. ListInv'
    <2>1. Done' = Visited' \ onStack'
      BY <1>0, <1>2, <1>3, <1>8, <1>16 DEF ListInv, Numbered
    <2>2. \A i \in 1..Len(list) : list[i] # {} /\ list[i] \subseteq Done
      BY <1>0, <1>10 DEF ListInv, Done, Placed
    <2>3. \A i \in 1..Len(list') : i \in 1..Len(list) \/ i = Len(list) + 1
      BY <1>10
    <2>4. \A i \in 1..Len(list') : list'[i] # {}
      BY <1>8, <1>10, <2>2, <2>3
    <2>5. \A i, j \in 1..Len(list) : i # j => list[i] \cap list[j] = {}
      BY <1>0 DEF ListInv
    <2>6. ASSUME NEW i \in 1..Len(list'), NEW j \in 1..Len(list'), i # j PROVE list'[i] \cap list'[j] = {}
      <3>1. CASE i \in 1..Len(list) /\ j \in 1..Len(list)
        BY <1>10, <2>5, <2>6, <3>1
      <3>2. CASE i \in 1..Len(list) /\ j = Len(list) + 1
        BY <1>8, <1>10, <2>2, <3>2
      <3>3. CASE i = Len(list) + 1 /\ j \in 1..Len(list)
        BY <1>8, <1>10, <2>2, <3>3
      <3> QED
        BY <2>3, <2>6, <3>1, <3>2, <3>3
    <2> QED
      BY <1>1, <2>1, <2>4, <2>6 DEF ListInv
  <1>18. DependenciesFirst'
    <2>1. SUFFICES ASSUME NEW i \in 1..(Len(list) + 1), NEW p \in list'[i]
                   PROVE  /\ list'[i] = {q \in pkgs : Reaches(p, q) /\ Reaches(q, p)}
                          /\ deps(p) \subseteq Placed(i)'
      BY <1>1, <1>2, <1>10 DEF DependenciesFirst
    <2>2. CASE i \in 1..Len(list)
      <3>1. list'[i] = list[i] /\ Placed(i)' = Placed(i)
        BY <1>10, <1>16, <2>2
      <3> QED
        BY <1>0, <2>1, <2>2, <3>1 DEF DependenciesFirst
    <2>3. CASE i = Len(list) + 1
      <3>1. list'[i] = C /\ p \in C
        BY <1>10, <2>1, <2>3
      <3>2. Placed(i)' = Done'
        BY <1>10, <2>3 DEF Done, Placed
      <3> QED
        BY <1>6, <1>16, <3>1, <3>2
    <2> QED
      BY <1>10, <2>2, <2>3
  <1> QED
    BY <1>2, <1>11, <1>12, <1>13, <1>14, <1>15, <1>17, <1>18 DEF Inv

-----------------------------------------------------------------------------
(* The theorems.                                                           *)

\* The state a call of ResolveDependence starts with.
Empty ==
    /\ imports \in [Package -> SUBSET Package] /\ phase \in {"idle", "run"} /\ pkgs \subseteq Package
    /\ packageToOtherSccMap \in [Package -> SUBSET Package]
    /\ orderedPackageInfos = <<>> /\ indices = [p \in Package |-> 0] /\ lowlinks = [p \in Package |-> 0]
    /\ onStack = {} /\ st = <<>> /\ index = 0 /\ frames = <<>>

LEMMA EmptyInv == Empty => Inv
  <1> SUFFICES ASSUME Empty PROVE Inv
    OBVIOUS
  <1> USE DEF Empty
  <1>1. Depth = 0 /\ Len(st) = 0 /\ Len(orderedPackageInfos) = 0 /\ Visited = {} /\ Done = {}
    BY DEF Depth, Visited, Done, Placed
  <1>2. IsFiniteSet(pkgs) /\ Cardinality(pkgs) \in Nat
    BY ConstantsAssumption, FS_Subset, FS_CardinalityType DEF ConstantsAssumption
  <1>3. TypeOK
    BY <1>2 DEF TypeOK
  <1>4. Numbered
    BY <1>1, FS_EmptySet DEF Numbered
  <1>5. FramesNested /\ HandledVisited /\ Owned /\ LowReached /\ LowCovers
    BY <1>1 DEF FramesNested, HandledVisited, Owned, LowReached, LowCovers
  <1>6. ListInv /\ DependenciesFirst
    BY <1>1 DEF ListInv, DependenciesFirst
  <1> QED
    BY <1>3, <1>4, <1>5, <1>6 DEF Inv

LEMMA InitInv == Init => Inv
  BY EmptyInv DEF Init, Empty

LEMMA ResolveStep ==
  ASSUME Inv, NEW P \in SUBSET Package, Resolve(P)
  PROVE  Inv'
  <1>1. Empty'
    BY DEF Inv, TypeOK, Resolve, Cleared, Empty
  <1>2. (Empty => Inv)'
    BY EmptyInv, PTL
  <1> QED
    BY <1>1, <1>2

\* With no call open the stack is empty: what was visited is in the list.
LEMMA FinishStep ==
  ASSUME Inv, Finish
  PROVE  Inv'
  <1>1. /\ phase = "run" /\ frames = <<>> /\ phase' = "done" /\ \A p \in pkgs : indices[p] # 0
        /\ UNCHANGED <<imports, pkgs, packageToOtherSccMap, orderedPackageInfos, indices, lowlinks,
                       onStack, st, index, frames>>
    BY DEF Finish, tarjanVars
  <1>2. Depth = 0 /\ Visited = pkgs
    BY <1>1 DEF Depth, Visited
  <1>3. Done = pkgs /\ Done' = Done /\ Visited' = Visited
    BY <1>1, <1>2 DEF Inv, FramesNested, ListInv, Done, Placed, Visited
  <1>4. TypeOK' /\ Numbered'
    BY <1>1, <1>3 DEF Inv, TypeOK, Numbered
  <1>5. Depth' = 0
    BY <1>1, <1>2 DEF Depth
  <1>6. FramesNested' /\ Owned' /\ LowReached' /\ LowCovers'
    BY <1>1, <1>2, <1>5 DEF Inv, FramesNested, Owned, LowReached, LowCovers
  <1>7. HandledVisited'
    BY <1>1, <1>2, <1>3 DEF HandledVisited
  <1>8. ListInv'
    BY <1>1, <1>3 DEF Inv, ListInv
  <1>9. DependenciesFirst'
    BY <1>1, ReachesKept DEF Inv, DependenciesFirst, Placed
  <1> QED
    BY <1>4, <1>6, <1>7, <1>8, <1>9 DEF Inv

LEMMA NextInv == Inv /\ [Next]_vars => Inv'
  <1> SUFFICES ASSUME Inv, [Next]_vars PROVE Inv'
    OBVIOUS
  <1>1. ASSUME NEW P \in SUBSET Package, Resolve(P) PROVE Inv'
    BY <1>1, ResolveStep
  <1>2. ASSUME NEW p \in pkgs, Root(p) PROVE Inv'
    <2>1. NewFrame(p) /\ frames' \in Seq(Frame) /\ phase = "run"
      BY <1>2, RootFrame
    <2> QED
      BY <1>2, <2>1, EnterStep DEF Root
  <1>3. ASSUME NEW p \in pkgs, Descend(p) PROVE Inv'
    <2>1. NewFrame(p) /\ frames' \in Seq(Frame) /\ phase = "run"
      BY <1>3, DescendFrame
    <2> QED
      BY <1>3, <2>1, EnterStep DEF Descend
  <1>4. ASSUME NEW p \in pkgs, SeenBefore(p) PROVE Inv'
    BY <1>4, SeenBeforeStep
  <1>5. CASE Return
    BY <1>5, ReturnRootStep, ReturnInnerStep
  <1>6. CASE Finish
    BY <1>6, FinishStep
  <1>7. CASE UNCHANGED vars
    <2>1. UNCHANGED <<imports, phase, pkgs, packageToOtherSccMap, orderedPackageInfos, indices,
                      lowlinks, onStack, st, index, frames>>
      BY <1>7 DEF vars, tarjanVars
    <2>2. TypeOK' /\ Numbered' /\ Visited' = Visited
      BY <2>1 DEF Inv, TypeOK, Numbered, Visited
    <2>3. /\ \A p, q : Reaches(p, q)' = Reaches(p, q)
          /\ \A p : deps(p)' = deps(p)
      BY <2>1, ReachesKept
    <2>4. Depth' = Depth /\ \A k : U(k)' = U(k) /\ Left(k)' = Left(k)
      BY <2>1 DEF Depth, U, Left
    <2>5. /\ \A x, z : Handled(x, z)' = Handled(x, z)
          /\ \A k, x : Owns(k, x)' = Owns(k, x)
      BY <2>1, <2>3 DEF Handled, Owns, Depth, U, Left
    <2>6. FramesNested'
      BY <2>1, <2>3 DEF Inv, FramesNested, Depth, U, Left
    <2>7. HandledVisited' /\ Owned'
      BY <2>1, <2>2, <2>3, <2>5 DEF Inv, HandledVisited, Owned, Mutual, Depth, U
    <2>8. LowReached' /\ LowCovers'
      BY <2>1, <2>3, <2>5 DEF Inv, LowReached, LowCovers, Depth, U
    <2>9. ListInv'
      BY <2>1, <2>2 DEF Inv, ListInv, Done, Placed
    <2>10. DependenciesFirst'
      BY <2>1, <2>3 DEF Inv, DependenciesFirst, Placed
    <2> QED
      BY <2>2, <2>6, <2>7, <2>8, <2>9, <2>10 DEF Inv
  <1> QED
    BY <1>1, <1>2, <1>3, <1>4, <1>5, <1>6, <1>7 DEF Next

LEMMA Inductive == Spec => []Inv
  BY InitInv, NextInv, PTL DEF Spec

\* A list that is complete tells the cycles: a component with two packages is one.
LEMMA ResultFollows ==
  ASSUME Inv
  PROVE  ResultCorrect
  <1> DEFINE list == orderedPackageInfos
  <1> SUFFICES ASSUME phase = "done" PROVE ret = ~\E p, q \in pkgs : p # q /\ Reaches(p, q) /\ Reaches(q, p)
    BY DEF Inv, ListInv, ResultCorrect, Done
  <1>1. /\ \A p \in pkgs : \E i \in 1..Len(list) : p \in list[i]
        /\ \A i \in 1..Len(list) : list[i] # {}
        /\ \A i \in 1..Len(list) : \A p \in list[i] :
              list[i] = {q \in pkgs : Reaches(p, q) /\ Reaches(q, p)}
    BY DEF Inv, ListInv, Done, Placed, DependenciesFirst
  <1>2. IsFiniteSet(pkgs)
    BY VisitedFinite DEF Inv
  <1>3. \A i \in 1..Len(list) : IsFiniteSet(list[i])
    BY <1>1, <1>2, FS_Subset
  <1>4. ASSUME ret, NEW p \in pkgs, NEW q \in pkgs, p # q, Reaches(p, q), Reaches(q, p) PROVE FALSE
    <2>1. PICK i \in 1..Len(list) : p \in list[i]
      BY <1>1
    <2>2. q \in list[i]
      BY <1>1, <1>4, <2>1
    <2>3. Cardinality(list[i]) = 1
      BY <1>4 DEF ret
    <2>4. PICK x : list[i] = {x}
      BY <1>3, <2>3, FS_Singleton
    <2> QED
      BY <1>4, <2>1, <2>2, <2>4
  <1>5. ASSUME ~\E p, q \in pkgs : p # q /\ Reaches(p, q) /\ Reaches(q, p) PROVE ret
    <2>1. ASSUME NEW i \in 1..Len(list) PROVE Cardinality(list[i]) = 1
      <3>1. PICK p \in list[i] : TRUE
        BY <1>1
      <3>2. list[i] = {p}
        BY <1>1, <1>5, <3>1
      <3> QED
        BY <3>2, FS_Singleton
    <2> QED
      BY <2>1 DEF ret
  <1>6. ret \in BOOLEAN
    BY DEF ret
  <1> QED
    BY <1>4, <1>5, <1>6

\* The lists, the stack and the numbers of TarjanForSCC keep their types: no package is
\* visited twice in a call of ResolveDependence.
THEOREM TypesCorrect == Spec => []TypeOK
  <1>1. Inv => TypeOK
    BY DEF Inv
  <1> QED
    BY <1>1, Inductive, PTL

\* Whatever TarjanForSCC puts into orderedPackageInfos is a whole class of packages that
\* depend on each other, after everything they depend on.
THEOREM OrderCorrect == Spec => []DependenciesFirst
  <1>1. Inv => DependenciesFirst
    BY DEF Inv
  <1> QED
    BY <1>1, Inductive, PTL

\* ResolveDependence leaves every package of the call once in its list, and returns
\* false exactly when two packages depend on each other.
THEOREM ListComplete == Spec => []ResultCorrect
  <1>1. Inv => ResultCorrect
    BY ResultFollows
  <1> QED
    BY <1>1, Inductive, PTL
=============================================================================
