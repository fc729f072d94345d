--------------------------- MODULE PackageManager ---------------------------
(***************************************************************************)
(* The order in which packages are compiled: PackageManager::              *)
(* ResolveDependence, with Tarjan's algorithm for the strongly connected   *)
(* components.  It is called on the source packages before they are        *)
(* compiled and again on all imported packages before code generation.     *)
(* The recursion is a stack of frames; the hash containers are walked in   *)
(* any order.                                                              *)
(***************************************************************************)
EXTENDS Integers, Sequences, FiniteSets

CONSTANTS
    Package,
    MaxImports      \* bound: how many packages one package imports

ASSUME ConstantsAssumption == IsFiniteSet(Package) /\ MaxImports \in Nat

VARIABLES
    imports,    \* the packages the files of each package import
    phase,
    pkgs,       \* the packages of the current call: the keys of packageInfoMap
    packageToOtherSccMap,
    orderedPackageInfos,
    indices, lowlinks, onStack, st, index,    \* TarjanContext, st and index
    frames      \* the calls of TarjanForSCC: u and the deps its loop has left

tarjanVars == <<orderedPackageInfos, indices, lowlinks, onStack, st, index, frames>>
vars == <<imports, phase, pkgs, packageToOtherSccMap, tarjanVars>>

Frame == [u : Package, left : SUBSET Package]
Smaller(a, b) == IF a < b THEN a ELSE b
Top(s) == s[Len(s)]
Pop(s) == SubSeq(s, 1, Len(s) - 1)

Init ==
    /\ imports \in [Package -> {P \in SUBSET Package : Cardinality(P) <= MaxImports}]
    /\ phase = "idle"
    /\ pkgs = {}
    /\ packageToOtherSccMap = [p \in Package |-> {}]
    /\ orderedPackageInfos = <<>>
    /\ indices = [p \in Package |-> 0] /\ lowlinks = [p \in Package |-> 0]
    /\ onStack = {} /\ st = <<>> /\ index = 0
    /\ frames = <<>>

-----------------------------------------------------------------------------
deps(p) == imports[p] \cap pkgs

Cleared_Mut == orderedPackageInfos
Cleared == <<>>

\* ResolveDependence up to the loop over the roots: everything the call before
\* left is cleared and CollectDeps tells the packages of this call from the others.
Resolve(P) ==
    /\ phase # "run"
    /\ phase' = "run"
    /\ pkgs' = P
    /\ packageToOtherSccMap' = [p \in Package |-> IF p \in P THEN imports[p] \ P ELSE {}]
    /\ orderedPackageInfos' = Cleared
    /\ indices' = [p \in Package |-> 0] /\ lowlinks' = [p \in Package |-> 0]
    /\ onStack' = {} /\ st' = <<>> /\ index' = 0
    /\ frames' = <<>>
    /\ UNCHANGED imports

\* The head of TarjanForSCC(u): u gets the next index and goes on the stack.
Enter(u) ==
    /\ index' = index + 1
    /\ indices' = [indices EXCEPT ![u] = index + 1]
    /\ lowlinks' = [lowlinks EXCEPT ![u] = index + 1]
    /\ st' = Append(st, u)
    /\ onStack' = onStack \cup {u}

Unvisited(p) == indices[p] = 0

\* The first package of the map, then any that was not reached: an isolated
\* island has a root of its own.
Root(p) ==
    /\ phase = "run" /\ frames = <<>> /\ Unvisited(p)
    /\ Enter(p)
    /\ frames' = <<[u |-> p, left |-> deps(p)]>>
    /\ UNCHANGED <<imports, phase, pkgs, packageToOtherSccMap, orderedPackageInfos>>

\* The loop of the top frame takes w.
Taken(w) == [frames EXCEPT ![Len(frames)].left = @ \ {w}]

Descend(w) ==
    /\ frames # <<>> /\ w \in Top(frames).left
    /\ Unvisited(w)
    /\ Enter(w)
    /\ frames' = Append(Taken(w), [u |-> w, left |-> deps(w)])
    /\ UNCHANGED <<imports, phase, pkgs, packageToOtherSccMap, orderedPackageInfos>>

BackEdge_Mut(u, w) == Smaller(lowlinks[u], indices[w])
BackEdge(u, w) == IF w \in onStack THEN Smaller(lowlinks[u], indices[w]) ELSE lowlinks[u]

SeenBefore(w) ==
    /\ frames # <<>> /\ w \in Top(frames).left
    /\ ~Unvisited(w)
    /\ lowlinks' = [lowlinks EXCEPT ![Top(frames).u] = BackEdge(Top(frames).u, w)]
    /\ frames' = Taken(w)
    /\ UNCHANGED <<imports, phase, pkgs, packageToOtherSccMap, orderedPackageInfos,
                   indices, onStack, st, index>>

\* After the return the caller takes the lowlink of the callee over.
PassedUp(u) ==
    IF Len(frames) = 1 THEN lowlinks
    ELSE LET caller == frames[Len(frames) - 1].u
         IN [lowlinks EXCEPT ![caller] = Smaller(@, lowlinks[u])]

\* The position of u on the stack: the component is what lies above.
Above(u) == {i \in 1..Len(st) : \E j \in 1..i : st[j] = u}
Component(u) == {st[i] : i \in Above(u)}

IsRoot(u) == lowlinks[u] = indices[u]

\* The end of TarjanForSCC: a root takes its component off the stack.
Return ==
    /\ frames # <<>> /\ Top(frames).left = {}
    /\ LET u == Top(frames).u
       IN /\ IF IsRoot(u)
             THEN /\ orderedPackageInfos' = Append(orderedPackageInfos, Component(u))
                  /\ st' = SubSeq(st, 1, Len(st) - Cardinality(Above(u)))
                  /\ onStack' = onStack \ Component(u)
             ELSE UNCHANGED <<orderedPackageInfos, st, onStack>>
          /\ lowlinks' = PassedUp(u)
    /\ frames' = Pop(frames)
    /\ UNCHANGED <<imports, phase, pkgs, packageToOtherSccMap, indices, index>>

Finish ==
    /\ phase = "run" /\ frames = <<>>
    /\ \A p \in pkgs : indices[p] # 0
    /\ phase' = "done"
    /\ UNCHANGED <<imports, pkgs, packageToOtherSccMap, tarjanVars>>

\* What ResolveDependence returns.
ret == \A i \in 1..Len(orderedPackageInfos) : Cardinality(orderedPackageInfos[i]) = 1

Next ==
    \/ \E P \in SUBSET Package : Resolve(P)
    \/ \E p \in pkgs : Root(p) \/ Descend(p) \/ SeenBefore(p)
    \/ Return \/ Finish

Spec == Init /\ [][Next]_vars

-----------------------------------------------------------------------------
\* Reference: q is in every set that holds p and is closed under the imports.
Reaches(p, q) ==
    \A S \in SUBSET pkgs : p \in S /\ (\A x \in S : deps(x) \subseteq S) => q \in S

Placed(n) == UNION {orderedPackageInfos[i] : i \in 1..n}

\* Types; TarjanForSCC gives each package one index, and the packages marked as
\* on the stack are the ones on it.
TypeOK ==
    /\ imports \in [Package -> SUBSET Package]
    /\ phase \in {"idle", "run", "done"}
    /\ pkgs \subseteq Package
    /\ packageToOtherSccMap \in [Package -> SUBSET Package]
    /\ orderedPackageInfos \in Seq(SUBSET Package)
    /\ index \in 0..Cardinality(pkgs)
    /\ indices \in [Package -> 0..index]
    /\ lowlinks \in [Package -> 0..index]
    /\ st \in Seq(pkgs)
    /\ onStack = {st[i] : i \in 1..Len(st)}
    /\ frames \in Seq(Frame)

\* The build order, also while components are still open: what TarjanForSCC emits
\* is a whole class of packages that depend on each other, and only that, and it
\* comes after everything its packages depend on.
DependenciesFirst ==
    \A i \in 1..Len(orderedPackageInfos) : \A p \in orderedPackageInfos[i] :
        /\ orderedPackageInfos[i] = {q \in pkgs : Reaches(p, q) /\ Reaches(q, p)}
        /\ deps(p) \subseteq Placed(i)

\* When ResolveDependence returns it has written each package of pkgs exactly
\* once into the reordered list, and it returns false exactly when two different
\* packages depend on each other: an import of itself is no cycle.
ResultCorrect ==
    phase = "done" =>
        /\ Placed(Len(orderedPackageInfos)) = pkgs
        /\ \A i, j \in 1..Len(orderedPackageInfos) :
              i # j => orderedPackageInfos[i] \cap orderedPackageInfos[j] = {}
        /\ ret = ~\E p, q \in pkgs : p # q /\ Reaches(p, q) /\ Reaches(q, p)
=============================================================================
