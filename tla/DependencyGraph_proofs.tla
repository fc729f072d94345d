----------------------- MODULE DependencyGraph_proofs -----------------------
(***************************************************************************)
(* The graph of imports is complete when BuildIndex is done, the recursion *)
(* never meets itself, and every cached answer is the right one: for any   *)
(* packages, imports and re-exports.                                       *)
(***************************************************************************)
EXTENDS DependencyGraph, FiniteSetTheorems, FunctionTheorems, SequenceTheorems, TLAPS

\* The program: sources are imported by nobody, no package by itself.
ProgramOK ==
    /\ \A p \in Imported : p \notin imports[p]
    /\ \A p \in Imported : reExports[p] \subseteq imports[p]

Complete(p) == dependencyMap[p] = imports[p]

\* The packages AddDependenciesForPackage is inside a call for.
InProgress == {op.frames[i].pkg : i \in 1..Len(op.frames)}

\* The packages whose edges belong into the graph.
Wanted == Source \cup Reached(imports, Source)

\* A call has added the edges of the imports its loop has taken, and every call but
\* the last at least one: a package without an edge that is met again is new.
FramesFollowLoop ==
    op.kind = "build" =>
        /\ \A i \in 1..Len(op.frames) :
              /\ op.frames[i].left \subseteq imports[op.frames[i].pkg]
              /\ dependencyMap[op.frames[i].pkg] = imports[op.frames[i].pkg] \ op.frames[i].left
        /\ \A i \in 1..(Len(op.frames) - 1) : dependencyMap[op.frames[i].pkg] # {}

\* What is behind an edge is finished or under way, and so is each source taken.
EdgesLeadOn ==
    op.kind = "build" =>
        /\ \A p \in Package \ InProgress : dependencyMap[p] = {} \/ Complete(p)
        /\ \A p \in Package : \A q \in dependencyMap[p] : Complete(q) \/ q \in InProgress
        /\ \A p \in Source \ op.roots : Complete(p) \/ p \in InProgress
        /\ \A p \in Package : dependencyMap[p] # {} \/ p \in InProgress => p \in Wanted

\* Re-exports are noted along with the edges.
ReExportsNoted == \A u \in Imported : pkgReExportMap[u] = reExports[u] \cap dependencyMap[u]

GraphInv ==
    /\ TypeOK /\ ProgramOK /\ NoReentry /\ FramesFollowLoop /\ EdgesLeadOn /\ ReExportsNoted
    /\ EdgesComplete

-----------------------------------------------------------------------------
(* Packages reached.                                                       *)

LEMMA ReachedContains ==
  ASSUME NEW f, NEW P, P \subseteq Package
  PROVE  P \subseteq Reached(f, P) /\ Reached(f, P) \subseteq Package
  BY DEF Reached

LEMMA ReachedClosed ==
  ASSUME NEW f \in [Package -> SUBSET Package], NEW P, NEW x \in Reached(f, P)
  PROVE  f[x] \subseteq Reached(f, P)
  BY DEF Reached

LEMMA ReachedLeast ==
  ASSUME NEW f, NEW P, NEW S \in SUBSET Package, P \subseteq S, \A x \in S : f[x] \subseteq S
  PROVE  Reached(f, P) \subseteq S
  BY DEF Reached

-----------------------------------------------------------------------------
(* What TypeOK says of each kind of call.                                  *)

LEMMA KindFields ==
  ASSUME TypeOK
  PROVE  /\ op.kind \in {"new", "idle", "build", "direct", "names"}
         /\ op.kind = "build" =>
               /\ op \in [kind : {"build"}, roots : SUBSET Source, frames : Seq(Frame)]
               /\ op.roots \subseteq Source /\ op.frames \in Seq(Frame)
         /\ op.kind = "direct" =>
               /\ op \in [kind : {"direct"}, pkg : Source, queue : Seq(Package),
                          collected : SUBSET Package, decls : SUBSET Package]
               /\ op.decls \subseteq op.collected
         /\ op.kind = "names" =>
               op \in [kind : {"names"}, pkg : Source, includeMacroPkg : BOOLEAN,
                       forDecls : BOOLEAN, stack : SUBSET Package, names : SUBSET Package]
  BY DEF TypeOK, Operation

LEMMA ImportsImported ==
  ASSUME TypeOK
  PROVE  /\ imports \in [Package -> SUBSET Package]
         /\ \A p \in Package : imports[p] \subseteq Imported
         /\ Source \subseteq Package /\ Imported \subseteq Package
         /\ Source \cap Imported = {}
  BY ConstantsAssumption DEF TypeOK, Package, ConstantsAssumption

-----------------------------------------------------------------------------
(* Building the graph.                                                     *)

LEMMA InitGraph == Init => GraphInv
  <1> SUFFICES ASSUME Init PROVE GraphInv
    OBVIOUS
  <1> USE DEF Init
  <1>1. TypeOK
    <2>1. imports \in [Package -> SUBSET Imported] /\ reExports \in [Imported -> SUBSET Imported]
      OBVIOUS
    <2>2. op \in Operation /\ op.kind = "new"
      BY DEF Operation
    <2>3. cacheDirect \in [Source -> (SUBSET Package) \cup {Missing}]
          /\ cacheDecls \in [Source \X BOOLEAN -> (SUBSET Package) \cup {Missing}]
          /\ cacheNames \in [Source -> (SUBSET Package) \cup {Missing}]
      OBVIOUS
    <2> QED
      BY <2>1, <2>2, <2>3, Zenon DEF TypeOK, Nothing
  <1>2. ProgramOK /\ NoReentry /\ FramesFollowLoop /\ EdgesLeadOn /\ EdgesComplete
    BY DEF ProgramOK, NoReentry, FramesFollowLoop, EdgesLeadOn, EdgesComplete
  <1>3. ReExportsNoted
    BY DEF ReExportsNoted, Nothing, Package
  <1> QED
    BY <1>1, <1>2, <1>3 DEF GraphInv

\* A call in progress changes nothing the graph says.
LEMMA GraphKept ==
  ASSUME GraphInv, TypeOK', UNCHANGED <<programVars, graphVars>>,
         op.kind \notin {"new", "build"}, op'.kind \notin {"new", "build"}
  PROVE  GraphInv'
  <1> USE DEF GraphInv, programVars, graphVars
  <1>1. ProgramOK' /\ ReExportsNoted'
    BY DEF ProgramOK, ReExportsNoted
  <1>2. NoReentry' /\ FramesFollowLoop' /\ EdgesLeadOn'
    BY DEF NoReentry, FramesFollowLoop, EdgesLeadOn
  <1>3. EdgesComplete'
    BY DEF EdgesComplete, Reached
  <1> QED
    BY <1>1, <1>2, <1>3

LEMMA BuildIndexStep ==
  ASSUME GraphInv, BuildIndex
  PROVE  GraphInv'
  <1> USE DEF GraphInv
  <1>1. PICK f \in [Source -> SUBSET Imported] :
           imports' = [p \in Package |-> IF p \in Source THEN f[p] ELSE imports[p]]
    BY DEF BuildIndex
  <1>2. /\ \A p \in Imported : imports'[p] = imports[p]
        /\ imports' \in [Package -> SUBSET Imported]
    BY <1>1, ImportsImported DEF TypeOK
  <1>3. /\ op' = [kind |-> "build", roots |-> Source, frames |-> <<>>]
        /\ dependencyMap' = Nothing /\ pkgReExportMap' = Nothing
        /\ reExports' = reExports
    BY DEF BuildIndex
  <1>4. TypeOK'
    <2>1. op' \in Operation
      BY <1>3 DEF Operation
    <2>2. cacheDirect' \in [Source -> {Missing}] /\ cacheDecls' \in [Source \X BOOLEAN -> {Missing}]
          /\ cacheNames' \in [Source -> {Missing}]
      BY DEF BuildIndex, Emptied
    <2>3. cacheDirect' \in [Source -> (SUBSET Package) \cup {Missing}]
          /\ cacheDecls' \in [Source \X BOOLEAN -> (SUBSET Package) \cup {Missing}]
          /\ cacheNames' \in [Source -> (SUBSET Package) \cup {Missing}]
      BY <2>2
    <2>4. reExports' \in [Imported -> SUBSET Imported]
          /\ Nothing \in [Package -> SUBSET Package]
          /\ op'.kind # "direct"
      BY <1>3 DEF TypeOK, Nothing
    <2> QED
      BY <1>2, <1>3, <2>1, <2>3, <2>4, Zenon DEF TypeOK
  <1>5. ProgramOK'
    BY <1>2, <1>3 DEF ProgramOK
  <1>6. NoReentry' /\ FramesFollowLoop'
    BY <1>3 DEF NoReentry, FramesFollowLoop
  <1>7. EdgesLeadOn'
    BY <1>3 DEF EdgesLeadOn, Nothing, InProgress
  <1>8. ReExportsNoted'
    BY <1>3, ImportsImported DEF ReExportsNoted, Nothing
  <1>9. EdgesComplete'
    BY <1>3 DEF EdgesComplete
  <1> QED
    BY <1>4, <1>5, <1>6, <1>7, <1>8, <1>9

\* The first line of AddDependenciesForPackage.
LEMMA EnteredFrames ==
  ASSUME TypeOK, NEW F \in Seq(Frame), NEW p \in Package, NEW map
  PROVE  /\ Entered(F, p, map) \in Seq(Frame)
         /\ map[p] # {} => Entered(F, p, map) = F
         /\ map[p] = {} =>
               /\ Len(Entered(F, p, map)) = Len(F) + 1
               /\ \A i \in 1..Len(F) : Entered(F, p, map)[i] = F[i]
               /\ Entered(F, p, map)[Len(F) + 1] = [pkg |-> p, left |-> imports[p]]
  <1>1. [pkg |-> p, left |-> imports[p]] \in Frame
    BY ImportsImported DEF Frame
  <1> QED
    BY <1>1, AppendProperties DEF Entered

LEMMA AddDependenciesForPackageStep ==
  ASSUME GraphInv, NEW p \in Source, AddDependenciesForPackage(p)
  PROVE  GraphInv'
  <1> USE DEF GraphInv, AddDependenciesForPackage
  <1> DEFINE F == op.frames
             G == Entered(<<>>, p, dependencyMap)
  <1>1. /\ op.kind = "build" /\ op.frames = <<>> /\ p \in op.roots /\ p \in Package
        /\ op \in [kind : {"build"}, roots : SUBSET Source, frames : Seq(Frame)]
    BY KindFields, ImportsImported
  <1>2. /\ op' = [kind |-> "build", roots |-> op.roots \ {p}, frames |-> G]
        /\ op'.kind = "build" /\ op'.roots = op.roots \ {p} /\ op'.frames = G
    BY <1>1
  <1>3. UNCHANGED <<imports, reExports, dependencyMap, pkgReExportMap, cacheDirect, cacheDecls, cacheNames>>
    BY DEF programVars, graphVars, cacheVars
  <1>4. /\ G \in Seq(Frame)
        /\ dependencyMap[p] # {} => G = <<>>
        /\ dependencyMap[p] = {} =>
              Len(G) = 1 /\ G[1] = [pkg |-> p, left |-> imports[p]]
    <2>1. <<>> \in Seq(Frame) /\ Len(<<>>) = 0
      OBVIOUS
    <2>2. imports[p] \subseteq Package
      BY <1>1, ImportsImported
    <2>3. [pkg |-> p, left |-> imports[p]] \in Frame
      BY <1>1, <2>2 DEF Frame
    <2>4. Append(<<>>, [pkg |-> p, left |-> imports[p]]) = <<[pkg |-> p, left |-> imports[p]]>>
      OBVIOUS
    <2> QED
      BY <2>1, <2>3, <2>4 DEF Entered
  <1> HIDE DEF G, AddDependenciesForPackage
  <1>5. TypeOK'
    <2>1. op' \in Operation
      BY <1>1, <1>2, <1>4 DEF Operation
    <2> QED
      BY <1>2, <1>3, <2>1 DEF TypeOK
  <1>6. ProgramOK' /\ ReExportsNoted' /\ EdgesComplete'
    BY <1>2, <1>3 DEF ProgramOK, ReExportsNoted, EdgesComplete
  <1>7. InProgress = {} /\ InProgress' = (IF dependencyMap[p] = {} THEN {p} ELSE {})
    BY <1>1, <1>2, <1>4 DEF InProgress
  <1>8. NoReentry' /\ FramesFollowLoop'
    <2>1. CASE dependencyMap[p] = {}
      <3>0. Len(G) = 1
        BY <1>4, <2>1
      <3>1. 1..Len(G) = {1} /\ 1..(Len(G) - 1) = {}
        BY <3>0
      <3> QED
        BY <1>1, <1>2, <1>3, <1>4, <2>1, <3>1 DEF NoReentry, FramesFollowLoop
    <2>2. CASE dependencyMap[p] # {}
      BY <1>2, <1>3, <1>4, <2>2 DEF NoReentry, FramesFollowLoop
    <2> QED
      BY <2>1, <2>2
  <1>9. EdgesLeadOn'
    <2>1. Wanted' = Wanted /\ p \in Wanted
      BY <1>1, <1>3 DEF Wanted, Reached
    <2>2. \A q \in Package : Complete(q)' = Complete(q)
      BY <1>3 DEF Complete
    <2>3. dependencyMap[p] # {} => Complete(p)
      BY <1>1, <1>7 DEF EdgesLeadOn
    <2> SUFFICES /\ \A q \in Package \ InProgress' : dependencyMap[q] = {} \/ Complete(q)
                 /\ \A q \in Package : \A r \in dependencyMap[q] : Complete(r) \/ r \in InProgress'
                 /\ \A q \in Source \ (op.roots \ {p}) : Complete(q) \/ q \in InProgress'
                 /\ \A q \in Package : dependencyMap[q] # {} \/ q \in InProgress' => q \in Wanted
      BY <1>2, <1>3, <2>1, <2>2, Zenon DEF EdgesLeadOn, Complete
    <2>4. /\ \A q \in Package : dependencyMap[q] = {} \/ Complete(q)
          /\ \A q \in Package : \A r \in dependencyMap[q] : Complete(r)
          /\ \A q \in Source \ op.roots : Complete(q)
          /\ \A q \in Package : dependencyMap[q] # {} => q \in Wanted
      BY <1>1, <1>7 DEF EdgesLeadOn
    <2> QED
      BY <1>7, <2>1, <2>3, <2>4
  <1> QED
    BY <1>5, <1>6, <1>8, <1>9

\* The depth of the recursion and the package it is at.
Depth == Len(op.frames)
Current == op.frames[Depth].pkg

\* The frames after the loop of the last one has taken v and gone into it if it is new.
LEMMA ImportFrames ==
  ASSUME GraphInv, NEW v \in Package, AddDependenciesForImport(v)
  PROVE  /\ op.kind = "build" /\ op'.kind = "build" /\ op'.roots = op.roots
         /\ op.frames \in Seq(Frame) /\ op'.frames \in Seq(Frame) /\ op' \in Operation
         /\ Depth \in Nat \ {0} /\ Current \in Package /\ v \in imports[Current] /\ v \in op.frames[Depth].left
         /\ v \in Imported /\ v # Current
         /\ \A i \in 1..Depth : op'.frames[i].pkg = op.frames[i].pkg
         /\ \A i \in 1..(Depth - 1) : op'.frames[i] = op.frames[i]
         /\ op'.frames[Depth].left = op.frames[Depth].left \ {v}
         /\ dependencyMap[v] # {} => Len(op'.frames) = Depth
         /\ dependencyMap[v] = {} => /\ Len(op'.frames) = Depth + 1
                                     /\ op'.frames[Depth + 1] = [pkg |-> v, left |-> imports[v]]
         /\ dependencyMap' = [dependencyMap EXCEPT ![Current] = @ \cup {v}]
  <1> DEFINE F == op.frames
             n == Depth
             u == Current
             T == Taken(F, v)
  <1>0. TypeOK /\ ProgramOK /\ FramesFollowLoop
    BY DEF GraphInv
  <1>1. /\ op.kind = "build" /\ F # <<>> /\ v \in F[n].left
        /\ dependencyMap' = WithEdge(u, v)
        /\ op' = [op EXCEPT !.frames = Entered(T, v, WithEdge(u, v))]
    BY DEF AddDependenciesForImport, Depth, Current
  <1>2. /\ op \in [kind : {"build"}, roots : SUBSET Source, frames : Seq(Frame)]
        /\ F \in Seq(Frame)
    BY <1>0, <1>1, KindFields
  <1>3. n \in Nat \ {0} /\ F[n] \in Frame /\ n = Len(F) /\ u = F[n].pkg
    BY <1>1, <1>2 DEF Depth, Current
  <1>4. u \in Package /\ v \in imports[u] /\ v \in Imported /\ v # u
    <2>1. u \in Package
      BY <1>3 DEF Frame
    <2>2. v \in imports[u]
      BY <1>0, <1>1, <1>3 DEF FramesFollowLoop
    <2>3. u \in Imported => v # u
      BY <1>0, <2>2 DEF ProgramOK
    <2> QED
      BY <1>0, <2>1, <2>2, <2>3, ImportsImported
  <1>5. /\ T \in Seq(Frame) /\ Len(T) = n
        /\ \A i \in 1..n : T[i].pkg = F[i].pkg
        /\ \A i \in 1..(n - 1) : T[i] = F[i]
        /\ T[n].left = F[n].left \ {v}
    <2>1. [F[n] EXCEPT !.left = @ \ {v}] \in Frame
      BY <1>3 DEF Frame
    <2>2. T = [F EXCEPT ![n] = [F[n] EXCEPT !.left = @ \ {v}]]
      BY <1>3 DEF Taken
    <2>3. /\ [F[n] EXCEPT !.left = @ \ {v}].pkg = F[n].pkg
          /\ [F[n] EXCEPT !.left = @ \ {v}].left = F[n].left \ {v}
      BY <1>3 DEF Frame
    <2> QED
      BY <1>2, <1>3, <2>1, <2>2, <2>3, ExceptSeq
  <1>6. dependencyMap' = [dependencyMap EXCEPT ![u] = @ \cup {v}]
        /\ WithEdge(u, v)[v] = dependencyMap[v]
    BY <1>0, <1>1, <1>4 DEF WithEdge, TypeOK
  <1>7. /\ op'.kind = "build" /\ op'.roots = op.roots
        /\ op'.frames = Entered(T, v, WithEdge(u, v))
        /\ op' = [kind |-> "build", roots |-> op.roots, frames |-> Entered(T, v, WithEdge(u, v))]
    BY <1>1, <1>2
  <1> HIDE DEF T, F, n, u
  <1>8. /\ op'.frames \in Seq(Frame)
        /\ \A i \in 1..n : op'.frames[i] = T[i]
        /\ dependencyMap[v] # {} => Len(op'.frames) = n
        /\ dependencyMap[v] = {} => /\ Len(op'.frames) = n + 1
                                    /\ op'.frames[n + 1] = [pkg |-> v, left |-> imports[v]]
    <2> DEFINE map == WithEdge(u, v)
    <2>1. map[v] = dependencyMap[v] /\ op'.frames = Entered(T, v, map)
      BY <1>6, <1>7
    <2> HIDE DEF map
    <2>2. /\ Entered(T, v, map) \in Seq(Frame)
          /\ map[v] # {} => Entered(T, v, map) = T
          /\ map[v] = {} =>
               /\ Len(Entered(T, v, map)) = Len(T) + 1
               /\ \A i \in 1..Len(T) : Entered(T, v, map)[i] = T[i]
               /\ Entered(T, v, map)[Len(T) + 1] = [pkg |-> v, left |-> imports[v]]
      BY <1>0, <1>5, EnteredFrames, SMTT(30)
    <2> QED
      BY <1>5, <2>1, <2>2
  <1>9. op' \in Operation
    BY <1>2, <1>7, <1>8 DEF Operation
  <1>10. /\ \A i \in 1..n : op'.frames[i].pkg = F[i].pkg
         /\ \A i \in 1..(n - 1) : op'.frames[i] = F[i]
         /\ op'.frames[n].left = F[n].left \ {v}
    BY <1>3, <1>5, <1>8
  <1> QED
    BY <1>1, <1>2, <1>3, <1>4, <1>6, <1>7, <1>8, <1>9, <1>10 DEF F, n, u

LEMMA AddDependenciesForImportStep ==
  ASSUME GraphInv, NEW v \in Package, AddDependenciesForImport(v)
  PROVE  GraphInv'
  <1> DEFINE F == op.frames
             G == op'.frames
             n == Depth
             u == Current
  <1>0. TypeOK /\ ProgramOK /\ NoReentry /\ FramesFollowLoop /\ EdgesLeadOn /\ ReExportsNoted
    BY DEF GraphInv
  <1>1. /\ op.kind = "build" /\ op'.kind = "build" /\ op'.roots = op.roots
        /\ F \in Seq(Frame) /\ G \in Seq(Frame) /\ op' \in Operation
        /\ n \in Nat \ {0} /\ u \in Package /\ v \in imports[u] /\ v \in F[n].left
        /\ v \in Imported /\ v # u
        /\ \A i \in 1..n : G[i].pkg = F[i].pkg
        /\ \A i \in 1..(n - 1) : G[i] = F[i]
        /\ G[n].left = F[n].left \ {v}
        /\ dependencyMap[v] # {} => Len(G) = n
        /\ dependencyMap[v] = {} => /\ Len(G) = n + 1
                                    /\ G[n + 1] = [pkg |-> v, left |-> imports[v]]
        /\ dependencyMap' = [dependencyMap EXCEPT ![u] = @ \cup {v}]
        /\ n = Len(F) /\ u = F[n].pkg
    BY ImportFrames DEF Depth, Current
  <1>2. UNCHANGED <<imports, reExports, cacheDirect, cacheDecls, cacheNames>>
    BY DEF AddDependenciesForImport, programVars, cacheVars
  <1>3. pkgReExportMap' = IF u \in Imported /\ v \in reExports[u]
                          THEN [pkgReExportMap EXCEPT ![u] = @ \cup {v}] ELSE pkgReExportMap
    BY DEF AddDependenciesForImport, Depth, Current
  <1>4. /\ dependencyMap \in [Package -> SUBSET Package]
        /\ dependencyMap'[u] = dependencyMap[u] \cup {v}
        /\ \A p \in Package \ {u} : dependencyMap'[p] = dependencyMap[p]
    BY <1>0, <1>1 DEF TypeOK
  <1>5. TypeOK'
    BY <1>0, <1>1, <1>2, <1>3 DEF TypeOK
  <1> HIDE DEF F, G, n, u
  <1>6. ProgramOK' /\ EdgesComplete'
    BY <1>0, <1>1, <1>2 DEF ProgramOK, EdgesComplete
  <1>7. ReExportsNoted'
    <2>1. Imported \subseteq Package
      BY DEF Package
    <2> QED
      BY <1>0, <1>1, <1>2, <1>3, <1>4, <2>1 DEF ReExportsNoted, TypeOK
  <1>8. \A i, j \in 1..n : i # j => F[i].pkg # F[j].pkg
    BY <1>0, <1>1 DEF NoReentry, F
  <1>9. /\ \A i \in 1..n : /\ F[i].left \subseteq imports[F[i].pkg]
                           /\ dependencyMap[F[i].pkg] = imports[F[i].pkg] \ F[i].left
        /\ \A i \in 1..(n - 1) : dependencyMap[F[i].pkg] # {}
        /\ \A i \in 1..n : F[i].pkg \in Package
    <2>1. \A i \in 1..n : F[i] \in Frame
      BY <1>1
    <2>2. \A i \in 1..n : F[i].pkg \in Package
      BY <2>1 DEF Frame
    <2> QED
      BY <1>0, <1>1, <2>2 DEF FramesFollowLoop, F
  <1>10. dependencyMap[v] = {} => \A i \in 1..n : F[i].pkg # v
    <2> SUFFICES ASSUME NEW i \in 1..n, dependencyMap[v] = {} PROVE F[i].pkg # v
      OBVIOUS
    <2>1. i \in 1..(n - 1) \/ i = n
      BY <1>1
    <2> QED
      BY <1>1, <1>9, <2>1
  <1>11. NoReentry'
    <2> SUFFICES ASSUME NEW i \in 1..Len(G), NEW j \in 1..Len(G), i # j PROVE G[i].pkg # G[j].pkg
      BY DEF NoReentry, G
    <2>1. Len(G) \in n..(n + 1) /\ (Len(G) = n + 1 => dependencyMap[v] = {})
      BY <1>1
    <2>2. CASE i \in 1..n /\ j \in 1..n
      BY <1>1, <1>8, <2>2
    <2>3. CASE i = n + 1 /\ j \in 1..n
      BY <1>1, <1>10, <2>1, <2>3
    <2>4. CASE i \in 1..n /\ j = n + 1
      BY <1>1, <1>10, <2>1, <2>4
    <2> QED
      BY <1>1, <2>1, <2>2, <2>3, <2>4
  <1>12. FramesFollowLoop'
    <2>1. ASSUME NEW i \in 1..n
          PROVE  /\ G[i].left \subseteq imports[G[i].pkg]
                 /\ dependencyMap'[G[i].pkg] = imports[G[i].pkg] \ G[i].left
                 /\ dependencyMap'[G[i].pkg] # {}
      <3>1. CASE i = n
        <4>1. F[n].left \subseteq imports[u] /\ dependencyMap[u] = imports[u] \ F[n].left
          BY <1>1, <1>9
        <4>2. G[n].pkg = u /\ G[n].left = F[n].left \ {v} /\ dependencyMap'[u] = dependencyMap[u] \cup {v}
          BY <1>1, <1>4
        <4>3. dependencyMap'[u] = imports[u] \ (F[n].left \ {v}) /\ v \in dependencyMap'[u]
          BY <1>1, <4>1, <4>2
        <4>4. dependencyMap'[G[n].pkg] = dependencyMap'[u] /\ imports[G[n].pkg] = imports[u]
          BY <4>2
        <4>5. /\ G[n].left \subseteq imports[G[n].pkg]
              /\ dependencyMap'[G[n].pkg] = imports[G[n].pkg] \ G[n].left
              /\ dependencyMap'[G[n].pkg] # {}
          BY <4>1, <4>2, <4>3, <4>4, Zenon
        <4> QED
          BY <3>1, <4>5
      <3>2. CASE i \in 1..(n - 1)
        <4>1. F[i].pkg # u /\ F[i].pkg \in Package
          BY <1>1, <1>8, <1>9, <3>2
        <4> QED
          BY <1>1, <1>4, <1>9, <3>2, <4>1
      <3>3. i = n \/ i \in 1..(n - 1)
        BY <1>1
      <3> QED
        BY <3>1, <3>2, <3>3
    <2>2. dependencyMap[v] = {} => /\ G[n + 1].left \subseteq imports[G[n + 1].pkg]
                                   /\ dependencyMap'[G[n + 1].pkg] = imports[G[n + 1].pkg] \ G[n + 1].left
      BY <1>1, <1>4
    <2>3. Len(G) \in n..(n + 1) /\ (Len(G) = n + 1 => dependencyMap[v] = {})
      BY <1>1
    <2>4. \A i \in 1..Len(G) : i \in 1..n \/ (i = n + 1 /\ dependencyMap[v] = {})
      BY <1>1, <2>3
    <2>5. \A i \in 1..(Len(G) - 1) : i \in 1..n
      BY <1>1, <2>3
    <2>6. \A i \in 1..Len(G) : /\ G[i].left \subseteq imports[G[i].pkg]
                               /\ dependencyMap'[G[i].pkg] = imports[G[i].pkg] \ G[i].left
      BY <2>1, <2>2, <2>4
    <2>7. \A i \in 1..(Len(G) - 1) : dependencyMap'[G[i].pkg] # {}
      BY <2>1, <2>5
    <2> QED
      BY <1>2, <2>6, <2>7 DEF FramesFollowLoop, G
  <1>13. InProgress' = InProgress \cup (IF dependencyMap[v] = {} THEN {v} ELSE {})
         /\ u \in InProgress
    BY <1>1, SMTT(30) DEF InProgress, F, G
  <1>14. EdgesLeadOn'
    <2>1. Wanted' = Wanted
      BY <1>2 DEF Wanted, Reached
    <2>2. u \in Wanted /\ v \in Wanted
      <3>1. u \in Wanted
        BY <1>0, <1>1, <1>13 DEF EdgesLeadOn
      <3>2. Source \subseteq Reached(imports, Source)
        BY ReachedContains DEF Package
      <3>3. u \in Reached(imports, Source)
        BY <3>1, <3>2 DEF Wanted
      <3>4. imports[u] \subseteq Reached(imports, Source)
        BY <1>0, <3>3, ImportsImported, ReachedClosed
      <3> QED
        BY <1>1, <3>1, <3>4 DEF Wanted
    <2>3. \A p \in Package \ {u} : Complete(p)' = Complete(p)
      BY <1>2, <1>4 DEF Complete
    <2>4. /\ \A p \in Package \ InProgress : dependencyMap[p] = {} \/ Complete(p)
          /\ \A p \in Package : \A q \in dependencyMap[p] : Complete(q) \/ q \in InProgress
          /\ \A p \in Source \ op.roots : Complete(p) \/ p \in InProgress
          /\ \A p \in Package : dependencyMap[p] # {} \/ p \in InProgress => p \in Wanted
      BY <1>0, <1>1 DEF EdgesLeadOn
    <2>5. \A p \in Package \ InProgress' : dependencyMap'[p] = {} \/ Complete(p)'
      BY <1>4, <1>13, <2>3, <2>4
    <2>6. \A p \in Package : \A q \in dependencyMap'[p] : Complete(q)' \/ q \in InProgress'
      <3>1. Complete(v)' \/ v \in InProgress'
        BY <1>1, <1>13, <2>3, <2>4
      <3>2. \A q \in Package : Complete(q) \/ q \in InProgress => Complete(q)' \/ q \in InProgress'
        BY <1>13, <2>3
      <3> QED
        BY <1>4, <2>4, <3>1, <3>2
    <2>7. \A p \in Source \ op'.roots : Complete(p)' \/ p \in InProgress'
      BY <1>1, <1>13, <2>3, <2>4 DEF Package
    <2>8. \A p \in Package : dependencyMap'[p] # {} \/ p \in InProgress' => p \in Wanted'
      BY <1>4, <1>13, <2>1, <2>2, <2>4
    <2> QED
      BY <1>1, <2>5, <2>6, <2>7, <2>8 DEF EdgesLeadOn
  <1> QED
    BY <1>5, <1>6, <1>7, <1>11, <1>12, <1>14 DEF GraphInv

LEMMA ReturnToImporterStep ==
  ASSUME GraphInv, ReturnToImporter
  PROVE  GraphInv'
  <1> DEFINE F == op.frames
             G == op'.frames
             n == Depth
             u == Current
  <1>0. TypeOK /\ ProgramOK /\ NoReentry /\ FramesFollowLoop /\ EdgesLeadOn /\ ReExportsNoted
    BY DEF GraphInv
  <1>1. /\ op.kind = "build" /\ F # <<>> /\ F[n].left = {} /\ op' = [op EXCEPT !.frames = Front(F)]
        /\ UNCHANGED <<programVars, graphVars, cacheVars>>
    BY DEF ReturnToImporter, Depth
  <1>2. op \in [kind : {"build"}, roots : SUBSET Source, frames : Seq(Frame)] /\ F \in Seq(Frame)
    BY <1>0, <1>1, KindFields
  <1>3. n \in Nat \ {0} /\ n = Len(F) /\ u = F[n].pkg /\ \A i \in 1..n : F[i] \in Frame
    BY <1>1, <1>2 DEF Depth, Current
  <1>4. /\ op' = [kind |-> "build", roots |-> op.roots, frames |-> Front(F)]
        /\ op'.kind = "build" /\ op'.roots = op.roots /\ G = Front(F)
    BY <1>1, <1>2
  <1>5. UNCHANGED <<imports, reExports, dependencyMap, pkgReExportMap, cacheDirect, cacheDecls, cacheNames>>
    BY <1>1 DEF programVars, graphVars, cacheVars
  <1> HIDE DEF F, G, n, u
  <1>6. /\ G \in Seq(Frame) /\ Len(G) = n - 1
        /\ \A i \in 1..(n - 1) : G[i] = F[i]
    <2>1. G = SubSeq(F, 1, n - 1) /\ \A i \in 1..(n - 1) : F[i] \in Frame
      BY <1>3, <1>4 DEF Front
    <2>2. /\ SubSeq(F, 1, n - 1) \in Seq(Frame)
          /\ Len(SubSeq(F, 1, n - 1)) = IF 1 <= n - 1 THEN (n - 1) - 1 + 1 ELSE 0
          /\ \A i \in 1..((n - 1) - 1 + 1) : SubSeq(F, 1, n - 1)[i] = F[1 + i - 1]
      BY <1>3, <2>1, SubSeqProperties
    <2> QED
      BY <1>3, <2>1, <2>2
  <1>7. TypeOK'
    <2>1. op' \in Operation
      BY <1>2, <1>4, <1>6 DEF Operation
    <2> QED
      BY <1>0, <1>4, <1>5, <2>1 DEF TypeOK
  <1>8. ProgramOK' /\ ReExportsNoted' /\ EdgesComplete'
    BY <1>0, <1>4, <1>5 DEF ProgramOK, ReExportsNoted, EdgesComplete
  <1>9. \A i \in 1..(n - 1) : F[i].pkg # u
    BY <1>0, <1>1, <1>3 DEF NoReentry, F
  <1>14. /\ \A i \in 1..n : /\ F[i].left \subseteq imports[F[i].pkg]
                            /\ dependencyMap[F[i].pkg] = imports[F[i].pkg] \ F[i].left
         /\ \A i \in 1..(n - 1) : dependencyMap[F[i].pkg] # {}
         /\ \A i, j \in 1..n : i # j => F[i].pkg # F[j].pkg
    BY <1>0, <1>1, <1>3 DEF NoReentry, FramesFollowLoop, F
  <1>10. NoReentry' /\ FramesFollowLoop'
    <2>1. /\ \A i \in 1..Len(G) : i \in 1..n /\ G[i] = F[i]
          /\ \A i \in 1..(Len(G) - 1) : i \in 1..(n - 1) /\ G[i] = F[i]
      BY <1>3, <1>6
    <2>2. \A i, j \in 1..Len(G) : i # j => G[i].pkg # G[j].pkg
      BY <1>14, <2>1
    <2>3. /\ \A i \in 1..Len(G) : /\ G[i].left \subseteq imports[G[i].pkg]
                                 /\ dependencyMap[G[i].pkg] = imports[G[i].pkg] \ G[i].left
          /\ \A i \in 1..(Len(G) - 1) : dependencyMap[G[i].pkg] # {}
      BY <1>14, <2>1
    <2> QED
      BY <1>4, <1>5, <2>2, <2>3 DEF NoReentry, FramesFollowLoop, G
  <1>11. InProgress = InProgress' \cup {u} /\ u \notin InProgress'
    <2>1. InProgress = {F[i].pkg : i \in 1..n} /\ InProgress' = {F[i].pkg : i \in 1..(n - 1)}
      BY <1>3, <1>6 DEF InProgress, F, G
    <2> QED
      BY <1>3, <1>9, <2>1
  <1>12. Complete(u)
    <2>1. n \in 1..n /\ F[n].left = {}
      BY <1>1, <1>3
    <2> QED
      BY <1>3, <1>14, <2>1 DEF Complete
  <1>13. EdgesLeadOn'
    <2>1. Wanted' = Wanted /\ \A q \in Package \cup {u} : Complete(q)' = Complete(q)
      BY <1>5 DEF Wanted, Reached, Complete
    <2>2. /\ \A p \in Package \ InProgress : dependencyMap[p] = {} \/ Complete(p)
          /\ \A p \in Package : \A q \in dependencyMap[p] : Complete(q) \/ q \in InProgress
          /\ \A p \in Source \ op.roots : Complete(p) \/ p \in InProgress
          /\ \A p \in Package : dependencyMap[p] # {} \/ p \in InProgress => p \in Wanted
      BY <1>0, <1>1 DEF EdgesLeadOn
    <2>3. \A p \in Package : dependencyMap[p] \subseteq Package
      BY <1>0 DEF TypeOK
    <2> SUFFICES /\ \A p \in Package \ InProgress' : dependencyMap[p] = {} \/ Complete(p)
                 /\ \A p \in Package : \A q \in dependencyMap[p] : Complete(q) \/ q \in InProgress'
                 /\ \A p \in Source \ op.roots : Complete(p) \/ p \in InProgress'
                 /\ \A p \in Package : dependencyMap[p] # {} \/ p \in InProgress' => p \in Wanted
      BY <1>4, <1>5, <2>1, Zenon DEF EdgesLeadOn, Complete
    <2> QED
      BY <1>11, <1>12, <2>2, <2>3
  <1> QED
    BY <1>7, <1>8, <1>10, <1>13 DEF GraphInv

\* The packages with all their edges contain the sources and lead to nothing else:
\* every package reached is among them.
LEMMA BuildDoneStep ==
  ASSUME GraphInv, BuildDone
  PROVE  GraphInv'
  <1>0. TypeOK /\ ProgramOK /\ EdgesLeadOn /\ ReExportsNoted
    BY DEF GraphInv
  <1>1. /\ op.kind = "build" /\ op.frames = <<>> /\ op.roots = {} /\ op' = [kind |-> "idle"]
        /\ UNCHANGED <<imports, reExports, dependencyMap, pkgReExportMap, cacheDirect, cacheDecls, cacheNames>>
    BY DEF BuildDone, Idle, programVars, graphVars, cacheVars
  <1>2. op'.kind = "idle" /\ op' \in Operation
    BY <1>1 DEF Operation
  <1>3. TypeOK'
    BY <1>0, <1>1, <1>2 DEF TypeOK
  <1>4. ProgramOK' /\ ReExportsNoted' /\ NoReentry' /\ FramesFollowLoop' /\ EdgesLeadOn'
    BY <1>0, <1>1, <1>2 DEF ProgramOK, ReExportsNoted, NoReentry, FramesFollowLoop, EdgesLeadOn
  <1>5. InProgress = {}
    BY <1>1 DEF InProgress
  <1> DEFINE S == {p \in Package : Complete(p)}
  <1>6. Source \subseteq S /\ \A x \in S : imports[x] \subseteq S
    <2>1. Source \subseteq S
      BY <1>0, <1>1, <1>5 DEF EdgesLeadOn, Package
    <2>2. ASSUME NEW x \in S PROVE imports[x] \subseteq S
      BY <1>0, <1>1, <1>5, <2>2, ImportsImported DEF EdgesLeadOn, Complete
    <2> QED
      BY <2>1, <2>2
  <1>7. Wanted \subseteq S
    BY <1>6, ReachedLeast DEF Wanted
  <1>8. \A p \in Package : dependencyMap[p] = IF p \in Wanted THEN imports[p] ELSE {}
    BY <1>0, <1>1, <1>5, <1>7 DEF EdgesLeadOn, Complete
  <1>9. EdgesComplete'
    <2>1. \A p \in Package : dependencyMap'[p] = IF p \in Wanted' THEN imports'[p] ELSE {}
      BY <1>1, <1>8 DEF Wanted, Reached
    <2> QED
      BY <2>1 DEF EdgesComplete, Wanted
  <1> QED
    BY <1>3, <1>4, <1>9 DEF GraphInv

-----------------------------------------------------------------------------
(* The closure of the imports.                                             *)

\* The search has the edges of the package asked for and of every name found, and
\* found nothing outside the closure.
NamesSearch ==
    op.kind = "names" =>
        /\ dependencyMap[op.pkg] \subseteq op.stack \cup op.names
        /\ \A x \in op.names : dependencyMap[x] \subseteq op.stack \cup op.names
        /\ op.stack \cup op.names \subseteq Closure(op.pkg)

NamesCached ==
    \A p \in Source : cacheNames[p] # Missing =>
        cacheNames[p] \in {Closure(p), Closure(p) \ OnlyUsedByMacro}

NamesInv == NamesSearch /\ NamesCached

LEMMA EdgesOfWanted ==
  ASSUME GraphInv, op.kind \notin {"new", "build"}
  PROVE  /\ \A p \in Package : dependencyMap[p] \subseteq imports[p]
         /\ \A p \in Reached(imports, Source) : dependencyMap[p] = imports[p]
         /\ Source \subseteq Reached(imports, Source)
         /\ \A p \in Reached(imports, Source) : imports[p] \subseteq Reached(imports, Source)
  <1>1. TypeOK /\ EdgesComplete
    BY DEF GraphInv
  <1>2. Source \subseteq Reached(imports, Source) /\ Reached(imports, Source) \subseteq Package
    BY <1>1, ReachedContains, ImportsImported
  <1>3. \A p \in Reached(imports, Source) : imports[p] \subseteq Reached(imports, Source)
    BY <1>1, ReachedClosed, ImportsImported
  <1> QED
    BY <1>1, <1>2, <1>3 DEF EdgesComplete

LEMMA EdgesOfClosure ==
  ASSUME GraphInv, op.kind \notin {"new", "build"}, NEW p \in Source
  PROVE  /\ dependencyMap[p] = imports[p]
         /\ imports[p] \subseteq Closure(p) /\ Closure(p) \subseteq Package
         /\ \A x \in Closure(p) : dependencyMap[x] = imports[x] /\ imports[x] \subseteq Closure(p)
  <1>1. TypeOK /\ p \in Package /\ imports[p] \subseteq Package
    BY ImportsImported DEF GraphInv
  <1>2. imports[p] \subseteq Closure(p) /\ Closure(p) \subseteq Package
    BY <1>1, ReachedContains DEF Closure
  <1>3. \A x \in Closure(p) : imports[x] \subseteq Closure(p)
    BY <1>1, ReachedClosed, ImportsImported DEF Closure
  <1>4. Closure(p) \subseteq Reached(imports, Source)
    <2>1. /\ imports[p] \subseteq Reached(imports, Source)
          /\ \A x \in Reached(imports, Source) : imports[x] \subseteq Reached(imports, Source)
      BY EdgesOfWanted
    <2>2. Reached(imports, Source) \in SUBSET Package
      BY DEF Reached
    <2> QED
      BY <2>1, <2>2, ReachedLeast DEF Closure
  <1> QED
    BY <1>2, <1>3, <1>4, EdgesOfWanted

\* While the program stays as it is, so do the closures and what is used by macros.
LEMMA ClosuresKept ==
  ASSUME UNCHANGED programVars
  PROVE  /\ \A p \in Source : Closure(p)' = Closure(p) /\ SeenMacros(p)' = SeenMacros(p)
         /\ OnlyUsedByMacro' = OnlyUsedByMacro
  BY DEF programVars, Closure, SeenMacros, OnlyUsedByMacro, UsedAsCommon, Reached

\* Outside of the search the answers cached stay true as long as the program does.
LEMMA NamesKept ==
  ASSUME NamesInv, UNCHANGED <<programVars, cacheNames>>, op'.kind # "names"
  PROVE  NamesInv'
  <1>1. NamesSearch'
    BY DEF NamesSearch
  <1>2. NamesCached'
    BY ClosuresKept DEF NamesInv, NamesCached
  <1> QED
    BY <1>1, <1>2 DEF NamesInv

LEMMA AskDeclsStep ==
  ASSUME GraphInv, NamesInv, NEW p \in Source, NEW b \in BOOLEAN, AskDecls(p, b)
  PROVE  GraphInv' /\ NamesInv' /\ op'.kind # "direct"
  <1>0. TypeOK
    BY DEF GraphInv
  <1>1. /\ op.kind = "idle" /\ UNCHANGED <<programVars, graphVars, cacheDirect, cacheNames>>
        /\ UNCHANGED <<imports, reExports, dependencyMap, pkgReExportMap>>
    BY DEF AskDecls, programVars, graphVars
  <1>2. CASE cacheNames[p] # Missing
    <2>1. /\ cacheDecls' = [cacheDecls EXCEPT ![<<p, b>>] = cacheNames[p]] /\ op' = op
      BY <1>2 DEF AskDecls
    <2>2. cacheNames[p] \in (SUBSET Package) \cup {Missing} /\ <<p, b>> \in Source \X BOOLEAN
      BY <1>0 DEF TypeOK
    <2>3. cacheDecls' \in [Source \X BOOLEAN -> (SUBSET Package) \cup {Missing}]
      BY <1>0, <2>1, <2>2 DEF TypeOK
    <2>4. TypeOK'
      BY <1>0, <1>1, <2>1, <2>3, Zenon DEF TypeOK
    <2> QED
      BY <1>1, <2>1, <2>4, GraphKept, NamesKept
  <1>3. CASE cacheNames[p] = Missing
    <2>1. /\ op' = [kind |-> "names", pkg |-> p, includeMacroPkg |-> b,
                      forDecls |-> TRUE, stack |-> dependencyMap[p], names |-> {}]
          /\ cacheDecls' = cacheDecls
      BY <1>3 DEF AskDecls
    <2>2. dependencyMap[p] \subseteq Package
      BY <1>0, ImportsImported DEF TypeOK
    <2>3. op' \in Operation /\ op'.kind = "names"
      BY <2>1, <2>2 DEF Operation
    <2>4. TypeOK'
      BY <1>0, <1>1, <2>1, <2>3 DEF TypeOK
    <2>5. NamesSearch'
      BY <1>1, <2>1, EdgesOfClosure, ClosuresKept DEF NamesSearch
    <2>6. NamesCached'
      BY <1>1, ClosuresKept DEF NamesInv, NamesCached
    <2> QED
      BY <1>1, <2>3, <2>4, <2>5, <2>6, GraphKept DEF NamesInv
  <1> QED
    BY <1>2, <1>3

LEMMA AskNamesStep ==
  ASSUME GraphInv, NamesInv, NEW p \in Source, AskNames(p)
  PROVE  GraphInv' /\ NamesInv' /\ op'.kind # "direct"
  <1>0. TypeOK
    BY DEF GraphInv
  <1>1. /\ op.kind = "idle" /\ UNCHANGED <<programVars, graphVars, cacheVars>>
        /\ UNCHANGED <<imports, reExports, dependencyMap, pkgReExportMap, cacheDirect, cacheDecls, cacheNames>>
        /\ op' = [kind |-> "names", pkg |-> p, includeMacroPkg |-> FALSE,
                  forDecls |-> FALSE, stack |-> dependencyMap[p], names |-> {}]
    BY DEF AskNames, programVars, graphVars, cacheVars
  <1>2. dependencyMap[p] \subseteq Package
    BY <1>0, ImportsImported DEF TypeOK
  <1>3. op' \in Operation /\ op'.kind = "names"
    BY <1>1, <1>2 DEF Operation
  <1>4. TypeOK'
    BY <1>0, <1>1, <1>3 DEF TypeOK
  <1>5. NamesSearch'
    BY <1>1, EdgesOfClosure, ClosuresKept DEF NamesSearch
  <1>6. NamesCached'
    BY <1>1, ClosuresKept DEF NamesInv, NamesCached
  <1> QED
    BY <1>1, <1>3, <1>4, <1>5, <1>6, GraphKept DEF NamesInv

LEMMA TakeFromStackStep ==
  ASSUME GraphInv, NamesInv, NEW p \in Package, TakeFromStack(p)
  PROVE  GraphInv' /\ NamesInv' /\ op'.kind # "direct"
  <1>0. TypeOK
    BY DEF GraphInv
  <1>1. /\ op.kind = "names" /\ p \in op.stack /\ UNCHANGED <<programVars, graphVars, cacheVars>>
        /\ UNCHANGED <<imports, reExports, dependencyMap, pkgReExportMap, cacheDirect, cacheDecls, cacheNames>>
        /\ op' = [op EXCEPT !.stack = (@ \ {p}) \cup Pushed(p), !.names = @ \cup {p}]
    BY DEF TakeFromStack, programVars, graphVars, cacheVars
  <1>2. op \in [kind : {"names"}, pkg : Source, includeMacroPkg : BOOLEAN,
                forDecls : BOOLEAN, stack : SUBSET Package, names : SUBSET Package]
    BY <1>0, <1>1, KindFields
  <1>3. /\ op' \in [kind : {"names"}, pkg : Source, includeMacroPkg : BOOLEAN,
                    forDecls : BOOLEAN, stack : SUBSET Package, names : SUBSET Package]
        /\ op'.kind = "names" /\ op'.pkg = op.pkg
        /\ op'.stack = (op.stack \ {p}) \cup Pushed(p) /\ op'.names = op.names \cup {p}
    BY <1>0, <1>1, <1>2 DEF Pushed, TypeOK
  <1>4. TypeOK'
    BY <1>0, <1>1, <1>3 DEF TypeOK, Operation
  <1>5. NamesSearch'
    <2>1. /\ dependencyMap[op.pkg] \subseteq op.stack \cup op.names
          /\ \A x \in op.names : dependencyMap[x] \subseteq op.stack \cup op.names
          /\ op.stack \cup op.names \subseteq Closure(op.pkg)
      BY <1>1 DEF NamesInv, NamesSearch
    <2>2. dependencyMap[p] \subseteq Closure(op.pkg) /\ op.pkg \in Source
      BY <1>1, <1>2, <2>1, EdgesOfClosure
    <2>3. p \notin op.names => Pushed(p) = dependencyMap[p]
      BY DEF Pushed
    <2>4. p \in op.names => Pushed(p) = {}
      BY DEF Pushed
    <2>5. op.stack \cup op.names \subseteq op'.stack \cup op'.names
          /\ op'.stack \cup op'.names \subseteq op.stack \cup op.names \cup dependencyMap[p]
      BY <1>1, <1>3, <2>3, <2>4
    <2>6. \A x \in op'.names : dependencyMap[x] \subseteq op'.stack \cup op'.names
      BY <1>3, <2>1, <2>3, <2>5
    <2> QED
      BY <1>1, <1>3, <2>1, <2>2, <2>5, <2>6, ClosuresKept DEF NamesSearch
  <1>6. NamesCached'
    BY <1>1, ClosuresKept DEF NamesInv, NamesCached
  <1> QED
    BY <1>1, <1>3, <1>4, <1>5, <1>6, GraphKept DEF NamesInv

\* With an empty stack the names are closed under the imports, and no more than the closure.
LEMMA AnswerNamesStep ==
  ASSUME GraphInv, NamesInv, AnswerNames
  PROVE  GraphInv' /\ NamesInv' /\ op'.kind # "direct"
  <1> DEFINE p == op.pkg
             kept == Kept(op.names, op.includeMacroPkg)
  <1>0. TypeOK
    BY DEF GraphInv
  <1>1. /\ op.kind = "names" /\ op.stack = {} /\ op' = [kind |-> "idle"]
        /\ UNCHANGED <<programVars, graphVars, cacheDirect>>
        /\ UNCHANGED <<imports, reExports, dependencyMap, pkgReExportMap>>
        /\ cacheNames' = [cacheNames EXCEPT ![p] = kept]
        /\ cacheDecls' = IF op.forDecls
                         THEN [cacheDecls EXCEPT ![<<p, op.includeMacroPkg>>] = kept]
                         ELSE cacheDecls
    BY DEF AnswerNames, Idle, programVars, graphVars
  <1>2. op \in [kind : {"names"}, pkg : Source, includeMacroPkg : BOOLEAN,
                forDecls : BOOLEAN, stack : SUBSET Package, names : SUBSET Package]
    BY <1>0, <1>1, KindFields
  <1>3. kept \in SUBSET Package /\ <<p, op.includeMacroPkg>> \in Source \X BOOLEAN
    BY <1>2 DEF Kept
  <1>4. op'.kind = "idle" /\ op' \in Operation
    BY <1>1 DEF Operation
  <1>5. op.names = Closure(p)
    <2>1. /\ dependencyMap[p] \subseteq op.names
          /\ \A x \in op.names : dependencyMap[x] \subseteq op.names
          /\ op.names \subseteq Closure(p)
      BY <1>1 DEF NamesInv, NamesSearch
    <2>2. imports[p] \subseteq op.names /\ \A x \in op.names : imports[x] \subseteq op.names
      BY <1>1, <1>2, <2>1, EdgesOfClosure
    <2>3. op.names \in SUBSET Package
      BY <1>2
    <2>4. Reached(imports, imports[p]) \subseteq op.names
      BY <2>2, <2>3, ReachedLeast
    <2> QED
      BY <2>1, <2>4 DEF Closure
  <1>6. kept \in {Closure(p), Closure(p) \ OnlyUsedByMacro}
    BY <1>5 DEF Kept
  <1> HIDE DEF kept
  <1>7. TypeOK'
    <2>1. /\ cacheNames' \in [Source -> (SUBSET Package) \cup {Missing}]
          /\ cacheDecls' \in [Source \X BOOLEAN -> (SUBSET Package) \cup {Missing}]
      BY <1>0, <1>1, <1>2, <1>3 DEF TypeOK
    <2> QED
      BY <1>0, <1>1, <1>4, <2>1, Zenon DEF TypeOK
  <1>8. NamesCached'
    <2>1. \A q \in Source : cacheNames'[q] = IF q = p THEN kept ELSE cacheNames[q]
      BY <1>0, <1>1 DEF TypeOK
    <2> QED
      BY <1>1, <1>6, <2>1, ClosuresKept DEF NamesInv, NamesCached
  <1>9. NamesSearch'
    BY <1>4 DEF NamesSearch
  <1> QED
    BY <1>1, <1>4, <1>7, <1>8, <1>9, GraphKept DEF NamesInv

-----------------------------------------------------------------------------
(* The normal packages a source sees.                                      *)

QueueSet == {op.queue[i] : i \in 1..Len(op.queue)}

Target(p) == imports[p] \cup UNION {reExports[m] : m \in SeenMacros(p)}

\* What followed says: the re-exports of these macro packages are in the queue or
\* in the answer.
Followed(followed) ==
    /\ imports[op.pkg] \cap MacroPackage \subseteq followed \cup QueueSet
    /\ \A m \in followed : /\ reExports[m] \cap MacroPackage \subseteq followed \cup QueueSet
                           /\ reExports[m] \cap NormalPackage \subseteq op.decls

\* The queue and the answer hold nothing else than what the source sees, and what is
\* not there yet is behind a macro package in the queue.
DirectSearch ==
    op.kind = "direct" =>
        /\ QueueSet \cap MacroPackage \subseteq SeenMacros(op.pkg)
        /\ QueueSet \cap NormalPackage \subseteq imports[op.pkg]
        /\ op.decls \cap NormalPackage \subseteq Target(op.pkg)
        /\ imports[op.pkg] \cap NormalPackage \subseteq QueueSet \cup op.decls
        /\ op.collected \cap NormalPackage \subseteq op.decls
        /\ \E followed \in SUBSET MacroPackage : Followed(followed)

DirectInv == DirectSearch /\ DirectCorrect

\* The sequences made of a set hold its members.
LEMMA SetToSeqsProperties ==
  ASSUME NEW S, IsFiniteSet(S), NEW s \in SetToSeqs(S)
  PROVE  s \in Seq(S) /\ {s[i] : i \in 1..Len(s)} = S
  <1> DEFINE n == Cardinality(S)
  <1>1. n \in Nat
    BY FS_CardinalityType
  <1>2. s \in [1..n -> S] /\ \A i, j \in 1..n : i # j => s[i] # s[j]
    BY DEF SetToSeqs
  <1>3. s \in Seq(S) /\ Len(s) = n
    BY <1>1, <1>2
  <1>4. s \in Injection(1..n, S)
    BY <1>2, Fun_IsInj
  <1>5. IsFiniteSet(1..n) /\ Cardinality(1..n) = n
    BY <1>1, FS_Interval
  <1>6. s \in Surjection(1..n, S)
    BY <1>4, <1>5, FS_Injection
  <1>7. \A x \in S : \E i \in 1..n : s[i] = x
    BY <1>6 DEF Surjection
  <1> QED
    BY <1>2, <1>3, <1>7

LEMMA SeenMacrosProperties ==
  ASSUME TypeOK, ProgramOK, NEW p \in Source
  PROVE  /\ imports[p] \cap MacroPackage \subseteq SeenMacros(p)
         /\ \A m \in SeenMacros(p) \cap MacroPackage :
               reExports[m] \cap MacroPackage \subseteq SeenMacros(p)
         /\ \A S \in SUBSET MacroPackage :
               /\ imports[p] \cap MacroPackage \subseteq S
               /\ \A m \in S : reExports[m] \cap MacroPackage \subseteq S
               => SeenMacros(p) \subseteq S
  <1> DEFINE f == [x \in Package |-> IF x \in MacroPackage THEN reExports[x] \cap MacroPackage ELSE {}]
             P == imports[p] \cap MacroPackage
  <1>1. MacroPackage \subseteq Package /\ MacroPackage \subseteq Imported /\ P \subseteq Package
    BY DEF Package, Imported
  <1>2. f \in [Package -> SUBSET Package] /\ \A m \in MacroPackage : f[m] = reExports[m] \cap MacroPackage
    BY <1>1
  <1>3. SeenMacros(p) = Reached(f, P)
    BY DEF SeenMacros
  <1> HIDE DEF f, P
  <1>4. P \subseteq Reached(f, P) /\ \A x \in Reached(f, P) : f[x] \subseteq Reached(f, P)
    BY <1>1, <1>2, ReachedContains, ReachedClosed
  <1>5. ASSUME NEW S \in SUBSET MacroPackage, P \subseteq S,
               \A m \in S : reExports[m] \cap MacroPackage \subseteq S
        PROVE  Reached(f, P) \subseteq S
    <2>1. S \in SUBSET Package /\ \A m \in S : f[m] \subseteq S
      BY <1>1, <1>2, <1>5
    <2> QED
      BY <1>5, <2>1, ReachedLeast
  <1>6. \A m \in Reached(f, P) \cap MacroPackage : reExports[m] \cap MacroPackage \subseteq Reached(f, P)
    BY <1>2, <1>4
  <1> QED
    BY <1>3, <1>4, <1>5, <1>6, Zenon DEF P

\* The macro packages seen are reached along the imports, so that their edges, and
\* with them their re-exports, are in the graph.
LEMMA ReExportsOfSeen ==
  ASSUME GraphInv, op.kind \notin {"new", "build"}, NEW p \in Source
  PROVE  /\ SeenMacros(p) \subseteq MacroPackage
         /\ \A m \in SeenMacros(p) : pkgReExportMap[m] = reExports[m]
  <1>0. TypeOK /\ ProgramOK /\ ReExportsNoted
    BY DEF GraphInv
  <1> DEFINE S == Reached(imports, Source) \cap MacroPackage
  <1>1. /\ Source \subseteq Reached(imports, Source)
        /\ \A x \in Reached(imports, Source) : imports[x] \subseteq Reached(imports, Source)
        /\ \A x \in Reached(imports, Source) : dependencyMap[x] = imports[x]
    BY EdgesOfWanted
  <1>2. imports[p] \cap MacroPackage \subseteq S
    BY <1>1
  <1>3. \A m \in S : reExports[m] \cap MacroPackage \subseteq S
    BY <1>0, <1>1 DEF ProgramOK, Imported
  <1>4. SeenMacros(p) \subseteq S
    BY <1>0, <1>2, <1>3, SeenMacrosProperties
  <1>5. \A m \in S : m \in Imported /\ dependencyMap[m] = imports[m] /\ reExports[m] \subseteq imports[m]
    BY <1>0, <1>1 DEF ProgramOK, Imported
  <1>6. \A m \in S : pkgReExportMap[m] = reExports[m]
    BY <1>0, <1>5 DEF ReExportsNoted
  <1> QED
    BY <1>4, <1>6

LEMMA DirectKept ==
  ASSUME DirectInv, UNCHANGED <<programVars, cacheDirect>>, op'.kind # "direct"
  PROVE  DirectInv'
  <1>1. DirectSearch'
    BY DEF DirectSearch
  <1>2. DirectCorrect'
    BY ClosuresKept DEF DirectInv, DirectCorrect, programVars
  <1> QED
    BY <1>1, <1>2 DEF DirectInv

LEMMA AskDirectStep ==
  ASSUME GraphInv, DirectInv, NEW p \in Source, AskDirect(p)
  PROVE  GraphInv' /\ DirectInv' /\ op'.kind # "names"
  <1>0. TypeOK /\ ProgramOK
    BY DEF GraphInv
  <1>1. PICK queue \in SetToSeqs(dependencyMap[p]) :
           op' = [kind |-> "direct", pkg |-> p, queue |-> queue, collected |-> {}, decls |-> {}]
    BY DEF AskDirect
  <1>2. /\ op.kind = "idle" /\ UNCHANGED <<programVars, graphVars, cacheVars>>
        /\ UNCHANGED <<imports, reExports, dependencyMap, pkgReExportMap, cacheDirect, cacheDecls, cacheNames>>
    BY DEF AskDirect, programVars, graphVars, cacheVars
  <1>3. dependencyMap[p] = imports[p] /\ imports[p] \subseteq Imported /\ Imported \subseteq Package
    BY <1>0, <1>2, EdgesOfClosure, ImportsImported
  <1>4. IsFiniteSet(dependencyMap[p])
    BY <1>3, ConstantsAssumption, FS_Subset DEF ConstantsAssumption
  <1>5. queue \in Seq(dependencyMap[p]) /\ {queue[i] : i \in 1..Len(queue)} = imports[p]
    BY <1>3, <1>4, SetToSeqsProperties
  <1>6. queue \in Seq(Package)
    BY <1>3, <1>5
  <1>7. op' \in Operation /\ op'.kind = "direct"
    BY <1>1, <1>6 DEF Operation
  <1>8. TypeOK'
    BY <1>0, <1>1, <1>2, <1>7 DEF TypeOK
  <1>9. QueueSet' = imports[p]
    BY <1>1, <1>5 DEF QueueSet
  <1>10. Followed({})'
    BY <1>1, <1>2, <1>9 DEF Followed
  <1>11. imports[p] \cap MacroPackage \subseteq SeenMacros(p)' /\ Target(p)' = Target(p)
    BY <1>0, <1>2, SeenMacrosProperties, ClosuresKept DEF Target
  <1>12. DirectSearch'
    BY <1>1, <1>2, <1>9, <1>10, <1>11 DEF DirectSearch
  <1>13. DirectCorrect'
    BY <1>2, ClosuresKept DEF DirectInv, DirectCorrect
  <1> QED
    BY <1>2, <1>7, <1>8, <1>12, <1>13, GraphKept DEF DirectInv

LEMMA TakeFromQueueStep ==
  ASSUME GraphInv, DirectInv, TakeFromQueue
  PROVE  GraphInv' /\ DirectInv' /\ op'.kind # "names"
  <1> DEFINE p == Head(op.queue)
             r == FollowedReExports(p)
             P == op.pkg
  <1>0. TypeOK /\ ProgramOK
    BY DEF GraphInv
  <1>1. PICK macros \in SetToSeqs(r \cap MacroPackage) :
           op' = [op EXCEPT
                !.queue = Tail(@) \o macros,
                !.collected = @ \cup Marked(p, r),
                !.decls = @ \cup ({p} \ op.collected) \cup (r \ MacroPackage)]
    BY DEF TakeFromQueue
  <1>2. /\ op.kind = "direct" /\ op.queue # <<>> /\ UNCHANGED <<programVars, graphVars, cacheVars>>
        /\ UNCHANGED <<imports, reExports, dependencyMap, pkgReExportMap, cacheDirect, cacheDecls, cacheNames>>
    BY DEF TakeFromQueue, programVars, graphVars, cacheVars
  <1>3. /\ op \in [kind : {"direct"}, pkg : Source, queue : Seq(Package),
                   collected : SUBSET Package, decls : SUBSET Package]
        /\ op.decls \subseteq op.collected
    BY <1>0, <1>2, KindFields
  <1>4. /\ p \in Package /\ Tail(op.queue) \in Seq(Package) /\ Len(op.queue) \in Nat \ {0}
        /\ Len(Tail(op.queue)) = Len(op.queue) - 1 /\ p = op.queue[1]
        /\ \A i \in 1..Len(Tail(op.queue)) : Tail(op.queue)[i] = op.queue[i + 1]
    BY <1>2, <1>3, HeadTailProperties
  <1>5. r \subseteq Package
    BY <1>0, <1>4 DEF FollowedReExports, TypeOK
  <1>6. IsFiniteSet(r \cap MacroPackage)
    BY <1>5, ConstantsAssumption, FS_Subset DEF ConstantsAssumption
  <1>7. /\ macros \in Seq(Package) /\ {macros[i] : i \in 1..Len(macros)} = r \cap MacroPackage
    <2>1. macros \in Seq(r \cap MacroPackage) /\ {macros[i] : i \in 1..Len(macros)} = r \cap MacroPackage
      BY <1>1, <1>6, SetToSeqsProperties
    <2> QED
      BY <1>5, <2>1
  <1> DEFINE queue == Tail(op.queue) \o macros
  <1>8. /\ queue \in Seq(Package) /\ Len(queue) = Len(Tail(op.queue)) + Len(macros)
        /\ \A i \in 1..(Len(Tail(op.queue)) + Len(macros)) :
              queue[i] = IF i <= Len(Tail(op.queue)) THEN Tail(op.queue)[i]
                         ELSE macros[i - Len(Tail(op.queue))]
    BY <1>4, <1>7, ConcatProperties
  <1>9. /\ op' = [kind |-> "direct", pkg |-> P, queue |-> queue,
                  collected |-> op.collected \cup Marked(p, r),
                  decls |-> op.decls \cup ({p} \ op.collected) \cup (r \ MacroPackage)]
        /\ op'.kind = "direct" /\ op'.pkg = P /\ op'.queue = queue
        /\ op'.collected = op.collected \cup {p} \cup r
        /\ op'.decls = op.decls \cup ({p} \ op.collected) \cup (r \ MacroPackage)
    BY <1>1, <1>3 DEF Marked
  <1>10. TypeOK'
    <2>1. op' \in Operation
      BY <1>3, <1>4, <1>5, <1>8, <1>9 DEF Operation, Marked
    <2>2. op'.decls \subseteq op'.collected
      BY <1>3, <1>9
    <2> QED
      BY <1>0, <1>2, <2>1, <2>2 DEF TypeOK
  <1>11. /\ p \in QueueSet /\ QueueSet \subseteq {p} \cup QueueSet'
         /\ QueueSet' \subseteq QueueSet \cup (r \cap MacroPackage)
         /\ r \cap MacroPackage \subseteq QueueSet'
    <2> HIDE DEF p, r, P, queue
    <2> DEFINE T == Tail(op.queue)
               n == Len(T)
    <2>1. n \in Nat /\ Len(macros) \in Nat
      BY <1>4, <1>7
    <2>2. QueueSet = {p} \cup {T[i] : i \in 1..n}
      <3>1. \A i \in 1..Len(op.queue) : i = 1 \/ (i - 1 \in 1..n /\ T[i - 1] = op.queue[i])
        BY <1>4
      <3>2. \A i \in 1..n : i + 1 \in 1..Len(op.queue)
        BY <1>4
      <3>3. 1 \in 1..Len(op.queue)
        BY <1>4
      <3> QED
        BY <1>4, <3>1, <3>2, <3>3 DEF QueueSet
    <2>3. QueueSet' = {T[i] : i \in 1..n} \cup {macros[i] : i \in 1..Len(macros)}
      <3>1. \A i \in 1..Len(queue) : \/ i \in 1..n /\ queue[i] = T[i]
                                     \/ i - n \in 1..Len(macros) /\ queue[i] = macros[i - n]
        BY <1>8, <2>1
      <3>2. \A i \in 1..n : i \in 1..Len(queue) /\ queue[i] = T[i]
        BY <1>8, <2>1
      <3>3. ASSUME NEW i \in 1..Len(macros)
            PROVE  i + n \in 1..Len(queue) /\ queue[i + n] = macros[i]
        <4>1. i + n \in 1..(n + Len(macros)) /\ ~(i + n <= n) /\ (i + n) - n = i
          BY <2>1
        <4> QED
          BY <1>8, <4>1
      <3>4. QueueSet' = {queue[i] : i \in 1..Len(queue)}
        BY <1>9 DEF QueueSet
      <3> DEFINE union == {T[i] : i \in 1..n} \cup {macros[i] : i \in 1..Len(macros)}
      <3>5. \A i \in 1..Len(queue) : queue[i] \in union
        BY <3>1
      <3>6. \A x \in union : x \in {queue[i] : i \in 1..Len(queue)}
        BY <3>2, <3>3
      <3> QED
        BY <3>4, <3>5, <3>6
    <2> QED
      BY <1>7, <2>2, <2>3
  <1>12. /\ QueueSet \cap MacroPackage \subseteq SeenMacros(P)
         /\ QueueSet \cap NormalPackage \subseteq imports[P]
         /\ op.decls \cap NormalPackage \subseteq Target(P)
         /\ imports[P] \cap NormalPackage \subseteq QueueSet \cup op.decls
         /\ op.collected \cap NormalPackage \subseteq op.decls
         /\ \E followed \in SUBSET MacroPackage : Followed(followed)
    BY <1>2 DEF DirectInv, DirectSearch
  <1>13. /\ P \in Source /\ p \in MacroPackage => r = reExports[p] /\ p \in SeenMacros(P)
         /\ p \notin MacroPackage => r = {}
         /\ MacroPackage \cap NormalPackage = {}
    <2>1. P \in Source
      BY <1>3
    <2>2. p \in MacroPackage => r = reExports[p] /\ p \in SeenMacros(P)
      BY <1>2, <1>11, <1>12, <2>1, ReExportsOfSeen DEF FollowedReExports
    <2>3. p \notin MacroPackage => r = {}
      BY DEF FollowedReExports
    <2> QED
      BY <2>1, <2>2, <2>3, ConstantsAssumption DEF ConstantsAssumption
  <1>14. P \in Source
    BY <1>3
  <1> HIDE DEF p, r, P, queue
  <1>15. /\ QueueSet' \cap MacroPackage \subseteq SeenMacros(P)
         /\ QueueSet' \cap NormalPackage \subseteq imports[P]
    BY <1>0, <1>11, <1>12, <1>13, <1>14, SeenMacrosProperties
  <1>16. op'.decls \cap NormalPackage \subseteq Target(P)
    <2>1. p \in NormalPackage => p \in Target(P)
      BY <1>11, <1>12 DEF Target
    <2>2. r \subseteq Target(P)
      BY <1>13, <1>14 DEF Target
    <2> QED
      BY <1>9, <1>12, <2>1, <2>2
  <1>17. p \in NormalPackage => p \in op'.decls
    BY <1>9, <1>12
  <1>18. /\ imports[P] \cap NormalPackage \subseteq QueueSet' \cup op'.decls
         /\ op'.collected \cap NormalPackage \subseteq op'.decls
    BY <1>9, <1>11, <1>12, <1>13, <1>17
  <1>19. \E followed \in SUBSET MacroPackage : Followed(followed)'
    <2>1. PICK F \in SUBSET MacroPackage : Followed(F)
      BY <1>12
    <2>2. /\ imports[P] \cap MacroPackage \subseteq F \cup QueueSet
          /\ \A m \in F : /\ reExports[m] \cap MacroPackage \subseteq F \cup QueueSet
                          /\ reExports[m] \cap NormalPackage \subseteq op.decls
      BY <2>1 DEF Followed, P
    <2>3. op.decls \subseteq op'.decls
      BY <1>9
    <2> PICK G \in SUBSET MacroPackage : G = F \cup ({p} \cap MacroPackage)
      OBVIOUS
    <2>4. F \cup QueueSet \subseteq G \cup QueueSet' \cup (Package \ MacroPackage)
      BY <1>4, <1>11
    <2>5. imports[P] \cap MacroPackage \subseteq G \cup QueueSet'
      BY <2>2, <2>4
    <2>6. ASSUME NEW m \in G
          PROVE  /\ reExports[m] \cap MacroPackage \subseteq G \cup QueueSet'
                 /\ reExports[m] \cap NormalPackage \subseteq op'.decls
      <3>1. CASE m \in F
        BY <2>2, <2>3, <2>4, <3>1
      <3>2. CASE m = p /\ p \in MacroPackage
        BY <1>9, <1>11, <1>13, <1>14, <3>2
      <3> QED
        BY <3>1, <3>2
    <2>7. Followed(G)'
      BY <1>2, <1>9, <2>5, <2>6 DEF Followed
    <2> QED
      BY <2>7
  <1>20. DirectSearch'
    <2>1. PICK q \in Source : q = P
      BY <1>14
    <2>2. SeenMacros(q)' = SeenMacros(q) /\ Target(q)' = Target(q)
      BY <1>2, ClosuresKept DEF Target
    <2> QED
      BY <1>2, <1>9, <1>15, <1>16, <1>18, <1>19, <2>1, <2>2 DEF DirectSearch
  <1>21. DirectCorrect'
    BY <1>2, ClosuresKept DEF DirectInv, DirectCorrect
  <1> QED
    BY <1>2, <1>9, <1>10, <1>20, <1>21, GraphKept DEF DirectInv

\* When the queue is empty the macro packages followed are all a source sees.
LEMMA AnswerDirectStep ==
  ASSUME GraphInv, DirectInv, AnswerDirect
  PROVE  GraphInv' /\ DirectInv' /\ op'.kind # "names"
  <1> DEFINE p == op.pkg
  <1>0. TypeOK /\ ProgramOK
    BY DEF GraphInv
  <1>1. /\ op.kind = "direct" /\ op.queue = <<>> /\ op' = [kind |-> "idle"]
        /\ UNCHANGED <<programVars, graphVars, cacheDecls, cacheNames>>
        /\ UNCHANGED <<imports, reExports, dependencyMap, pkgReExportMap>>
        /\ cacheDirect' = [cacheDirect EXCEPT ![p] = op.decls]
    BY DEF AnswerDirect, Idle, programVars, graphVars
  <1>2. p \in Source /\ op.decls \in SUBSET Package
    BY <1>0, <1>1, KindFields
  <1>3. op'.kind = "idle" /\ op' \in Operation
    BY <1>1 DEF Operation
  <1>4. TypeOK'
    BY <1>0, <1>1, <1>2, <1>3 DEF TypeOK
  <1>5. QueueSet = {}
    BY <1>1 DEF QueueSet
  <1>6. PICK F \in SUBSET MacroPackage : Followed(F)
    BY <1>1 DEF DirectInv, DirectSearch
  <1>7. /\ imports[p] \cap MacroPackage \subseteq F
        /\ \A m \in F : /\ reExports[m] \cap MacroPackage \subseteq F
                        /\ reExports[m] \cap NormalPackage \subseteq op.decls
    BY <1>5, <1>6 DEF Followed
  <1>8. SeenMacros(p) \subseteq F
    BY <1>0, <1>2, <1>7, SeenMacrosProperties
  <1>9. /\ op.decls \cap NormalPackage \subseteq Target(p)
        /\ imports[p] \cap NormalPackage \subseteq op.decls
    BY <1>1, <1>5 DEF DirectInv, DirectSearch
  <1>10. op.decls \cap NormalPackage = Target(p) \cap NormalPackage
    BY <1>7, <1>8, <1>9 DEF Target
  <1>11. DirectCorrect'
    <2>1. \A q \in Source : cacheDirect'[q] = IF q = p THEN op.decls ELSE cacheDirect[q]
      BY <1>0, <1>1 DEF TypeOK
    <2>2. \A q \in Source : Target(q)' = Target(q)
      BY <1>1, ClosuresKept DEF Target
    <2>3. \A q \in Source : cacheDirect'[q] # Missing =>
             cacheDirect'[q] \cap NormalPackage = Target(q) \cap NormalPackage
      BY <1>10, <2>1 DEF DirectInv, DirectCorrect, Target
    <2> QED
      BY <2>2, <2>3 DEF DirectCorrect, Target
  <1>12. DirectSearch'
    BY <1>3 DEF DirectSearch
  <1> QED
    BY <1>1, <1>3, <1>4, <1>11, <1>12, GraphKept DEF DirectInv

-----------------------------------------------------------------------------
(* The theorems.                                                           *)

Inv == GraphInv /\ NamesInv /\ DirectInv

LEMMA InitInv == Init => Inv
  <1> SUFFICES ASSUME Init PROVE Inv
    OBVIOUS
  <1>1. GraphInv
    BY InitGraph
  <1>2. NamesInv
    BY DEF Init, NamesInv, NamesSearch, NamesCached
  <1>3. DirectInv
    BY DEF Init, DirectInv, DirectSearch, DirectCorrect
  <1> QED
    BY <1>1, <1>2, <1>3 DEF Inv

\* A build starts with empty caches: nothing it changes was answered before.
LEMMA CachesEmptied ==
  ASSUME BuildIndex
  PROVE  NamesInv' /\ DirectInv'
  <1>1. /\ op'.kind = "build" /\ \A p \in Source : cacheNames'[p] = Missing
        /\ \A p \in Source : cacheDirect'[p] = Missing
    BY DEF BuildIndex, Emptied
  <1> QED
    BY <1>1 DEF NamesInv, NamesSearch, NamesCached, DirectInv, DirectSearch, DirectCorrect

LEMMA NextInv == Inv /\ [Next]_vars => Inv'
  <1> SUFFICES ASSUME Inv, [Next]_vars PROVE Inv'
    OBVIOUS
  <1> USE DEF Inv
  <1>0. TypeOK
    BY DEF GraphInv
  <1>1. CASE BuildIndex
    BY <1>1, BuildIndexStep, CachesEmptied
  <1>2. ASSUME NEW p \in Source, AddDependenciesForPackage(p) PROVE Inv'
    <2>1. UNCHANGED <<programVars, cacheDirect, cacheNames>> /\ op'.kind = "build"
      BY <1>0, <1>2, KindFields DEF AddDependenciesForPackage, cacheVars
    <2> QED
      BY <1>2, <2>1, AddDependenciesForPackageStep, NamesKept, DirectKept
  <1>3. ASSUME NEW v \in Package, AddDependenciesForImport(v) PROVE Inv'
    <2>1. UNCHANGED <<programVars, cacheDirect, cacheNames>> /\ op'.kind = "build"
      BY <1>3, ImportFrames DEF AddDependenciesForImport, cacheVars
    <2> QED
      BY <1>3, <2>1, AddDependenciesForImportStep, NamesKept, DirectKept
  <1>4. CASE ReturnToImporter
    <2>1. UNCHANGED <<programVars, cacheDirect, cacheNames>> /\ op'.kind = "build"
      BY <1>0, <1>4, KindFields DEF ReturnToImporter, cacheVars
    <2> QED
      BY <1>4, <2>1, ReturnToImporterStep, NamesKept, DirectKept
  <1>5. CASE BuildDone
    <2>1. UNCHANGED <<programVars, cacheDirect, cacheNames>> /\ op'.kind = "idle"
      BY <1>5 DEF BuildDone, cacheVars, Idle
    <2> QED
      BY <1>5, <2>1, BuildDoneStep, NamesKept, DirectKept
  <1>6. ASSUME NEW p \in Source, AskDirect(p) PROVE Inv'
    BY <1>6, AskDirectStep, NamesKept DEF AskDirect, cacheVars
  <1>7. ASSUME NEW p \in Source, AskNames(p) PROVE Inv'
    BY <1>7, AskNamesStep, DirectKept DEF AskNames, cacheVars
  <1>8. ASSUME NEW p \in Source, NEW b \in BOOLEAN, AskDecls(p, b) PROVE Inv'
    BY <1>8, AskDeclsStep, DirectKept DEF AskDecls
  <1>9. CASE TakeFromQueue
    BY <1>9, TakeFromQueueStep, NamesKept DEF TakeFromQueue, cacheVars
  <1>10. CASE AnswerDirect
    BY <1>10, AnswerDirectStep, NamesKept DEF AnswerDirect
  <1>11. ASSUME NEW p \in Package, TakeFromStack(p) PROVE Inv'
    BY <1>11, TakeFromStackStep, DirectKept DEF TakeFromStack, cacheVars
  <1>12. CASE AnswerNames
    BY <1>12, AnswerNamesStep, DirectKept DEF AnswerNames
  <1>13. CASE UNCHANGED vars
    <2>1. UNCHANGED <<imports, reExports, dependencyMap, pkgReExportMap, cacheDirect,
                      cacheDecls, cacheNames, op>>
      BY <1>13 DEF vars, programVars, graphVars, cacheVars
    <2>2. GraphInv'
      <3>1. TypeOK' /\ ProgramOK' /\ NoReentry' /\ FramesFollowLoop'
        BY <2>1 DEF GraphInv, TypeOK, ProgramOK, NoReentry, FramesFollowLoop
      <3>2. EdgesLeadOn'
        BY <2>1 DEF GraphInv, EdgesLeadOn, Complete, InProgress, Wanted, Reached
      <3>3. ReExportsNoted' /\ EdgesComplete'
        BY <2>1 DEF GraphInv, ReExportsNoted, EdgesComplete, Reached
      <3> QED
        BY <3>1, <3>2, <3>3 DEF GraphInv
    <2>3. \A p \in Source : Closure(p)' = Closure(p) /\ SeenMacros(p)' = SeenMacros(p)
          /\ OnlyUsedByMacro' = OnlyUsedByMacro
      BY <2>1, ClosuresKept DEF programVars
    <2>4. NamesInv'
      <3>1. NamesCached'
        BY <2>1, <2>3 DEF NamesInv, NamesCached
      <3>2. op.kind = "names" => op.pkg \in Source
        BY <1>0, KindFields
      <3>3. NamesSearch'
        BY <2>1, <2>3, <3>2 DEF NamesInv, NamesSearch, Closure, Reached
      <3> QED
        BY <3>1, <3>3 DEF NamesInv
    <2>5. DirectInv'
      <3>1. DirectCorrect'
        BY <2>1, <2>3 DEF DirectInv, DirectCorrect
      <3>2. op.kind = "direct" => op.pkg \in Source
        BY <1>0, KindFields
      <3>3. /\ QueueSet' = QueueSet /\ \A p \in Source : Target(p)' = Target(p)
            /\ \A followed \in SUBSET MacroPackage : Followed(followed)' = Followed(followed)
        BY <2>1, <2>3 DEF QueueSet, Target, Followed
      <3>4. ASSUME op.kind = "direct" PROVE DirectSearch'
        <4>1. PICK p \in Source : p = op.pkg /\ p = op'.pkg
          BY <2>1, <3>2, <3>4
        <4> QED
          BY <2>1, <2>3, <3>3, <3>4, <4>1 DEF DirectInv, DirectSearch
      <3>5. DirectSearch'
        BY <2>1, <3>4 DEF DirectSearch
      <3> QED
        BY <3>1, <3>5 DEF DirectInv
    <2> QED
      BY <2>2, <2>4, <2>5
  <1> QED
    BY <1>1, <1>2, <1>3, <1>4, <1>5, <1>6, <1>7, <1>8, <1>9, <1>10, <1>11, <1>12, <1>13 DEF Next, Query

LEMMA Inductive == Spec => []Inv
  BY InitInv, NextInv, PTL DEF Spec

\* The types of the graph, the caches and the call in progress, and a package in the
\* answer of GetDirectDependencyPackageDecls is marked as collected.
THEOREM TypesCorrect == Spec => []TypeOK
  <1>1. Inv => TypeOK
    BY DEF Inv, GraphInv
  <1> QED
    BY <1>1, Inductive, PTL

\* AddDependenciesForPackage never recurses into a package it is inside a call for,
\* whatever the circles of imports.
THEOREM RecursionEnds == Spec => []NoReentry
  <1>1. Inv => NoReentry
    BY DEF Inv, GraphInv
  <1> QED
    BY <1>1, Inductive, PTL

\* When BuildIndex is done dependencyMap holds every import of every package reached
\* from the sources and no other edge.
THEOREM GraphComplete == Spec => []EdgesComplete
  <1>1. Inv => EdgesComplete
    BY DEF Inv, GraphInv
  <1> QED
    BY <1>1, Inductive, PTL

\* A list of names in cacheDependencyPackageNames is the closure of the imports as they
\* are now, up to the packages only used by macros.
THEOREM CachedNamesCorrect == Spec => []NamesCorrect
  <1>1. Inv => NamesCorrect
    BY DEF Inv, NamesInv, NamesCached, NamesCorrect
  <1> QED
    BY <1>1, Inductive, PTL

\* An answer in cacheDirectDependencyPackageDecls holds exactly the normal packages the
\* source sees through its imports and the re-exports of macro packages.
THEOREM CachedDirectCorrect == Spec => []DirectCorrect
  <1>1. Inv => DirectCorrect
    BY DEF Inv, DirectInv
  <1> QED
    BY <1>1, Inductive, PTL
=============================================================================
