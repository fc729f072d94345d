-------------------------- MODULE DependencyGraph --------------------------
(***************************************************************************)
(* The graph of imported packages inside ImportManager, built by           *)
(* BuildIndex by recursion over the imports, and its queries, which are    *)
(* answered from caches once they were asked: DependencyGraph.cpp.  The    *)
(* language server builds the index again after the sources changed.       *)
(* An import that failed and an import of the package itself leave no      *)
(* trace in the code and are left out here.                                *)
(***************************************************************************)
EXTENDS Integers, Sequences, FiniteSets, SequencesExt

CONSTANTS
    Source,         \* the packages being compiled
    NormalPackage,  \* imported packages
    MacroPackage,   \* imported packages with isMacroPackage
    Missing,        \* no entry in a cache
    MaxImports      \* bound: the imports of the imported packages together

Imported == NormalPackage \cup MacroPackage
Package == Source \cup Imported

ASSUME ConstantsAssumption ==
    /\ IsFiniteSet(Package)
    /\ NormalPackage \cap MacroPackage = {}
    /\ Source \cap Imported = {}
    /\ MaxImports \in Nat

VARIABLES
    imports,        \* the packages each package imports
    reExports,      \* those it re-exports visibly to its importer
    dependencyMap, pkgReExportMap,
    cacheDirect,    \* cacheDirectDependencyPackageDecls
    cacheDecls,     \* cacheDependencyPackageDecls, by package and includeMacroPkg
    cacheNames,     \* cacheDependencyPackageNames, by package
    op              \* the call in progress and its local variables

programVars == <<imports, reExports>>
graphVars == <<dependencyMap, pkgReExportMap>>
cacheVars == <<cacheDirect, cacheDecls, cacheNames>>
vars == <<programVars, graphVars, cacheVars, op>>

Nothing == [p \in Package |-> {}]
Idle == [kind |-> "idle"]
Frame == [pkg : Package, left : SUBSET Package]

Operation ==
    [kind : {"idle", "new"}]
    \cup [kind : {"build"}, roots : SUBSET Source, frames : Seq(Frame)]
    \cup [kind : {"direct"}, pkg : Source, queue : Seq(Package),
          collected : SUBSET Package, decls : SUBSET Package]
    \cup [kind : {"names"}, pkg : Source, includeMacroPkg : BOOLEAN,
          forDecls : BOOLEAN, stack : SUBSET Package, names : SUBSET Package]

\* Compiled packages may import each other in circles, sources are imported by none.
Init ==
    /\ imports \in {f \in [Package -> SUBSET Imported] : \A p \in Imported : p \notin f[p]}
    /\ Cardinality({e \in Imported \X Imported : e[2] \in imports[e[1]]}) <= MaxImports
    /\ reExports \in [Imported -> SUBSET Imported]
    /\ \A p \in Imported : reExports[p] \subseteq imports[p]
    /\ dependencyMap = Nothing /\ pkgReExportMap = Nothing
    /\ cacheDirect = [p \in Source |-> Missing]
    /\ cacheDecls = [k \in Source \X BOOLEAN |-> Missing]
    /\ cacheNames = [p \in Source |-> Missing]
    /\ op = [kind |-> "new"]

-----------------------------------------------------------------------------
(* Building the graph                                                      *)

Emptied_Mut == cacheNames
Emptied == [p \in Source |-> Missing]

\* BuildIndex, with ClearCachesForRebuild: since the last time the files of the
\* sources may have changed.
BuildIndex ==
    /\ op.kind \in {"new", "idle"}
    /\ imports' \in {[p \in Package |-> IF p \in Source THEN f[p] ELSE imports[p]] :
                        f \in [Source -> SUBSET Imported]}
    /\ op.kind = "new" => imports' = imports
    /\ dependencyMap' = Nothing /\ pkgReExportMap' = Nothing
    /\ cacheDirect' = [p \in Source |-> Missing]
    /\ cacheDecls' = [k \in Source \X BOOLEAN |-> Missing]
    /\ cacheNames' = Emptied
    /\ op' = [kind |-> "build", roots |-> Source, frames |-> <<>>]
    /\ UNCHANGED reExports

\* AddDependenciesForPackage(p) from its first line: a package with an entry is
\* being worked on or finished.
Entered_Mut(frames, p, map) == Append(frames, [pkg |-> p, left |-> imports[p]])
Entered(frames, p, map) ==
    IF map[p] # {} THEN frames ELSE Append(frames, [pkg |-> p, left |-> imports[p]])

AddDependenciesForPackage(p) ==
    /\ op.kind = "build" /\ op.frames = <<>> /\ p \in op.roots
    /\ op' = [op EXCEPT !.roots = @ \ {p}, !.frames = Entered(<<>>, p, dependencyMap)]
    /\ UNCHANGED <<programVars, graphVars, cacheVars>>

\* AddDependency(u, v): the edge is there before the recursion.
WithEdge_Mut(u, v) == IF dependencyMap[u] # {} THEN dependencyMap
                      ELSE [dependencyMap EXCEPT ![u] = {v}]
WithEdge(u, v) == [dependencyMap EXCEPT ![u] = @ \cup {v}]

\* The loop of the last call takes the import v.
Taken(frames, v) == [frames EXCEPT ![Len(frames)].left = @ \ {v}]

\* One import of the package the recursion is at.  Nobody looks at the re-exports
\* before the graph is finished.
AddDependenciesForImport(v) ==
    /\ op.kind = "build" /\ op.frames # <<>>
    /\ LET top == Len(op.frames)
           u == op.frames[top].pkg
       IN /\ v \in op.frames[top].left
          /\ dependencyMap' = WithEdge(u, v)
          /\ pkgReExportMap' = IF u \in Imported /\ v \in reExports[u]
                               THEN [pkgReExportMap EXCEPT ![u] = @ \cup {v}]
                               ELSE pkgReExportMap
          /\ op' = [op EXCEPT !.frames = Entered(Taken(@, v), v, WithEdge(u, v))]
    /\ UNCHANGED <<programVars, cacheVars>>

ReturnToImporter ==
    /\ op.kind = "build" /\ op.frames # <<>>
    /\ op.frames[Len(op.frames)].left = {}
    /\ op' = [op EXCEPT !.frames = Front(@)]
    /\ UNCHANGED <<programVars, graphVars, cacheVars>>

BuildDone ==
    /\ op.kind = "build" /\ op.frames = <<>> /\ op.roots = {}
    /\ op' = Idle
    /\ UNCHANGED <<programVars, graphVars, cacheVars>>

-----------------------------------------------------------------------------
(* GetDirectDependencyPackageDecls                                         *)

\* The edges come in the order of the names: any.
AskDirect(p) ==
    /\ op.kind = "idle" /\ cacheDirect[p] = Missing
    /\ \E queue \in SetToSeqs(dependencyMap[p]) :
          op' = [kind |-> "direct", pkg |-> p, queue |-> queue,
                 collected |-> {}, decls |-> {}]
    /\ UNCHANGED <<programVars, graphVars, cacheVars>>

\* A re-exported macro package goes into the queue and into collected at once,
\* a normal one into the answer unless it is there.
FollowedReExports_Mut(p) == pkgReExportMap[p] \cap NormalPackage
FollowedReExports(p) == IF p \in MacroPackage THEN pkgReExportMap[p] ELSE {}

Marked(p, reached) == {p} \cup reached

TakeFromQueue ==
    /\ op.kind = "direct" /\ op.queue # <<>>
    /\ LET p == Head(op.queue)
           reached == FollowedReExports(p)
       IN \E macros \in SetToSeqs(reached \cap MacroPackage) :
             op' = [op EXCEPT
                !.queue = Tail(@) \o macros,
                !.collected = @ \cup Marked(p, reached),
                !.decls = @ \cup ({p} \ op.collected) \cup (reached \ MacroPackage)]
    /\ UNCHANGED <<programVars, graphVars, cacheVars>>

AnswerDirect ==
    /\ op.kind = "direct" /\ op.queue = <<>>
    /\ cacheDirect' = [cacheDirect EXCEPT ![op.pkg] = op.decls]
    /\ op' = Idle
    /\ UNCHANGED <<programVars, graphVars, cacheDecls, cacheNames>>

-----------------------------------------------------------------------------
(* GetAllDependencyPackageNames and GetAllDependencyPackageDecls           *)

\* The packages reached from those in P along f.
Reached(f, P) ==
    {q \in Package : \A S \in SUBSET Package :
        P \subseteq S /\ (\A x \in S : f[x] \subseteq S) => q \in S}

\* onlyUsedByMacro, as ResolveImportedPackageForFile sets it while it loads the
\* packages: a package is used in common code when it is no macro package and
\* either code outside of macros imports it or a package re-exports it.
UsedAsCommon ==
    {p \in Package : \A S \in SUBSET Package :
        /\ Source \subseteq S
        /\ \A u \in S : imports[u] \ MacroPackage \subseteq S
        /\ \A u \in Imported \cap Reached(imports, Source) :
              reExports[u] \ MacroPackage \subseteq S
        => p \in S}
OnlyUsedByMacro == Package \ UsedAsCommon

\* The name cache is asked with the package alone, the cache of the decls with
\* the flag too.  A name that is cached answers the decls without a search.
AskDecls(p, includeMacroPkg) ==
    /\ op.kind = "idle" /\ cacheDecls[<<p, includeMacroPkg>>] = Missing
    /\ IF cacheNames[p] # Missing
       THEN /\ cacheDecls' = [cacheDecls EXCEPT ![<<p, includeMacroPkg>>] = cacheNames[p]]
            /\ UNCHANGED op
       ELSE /\ op' = [kind |-> "names", pkg |-> p, includeMacroPkg |-> includeMacroPkg,
                      forDecls |-> TRUE, stack |-> dependencyMap[p], names |-> {}]
            /\ UNCHANGED cacheDecls
    /\ UNCHANGED <<programVars, graphVars, cacheDirect, cacheNames>>

\* GetAllDependentPackageNames always passes false.
AskNames(p) ==
    /\ op.kind = "idle" /\ cacheNames[p] = Missing
    /\ op' = [kind |-> "names", pkg |-> p, includeMacroPkg |-> FALSE,
              forDecls |-> FALSE, stack |-> dependencyMap[p], names |-> {}]
    /\ UNCHANGED <<programVars, graphVars, cacheVars>>

Pushed_Mut(p) == dependencyMap[p]
Pushed(p) == IF p \in op.names THEN {} ELSE dependencyMap[p]

TakeFromStack(p) ==
    /\ op.kind = "names" /\ p \in op.stack
    /\ op' = [op EXCEPT
          !.stack = (@ \ {p}) \cup Pushed(p),
          !.names = @ \cup {p}]
    /\ UNCHANGED <<programVars, graphVars, cacheVars>>

Kept(names, includeMacroPkg) ==
    IF includeMacroPkg THEN names ELSE names \ OnlyUsedByMacro

AnswerNames ==
    /\ op.kind = "names" /\ op.stack = {}
    /\ LET names == Kept(op.names, op.includeMacroPkg)
       IN /\ cacheNames' = [cacheNames EXCEPT ![op.pkg] = names]
          /\ cacheDecls' = IF op.forDecls
                           THEN [cacheDecls EXCEPT ![<<op.pkg, op.includeMacroPkg>>] = names]
                           ELSE cacheDecls
    /\ op' = Idle
    /\ UNCHANGED <<programVars, graphVars, cacheDirect>>

Query ==
    \/ \E p \in Source :
          \/ AskDirect(p) \/ AskNames(p)
          \/ \E includeMacroPkg \in BOOLEAN : AskDecls(p, includeMacroPkg)
    \/ TakeFromQueue \/ AnswerDirect
    \/ \E p \in Package : TakeFromStack(p)
    \/ AnswerNames

Next ==
    \/ BuildIndex
    \/ \E p \in Source : AddDependenciesForPackage(p)
    \/ \E v \in Package : AddDependenciesForImport(v)
    \/ ReturnToImporter \/ BuildDone
    \/ Query

Spec == Init /\ [][Next]_vars

\* A call in progress goes on.
FairSpec == Spec /\ WF_vars(op.kind \notin {"new", "idle"} /\ Next)

-----------------------------------------------------------------------------
Closure(p) == Reached(imports, imports[p])

\* The macro packages p sees: those it imports and those they re-export in turn.
SeenMacros(p) ==
    Reached([x \in Package |-> IF x \in MacroPackage THEN reExports[x] \cap MacroPackage
                               ELSE {}],
            imports[p] \cap MacroPackage)

\* Types; a package in the answer of a direct query is marked as collected, so that
\* it does not come into the list twice.
TypeOK ==
    /\ imports \in [Package -> SUBSET Imported]
    /\ reExports \in [Imported -> SUBSET Imported]
    /\ dependencyMap \in [Package -> SUBSET Package]
    /\ pkgReExportMap \in [Package -> SUBSET Package]
    /\ cacheDirect \in [Source -> (SUBSET Package) \cup {Missing}]
    /\ cacheDecls \in [Source \X BOOLEAN -> (SUBSET Package) \cup {Missing}]
    /\ cacheNames \in [Source -> (SUBSET Package) \cup {Missing}]
    /\ op \in Operation
    /\ op.kind = "direct" => op.decls \subseteq op.collected

\* AddDependenciesForPackage is never inside two calls for the same package, so
\* packages that import each other do not make it recurse for ever.
NoReentry ==
    op.kind = "build" =>
        \A i, j \in 1..Len(op.frames) : i # j => op.frames[i].pkg # op.frames[j].pkg

\* When BuildIndex is done no import of a package reached from the sources is
\* missing from the graph, although a package met again is left at once, and no
\* other package has an edge.
EdgesComplete ==
    op.kind \notin {"new", "build"} =>
        \A p \in Package : dependencyMap[p] =
            IF p \in Source \cup Reached(imports, Source) THEN imports[p] ELSE {}

\* A cached list of names is the closure of the imports of today, up to the
\* packages only used by macros, and never one of an earlier build.
NamesCorrect ==
    op.kind # "build" => \A p \in Source : cacheNames[p] # Missing =>
        cacheNames[p] \in {Closure(p), Closure(p) \ OnlyUsedByMacro}

\* GetDirectDependencyPackageDecls finds exactly the normal packages a source
\* sees: those it imports and those re-exported along a chain of macro packages.
DirectCorrect ==
    \A p \in Source : cacheDirect[p] # Missing =>
        cacheDirect[p] \cap NormalPackage =
            (imports[p] \cup UNION {reExports[m] : m \in SeenMacros(p)}) \cap NormalPackage

\* A query returns, provided that macro packages do not re-export each other in
\* a circle.
ReExportCircle ==
    \E m \in MacroPackage :
        m \in Reached([x \in Package |-> IF x \in MacroPackage THEN reExports[x] ELSE {}],
                      reExports[m])
QueriesReturn ==
    op.kind \in {"direct", "names"} /\ ~ReExportCircle ~> op.kind = "idle"
=============================================================================
