------------------------------- MODULE Resolver -------------------------------
(***************************************************************************)
(* The graph resolver of a walk (internal/walk/application/resolver.go):   *)
(* minimal version selection over go.mod files fetched one level at a time *)
(* by a bounded pool, with replaces, excludes, module-graph pruning and a  *)
(* depth bound; or the module set the Go toolchain lists for a project,    *)
(* fetched by the same pool and restricted to a scope.                     *)
(*                                                                         *)
(* A coordinate is <<path, version>>, version 0 being the local identity   *)
(* of a module read from disk, which every published version exceeds under *)
(* semver.Compare. A world is what the resolver finds outside itself: the  *)
(* target's own directives, the go.mod of every coordinate, the depth      *)
(* policy, the toolchain's list and the scope.                             *)
(***************************************************************************)
EXTENDS Integers, Sequences, FiniteSets, SequencesExt

CONSTANTS
    Paths,        \* module paths, the target's included
    Target,       \* the path of the walk's target
    MaxVersion,   \* highest version
    Worlds,       \* the worlds a resolution may run in
    Workers,      \* bound of the fetch pool
    MaxFaults     \* bound on failed fetches and failed reads

Coordinates == Paths \X (0..MaxVersion)
Published == Paths \X (1..MaxVersion)
NoCoord == <<>>
Requirement == [coord : Published, indirect : BOOLEAN]
GoMod == [requires : Seq(Requirement), prePruning : BOOLEAN]
Listed == [coord : Published, new : Published \cup {NoCoord}, direct : BOOLEAN,
           how : {"mvs", "replace", "local_replace", "workspace_member"}]

(***************************************************************************)
(* replace: old version 0 is the wildcard, new = NoCoord a directory. The  *)
(* modules gomod does not name have none, and are leaves. The toolchain    *)
(* lists a path once, the main module apart, and draws edges to what it    *)
(* lists.                                                                  *)
(***************************************************************************)
IsWorld(w) ==
    /\ w.kind \in {"module", "shallow", "project"}
    /\ {w.followIndirect, w.followReplace, w.dir} \subseteq BOOLEAN
    /\ w.requires \in Seq(Requirement)
    /\ w.replace \subseteq [old : Coordinates, new : Published \cup {NoCoord}]
    /\ w.exclude \subseteq Coordinates
    /\ \A c \in DOMAIN w.gomod : w.gomod[c] \in GoMod
    /\ w.maxDepth \in Nat /\ w.scope \subseteq Paths
    /\ w.list \in Seq(Listed)
    /\ \A m \in ToSet(w.list) : m.coord[1] # Target /\ (m.how = "replace") = (m.new # NoCoord)
    /\ \A i, j \in DOMAIN w.list : w.list[i].coord[1] = w.list[j].coord[1] => i = j
    /\ w.listEdges \in Seq([from : Coordinates, to : Coordinates])
    /\ \A e \in ToSet(w.listEdges) :
         e.to[1] \in {Target} \cup {m.coord[1] : m \in ToSet(w.list)}

ASSUME WorldsAreWorlds == \A w \in Worlds : IsWorld(w)
ASSUME BoundsAreNatural ==
    Target \in Paths /\ {MaxVersion, Workers} \subseteq Nat \ {0} /\ MaxFaults \in Nat

Sources == {"target", "local_main", "mvs", "replace", "local_replace",
            "workspace_member", "depth_bounded", "fetch_failed", "parse_failed"}
Reasons == {"fetch_failed", "parse_failed", "cancelled", "depth_bounded",
            "shallow", "build_list_unavailable", "build_list_approximate"}
NodeType == [coord : Coordinates, direct : BOOLEAN, source : Sources,
             original : Coordinates \cup {NoCoord}]
EdgeType == [from : Coordinates, to : Coordinates, constraint : 0..MaxVersion]

VARIABLES
    world,      \* what the resolution runs in
    phase,      \* "start", "wave", "fetch", "list", "done" or "failed"
    st,         \* resolveState
    toFetch,    \* the level being fetched
    toExpand,   \* the modules of the level whose requirements are followed
    results,    \* results of the level, by position
    graph,      \* the returned graph
    cancelled,  \* the run's context is cancelled
    faults      \* failures so far

resolverVars == <<world, phase, st, toFetch, toExpand, results, graph, cancelled, faults>>

TargetCoord == <<Target, IF world.kind = "project" THEN 0 ELSE 1>>
localIdentity(c) == <<c[1], 0>>
versionGT(a, b) == a > b
Entered(f, k, v) == [x \in DOMAIN f \cup {k} |-> IF x = k THEN v ELSE f[x]]
Spend(n) == faults + n <= MaxFaults /\ faults' = faults + n

-----------------------------------------------------------------------------
(***************************************************************************)
(* The target's directives. A fetched target's directory replaces are      *)
(* dropped; a replace of one version precedes the wildcard.                *)
(***************************************************************************)
effectiveReplaces ==
    IF world.kind = "project" THEN world.replace
    ELSE {r \in world.replace : r.new # NoCoord}

replaceMap ==
    IF world.followReplace \/ world.kind = "shallow" THEN effectiveReplaces ELSE {}

applyReplace(c) ==
    LET exact == {r \in replaceMap : r.old = c}
        named == IF exact # {} THEN exact ELSE {r \in replaceMap : r.old = localIdentity(c)}
        new == (CHOOSE r \in named : TRUE).new
    IN  IF named = {} THEN [to |-> c, source |-> "mvs", original |-> NoCoord]
        ELSE IF new = NoCoord
        THEN [to |-> localIdentity(c), source |-> "local_replace", original |-> c]
        ELSE [to |-> new, source |-> "replace", original |-> c]

isExcluded(c) == c \in world.exclude

addDirect(kept, r) == IF r.indirect THEN kept ELSE Append(kept, r)
filterRequires(reqs) ==
    IF world.followIndirect \/ world.kind = "shallow" THEN reqs
    ELSE FoldLeft(addDirect, <<>>, reqs)

goMod(c) ==
    IF c \in DOMAIN world.gomod THEN world.gomod[c]
    ELSE [requires |-> <<>>, prePruning |-> FALSE]

\* The module paths the target itself requires.
roots == {r.coord[1] : r \in ToSet(world.requires)}

-----------------------------------------------------------------------------
(***************************************************************************)
(* One requirement of the target (seedDirectDeps) or of an expanded module *)
(* (enqueueTransitive). Nodes and selected versions are keyed by the       *)
(* require path; s is the resolveState being rewritten.                    *)
(***************************************************************************)
nodeOf(o, isDirect) ==
    [coord |-> o.to, direct |-> isDirect, source |-> o.source, original |-> o.original]

withEdge(s, from, o, c) ==
    [s EXCEPT !.edges = @ \cup {[from |-> from, to |-> o.to, constraint |-> c[2]]}]

setNode(s, c, n) ==
    [s EXCEPT !.selected = Entered(@, c[1], c[2]), !.nodes = Entered(@, c[1], n)]

localReplace(s, from, o, c, isDirect) ==
    LET t == withEdge(s, from, o, c)
    IN  IF c[1] \in DOMAIN s.nodes THEN t ELSE setNode(t, c, nodeOf(o, isDirect))

\* Mutant: the first version met is kept.
MutantFirstWins(s, c) == c[1] \notin DOMAIN s.selected

wins(s, c) == c[1] \notin DOMAIN s.selected \/ versionGT(c[2], s.selected[c[1]])

queueItem(n, key, depth, expand) ==
    [coord |-> n.coord, key |-> key, pinned |-> n.original # NoCoord,
     depth |-> depth, expand |-> expand]

seedDirectDep(s, req) ==
    LET c == req.coord
        o == applyReplace(c)
        t == withEdge(s, TargetCoord, o, c)
        n == nodeOf(o, TRUE)
    IN  IF o.source = "local_replace" THEN localReplace(s, TargetCoord, o, c, TRUE)
        ELSE IF isExcluded(o.to) THEN s
        ELSE IF wins(s, c)
        THEN [setNode(t, c, n) EXCEPT !.queue = Append(@, queueItem(n, c[1], 1, TRUE))]
        ELSE [t EXCEPT !.nodes[c[1]].direct = TRUE]

seedDirectDeps(s) == FoldLeft(seedDirectDep, s, filterRequires(world.requires))

\* Mutant: a module that was met is not queued again.
MutantNeverReExpanded(s, key, depth) == s

\* A requirement reached again on a path that qualifies it is expanded then.
reExpand(s, key, depth) ==
    LET n == s.nodes[key]
    IN  IF n.source = "local_replace" \/ n.coord \in s.expandedKeys THEN s
        ELSE [s EXCEPT !.queue = Append(@, queueItem(n, key, depth, TRUE))]

enqueueTransitive(s, bi, req) ==
    LET c == req.coord
        o == applyReplace(c)
        t == withEdge(s, bi.coord, o, c)
        expand == c[1] \in roots \/ goMod(bi.coord).prePruning
        n == nodeOf(o, c[1] \in DOMAIN s.nodes /\ s.nodes[c[1]].direct)
    IN  IF o.source = "local_replace" THEN localReplace(s, bi.coord, o, c, FALSE)
        ELSE IF isExcluded(o.to) THEN s
        ELSE IF bi.atMaxDepth
        THEN [IF c[1] \in DOMAIN s.selected THEN t
              ELSE setNode(t, c, [n EXCEPT !.source = "depth_bounded"])
                EXCEPT !.truncated = TRUE]
        ELSE IF wins(s, c)
        THEN [setNode(t, c, n) EXCEPT
                !.queue = Append(@, queueItem(n, c[1], bi.depth + 1, expand))]
        ELSE IF expand THEN reExpand(t, c[1], bi.depth + 1) ELSE t

-----------------------------------------------------------------------------
(***************************************************************************)
(* partitionWave: every queued item is coerced to the version now selected *)
(* for its path, unless a replace pins it; what was not fetched yet is,    *)
(* and what qualifies and has not expanded yet does.                       *)
(***************************************************************************)
coerced(s, item) ==
    IF item.pinned THEN item.coord ELSE <<item.coord[1], s.selected[item.key]>>

place(s, acc, item) ==
    LET c == coerced(s, item)
        bi == [coord |-> c, key |-> item.key, depth |-> item.depth,
               atMaxDepth |-> world.maxDepth > 0 /\ item.depth >= world.maxDepth]
        queued == \E e \in ToSet(acc.expand) : e.coord = c
    IN  [fetch |-> IF c \in s.processed \cup acc.seen THEN acc.fetch
                   ELSE Append(acc.fetch, bi),
         expand |-> IF item.expand /\ c \notin s.expandedKeys /\ ~queued
                    THEN Append(acc.expand, bi) ELSE acc.expand,
         seen |-> acc.seen \cup {c}]

partitionWave(s) ==
    FoldLeft(LAMBDA acc, item : place(s, acc, item),
             [fetch |-> <<>>, expand |-> <<>>, seen |-> {}], s.queue)

(***************************************************************************)
(* applyFetchParse folds one result into the node of its path; a module    *)
(* whose go.mod was read is parsed.                                        *)
(***************************************************************************)
applyFetchParse(s, bi, result) ==
    LET n == [s.nodes[bi.key] EXCEPT !.coord = bi.coord]
    IN  IF result = "ok"
        THEN [s EXCEPT !.nodes[bi.key] = n, !.parsed = @ \cup {bi.coord}]
        ELSE [s EXCEPT !.nodes[bi.key] = [n EXCEPT !.source = result],
                       !.partial = @ \cup {result}]

expandModule(s, bi) ==
    LET t == [s EXCEPT !.expandedKeys = @ \cup {bi.coord}]
    IN  IF bi.coord \notin s.parsed THEN t
        ELSE FoldLeft(LAMBDA u, req : enqueueTransitive(u, bi, req), t,
                      filterRequires(goMod(bi.coord).requires))

\* Each result of the level, in the order of its tasks.
applyResult(s, i) == applyFetchParse(s, toFetch[i], results[i])
applyResults(s) == FoldLeftDomain(applyResult, s, toFetch)

\* Mutant: the level's items stay queued.
MutantQueueKept(s) == FoldLeft(expandModule, applyResults(s), toExpand)

foldLevel(s) == FoldLeft(expandModule, applyResults([s EXCEPT !.queue = <<>>]), toExpand)

-----------------------------------------------------------------------------
(***************************************************************************)
(* repinEdgesToSelected: an edge into an unreplaced module ends at the     *)
(* selected version of its path.                                           *)
(***************************************************************************)
\* Mutant: edges keep the version they were written with.
MutantNotRepinned(s, e) == e

repinEdge(s, e) ==
    LET all == Range(s.nodes)
        pinned == \E n \in all : n.original # NoCoord /\ n.coord = e.to
        sel == <<e.to[1], s.selected[e.to[1]]>>
        local == {n \in all : n.source = "local_replace" /\ n.original = sel}
    IN  IF pinned \/ e.to[1] \notin DOMAIN s.selected THEN e
        ELSE [e EXCEPT !.to = IF local = {} THEN sel ELSE localIdentity(sel)]

repinEdgesToSelected(s) == [s EXCEPT !.edges = {repinEdge(s, e) : e \in s.edges}]

(***************************************************************************)
(* drainNodes: of the nodes that share a coordinate one survives, one that *)
(* a replace made if there is one. Which of two such is the order in which *)
(* a map is iterated.                                                      *)
(***************************************************************************)
drainNodes(all) ==
    {D \in SUBSET all :
       /\ \A n \in all : \E m \in D : m.coord = n.coord
       /\ \A m, n \in D : m.coord = n.coord => m = n
       /\ \A m \in D : m.original = NoCoord =>
            \A n \in all : n.coord = m.coord => n.original = NoCoord}

\* FilterGraphToScope: the target, and what the scope names by the coordinate's
\* path or by the path it was required under.
inScope(n) ==
    \/ n.coord[1] \in world.scope \cup {Target}
    \/ n.original # NoCoord /\ n.original[1] \in world.scope \cup {Target}

FilterGraphToScope(g) ==
    LET kept == {n \in g.nodes : inScope(n)}
        keep == {Target} \cup {n.coord[1] : n \in kept}
                  \cup {n.original[1] : n \in {m \in kept : m.original # NoCoord}}
    IN  IF world.kind # "project" \/ world.scope = Paths THEN g
        ELSE [g EXCEPT !.nodes = kept,
                       !.edges = {e \in @ : e.from[1] \in keep /\ e.to[1] \in keep}]

NoGraph == [nodes |-> {}, edges |-> {}, partial |-> {}]

Finish(s) ==
    /\ phase' = "done" /\ st' = s
    /\ \E D \in drainNodes(Range(s.nodes)) :
         graph' = FilterGraphToScope(
             [nodes |-> D, edges |-> s.edges,
              partial |-> s.partial \cup IF s.truncated THEN {"depth_bounded"} ELSE {}])
    /\ toFetch' = <<>> /\ toExpand' = <<>> /\ results' = <<>>

-----------------------------------------------------------------------------
emptyState ==
    [selected |-> [p \in {Target} |-> TargetCoord[2]], processed |-> {TargetCoord},
     nodes |-> [p \in {Target} |->
                 [coord |-> TargetCoord, direct |-> FALSE, original |-> NoCoord,
                  source |-> IF world.kind = "project" THEN "local_main" ELSE "target"]],
     parsed |-> {}, expandedKeys |-> {}, edges |-> {}, queue |-> <<>>,
     partial |-> {}, truncated |-> FALSE]

ResolverInit ==
    /\ world \in Worlds
    /\ st = emptyState
    /\ phase = "start" /\ toFetch = <<>> /\ toExpand = <<>> /\ results = <<>>
    /\ graph = NoGraph /\ cancelled = FALSE /\ faults = 0

Fail ==
    /\ phase' = "failed"
    /\ UNCHANGED <<world, st, toFetch, toExpand, results, graph, cancelled>>

(***************************************************************************)
(* Resolve and ResolveShallow: the target is fetched and its go.mod read,  *)
(* or there is no graph.                                                   *)
(***************************************************************************)
ResolveFails ==
    /\ phase = "start"
    /\ \/ Spend(IF world.kind = "project" /\ world.dir THEN 2 ELSE 1)
       \/ cancelled /\ (world.kind # "project" \/ world.dir) /\ UNCHANGED faults
    /\ Fail

Resolve ==
    /\ phase = "start" /\ world.kind = "module"
    /\ st' = seedDirectDeps(st) /\ phase' = "wave"
    /\ UNCHANGED <<world, toFetch, toExpand, results, graph, cancelled, faults>>

ResolveShallow ==
    /\ phase = "start" /\ world.kind = "shallow"
    /\ Finish([seedDirectDeps(st) EXCEPT !.partial = {"shallow"}])
    /\ UNCHANGED <<world, cancelled, faults>>

(***************************************************************************)
(* resolveProjectFallback: the toolchain's list is not to be had, or there *)
(* is no directory to ask it in, and the graph says which.                 *)
(***************************************************************************)
resolveProjectFallback ==
    /\ phase = "start" /\ world.kind = "project"
    /\ IF world.dir THEN Spend(1) ELSE UNCHANGED faults
    /\ st' = [seedDirectDeps(st) EXCEPT !.partial =
                {IF world.dir THEN "build_list_unavailable" ELSE "build_list_approximate"}]
    /\ phase' = "wave"
    /\ UNCHANGED <<world, toFetch, toExpand, results, graph, cancelled>>

(***************************************************************************)
(* resolveFromBuildList: one node for each listed module, by its own path, *)
(* and the modules of the scope that have to be fetched. A member of the   *)
(* workspace counts as a direct dependency whatever the list says of it.   *)
(***************************************************************************)
buildListNodeSkeleton(m) ==
    LET o == [to |-> IF m.how = "mvs" THEN m.coord
                     ELSE IF m.how = "replace" THEN m.new ELSE localIdentity(m.coord),
              source |-> m.how,
              original |-> IF m.how \in {"replace", "local_replace"} THEN m.coord ELSE NoCoord]
    IN  nodeOf(o, m.direct \/ m.how = "workspace_member")

addWorkspaceMember(s, m, n) ==
    [s EXCEPT !.nodes = Entered(@, m.coord[1], n),
              !.edges = @ \cup {[from |-> TargetCoord, to |-> n.coord, constraint |-> 0]}]

\* Mutant: a replaced module is looked up by the path of its fork.
MutantScopeByCoordinate(n) == n.coord[1] \in world.scope

inFetchScope(n) ==
    \/ n.coord[1] \in world.scope
    \/ n.original # NoCoord /\ n.original[1] \in world.scope

nodeByPath(s, c) == IF c[1] \in DOMAIN s.nodes THEN s.nodes[c[1]].coord ELSE c

addListed(s, m) ==
    LET n == buildListNodeSkeleton(m)
    IN  IF m.how = "workspace_member" THEN addWorkspaceMember(s, m, n)
        ELSE setNode(s, m.coord, n)

addTask(tasks, m) ==
    LET n == buildListNodeSkeleton(m)
    IN  IF m.how \in {"mvs", "replace"} /\ inFetchScope(n)
        THEN Append(tasks, [coord |-> n.coord, key |-> m.coord[1], depth |-> 1,
                            atMaxDepth |-> FALSE])
        ELSE tasks

resolveFromBuildList ==
    /\ phase = "start" /\ world.kind = "project" /\ world.dir
    /\ st' = FoldLeft(addListed, st, world.list)
    /\ toFetch' = FoldLeft(addTask, <<>>, world.list)
    /\ phase' = "list" /\ results' = <<>>
    /\ UNCHANGED <<world, toExpand, graph, cancelled, faults>>

\* appendBuildListEdges: the toolchain's edges, both ends at the listed nodes,
\* one for each pair of ends.
addListEdge(s, e) ==
    LET edge == [from |-> nodeByPath(s, e.from), to |-> nodeByPath(s, e.to),
                 constraint |-> e.to[2]]
    IN  IF \E x \in s.edges : x.from = edge.from /\ x.to = edge.to THEN s
        ELSE [s EXCEPT !.edges = @ \cup {edge}]

appendBuildListEdges(s) == FoldLeft(addListEdge, s, world.listEdges)

FoldBuildList ==
    /\ phase = "list" /\ DOMAIN results = DOMAIN toFetch
    /\ Finish(appendBuildListEdges(applyResults(st)))
    /\ UNCHANGED <<world, cancelled, faults>>

(***************************************************************************)
(* The levels. A cancelled run stops before the next one.                  *)
(***************************************************************************)
StartWave ==
    /\ phase = "wave" /\ st.queue # <<>> /\ ~cancelled
    /\ LET parts == partitionWave(st)
       IN  /\ toFetch' = parts.fetch /\ toExpand' = parts.expand
           /\ st' = [st EXCEPT !.processed = @ \cup parts.seen]
    /\ phase' = "fetch" /\ results' = <<>>
    /\ UNCHANGED <<world, graph, cancelled, faults>>

\* fetchAndParseModule, at most Workers of a level at a time, in any order.
FetchModule(i) ==
    /\ phase \in {"fetch", "list"} /\ i \in DOMAIN toFetch \ DOMAIN results
    /\ Cardinality({j \in 1..(i - 1) : j \notin DOMAIN results}) < Workers
    /\ \/ results' = Entered(results, i, "ok") /\ Spend(0)
       \/ results' = Entered(results, i, "fetch_failed") /\ Spend(IF cancelled THEN 0 ELSE 1)
       \/ results' = Entered(results, i, "parse_failed") /\ phase = "fetch" /\ Spend(IF cancelled THEN 0 ELSE 1)
    /\ UNCHANGED <<world, phase, st, toFetch, toExpand, graph, cancelled>>

FoldLevel ==
    /\ phase = "fetch" /\ DOMAIN results = DOMAIN toFetch
    /\ st' = foldLevel(st) /\ phase' = "wave"
    /\ toFetch' = <<>> /\ toExpand' = <<>> /\ results' = <<>>
    /\ UNCHANGED <<world, graph, cancelled, faults>>

EndWaves ==
    /\ phase = "wave" /\ (st.queue = <<>> \/ cancelled)
    /\ Finish(repinEdgesToSelected(
         [st EXCEPT !.partial = @ \cup IF st.queue # <<>> THEN {"cancelled"} ELSE {}]))
    /\ UNCHANGED <<world, cancelled, faults>>

\* The operator's interrupt, at any moment.
Cancel ==
    /\ phase \notin {"done", "failed"} /\ ~cancelled /\ cancelled' = TRUE
    /\ UNCHANGED <<world, phase, st, toFetch, toExpand, results, graph, faults>>

ResolverStep ==
    \/ Resolve \/ ResolveShallow \/ resolveProjectFallback \/ resolveFromBuildList
    \/ ResolveFails \/ StartWave \/ FoldLevel \/ FoldBuildList \/ EndWaves
    \/ \E i \in DOMAIN toFetch : FetchModule(i)

Ended == phase \in {"done", "failed"} /\ UNCHANGED resolverVars

ResolverNext == ResolverStep \/ Cancel \/ Ended

\* Weak fairness of ResolverStep, its enabling condition written out: it is
\* enabled until the resolution has ended, and is what leaves cancelled alone.
Fairness == []<>(phase \in {"done", "failed"}) \/ []<><<cancelled' = cancelled>>_resolverVars

ResolverSpec == ResolverInit /\ [][ResolverNext]_resolverVars /\ Fairness
-----------------------------------------------------------------------------
(***************************************************************************)
(* Every node, edge and selection kept while levels are fetched names a    *)
(* module the resolution can meet (resolveState, GraphNode, GraphEdge).    *)
(***************************************************************************)
ResolverTypeOK ==
    /\ IsWorld(world) /\ phase \in {"start", "wave", "fetch", "list", "done", "failed"}
    /\ \A p \in DOMAIN st.nodes : p \in Paths /\ st.nodes[p] \in NodeType
    /\ \A p \in DOMAIN st.selected : st.selected[p] \in 0..MaxVersion
    /\ st.edges \subseteq EdgeType /\ st.partial \subseteq Reasons
    /\ DOMAIN results \subseteq DOMAIN toFetch /\ faults \in 0..MaxFaults

byLevels == phase = "done" /\ world.kind # "shallow" /\ st.expandedKeys # {}
whole == phase = "done" /\ graph.partial = {}

(***************************************************************************)
(* The replaces the properties below speak of: each is of a path, whatever *)
(* version of it is required, and none takes the target's path away or     *)
(* puts a fork there (see the README for what other replaces do).          *)
(***************************************************************************)
ordinaryReplaces ==
    /\ \A r \in replaceMap : r.old[2] = 0 /\ r.old[1] # Target
    /\ \A r \in replaceMap \cup ToSet(world.list) : r.new # NoCoord => r.new[1] # Target

forks == {r.new : r \in replaceMap}
failures == {"fetch_failed", "parse_failed"}

(***************************************************************************)
(* A node the graph presents as resolved was fetched, by whatever order    *)
(* its versions were raised in (walker.go relies on it: "the resolver      *)
(* should have fetched every graph node with a non-failure resolution      *)
(* source"). A fork is fetched once; when that fails, the node that said   *)
(* so may since have been raised, and what is left is the graph's reason.  *)
(***************************************************************************)
NodesAreFetched ==
    /\ phase = "done" /\ world.kind # "shallow" /\ ordinaryReplaces
    /\ "cancelled" \notin graph.partial
    => \A n \in {m \in graph.nodes : m.source \in {"mvs", "replace"}} :
         \/ n.coord \in st.parsed
         \/ n.coord \in forks /\ graph.partial \cap failures # {}

(***************************************************************************)
(* When the levels are through, every path's node stands where its         *)
(* selected version and the target's replaces put it, though results of    *)
(* superseded versions were folded into the same node: a replacement is    *)
(* never moved to another version by MVS (partitionWave, applyFetchParse). *)
(***************************************************************************)
NodesFollowSelection ==
    byLevels /\ ordinaryReplaces => \A p \in DOMAIN st.nodes :
        LET o == applyReplace(<<p, st.selected[p]>>)
        IN  st.nodes[p].coord = o.to /\ st.nodes[p].original = o.original

(***************************************************************************)
(* An edge of the graph ends at one of its nodes, the dependency at its    *)
(* selected version, also after versions were raised, nodes shared a       *)
(* coordinate and a scope cut the graph (repinEdgesToSelected, drainNodes, *)
(* FilterGraph). A shallow graph is not repinned, and a scope keeps every  *)
(* edge to the path of a fork it keeps, and to the path the fork replaces. *)
(***************************************************************************)
requiredOnce ==
    \A r, q \in ToSet(world.requires) : r.coord[1] = q.coord[1] => r.coord = q.coord

forkPaths(g) ==
    UNION {{n.coord[1], n.original[1]} : n \in {m \in g.nodes : m.original # NoCoord}}

EdgesEndAtNodes ==
    phase = "done" /\ ordinaryReplaces /\ (world.kind = "shallow" => requiredOnce) =>
        \A e \in graph.edges :
            \/ \E n \in graph.nodes : n.coord = e.to
            \/ world.scope # Paths /\ e.to[1] \in forkPaths(graph)

(***************************************************************************)
(* Minimal version selection: an unreplaced module stands at a version     *)
(* some module asked for and none asks for a higher one (versionGT in      *)
(* seedDirectDeps and enqueueTransitive).                                  *)
(***************************************************************************)
SelectedIsTheMaximum ==
    byLevels /\ ordinaryReplaces /\ ~st.truncated =>
        \A n \in {m \in graph.nodes : m.original = NoCoord /\ m.coord # TargetCoord} :
            LET asked == {e.constraint : e \in {x \in st.edges : x.to = n.coord}}
            IN  n.coord[2] \in asked /\ \A v \in asked : v <= n.coord[2]

(***************************************************************************)
(* In a graph that claims to be whole, a module the target itself requires *)
(* has its own requirements in the graph, at the version finally selected  *)
(* and by whichever path that version was reached (roots, expand).         *)
(***************************************************************************)
RootsAreFollowed ==
    whole /\ byLevels /\ ordinaryReplaces => \A p \in roots \cap DOMAIN st.nodes :
        LET n == st.nodes[p]
            reqs == ToSet(filterRequires(goMod(n.coord).requires))
        IN  n.source \in {"mvs", "replace"} =>
              \A r \in reqs : \/ isExcluded(applyReplace(r.coord).to)
                             \/ r.coord[1] \in DOMAIN st.nodes

(***************************************************************************)
(* A module that a followed pre-pruning module requires is followed too,   *)
(* at the version asked for or a later one, although it was first reached  *)
(* on a path that does not follow it (enqueueTransitive: "discovery order  *)
(* must not strand an expand-worthy path").                                *)
(***************************************************************************)
WorthyPathsAreFollowed ==
    whole /\ byLevels /\ ordinaryReplaces =>
        \A c \in {d \in st.expandedKeys \cap st.parsed : goMod(d).prePruning} :
            \A r \in ToSet(filterRequires(goMod(c).requires)) :
                LET p == r.coord[1]
                    o == applyReplace(r.coord)
                IN  \/ isExcluded(o.to) \/ o.source = "local_replace"
                    \/ \E v \in r.coord[2]..st.selected[p] :
                         applyReplace(<<p, v>>).to \in st.expandedKeys

(***************************************************************************)
(* Of a project the toolchain lists, exactly the modules the scope retains *)
(* are fetched, a module replaced by a fork included (resolver.go: "the    *)
(* fetched set and the retained set coincide exactly"), when no fork       *)
(* stands for two of them.                                                 *)
(***************************************************************************)
forksDiffer ==
    \A i, j \in DOMAIN world.list :
        world.list[i].new = world.list[j].new /\ world.list[i].new # NoCoord => i = j

ScopeIsFetched ==
    /\ phase = "done" /\ world.kind = "project" /\ st.expandedKeys = {}
    /\ graph.partial = {} /\ ordinaryReplaces /\ forksDiffer
    => {n.coord : n \in {m \in graph.nodes : m.source \in {"mvs", "replace"}}} = st.parsed

(***************************************************************************)
(* The nodes are the versions that selection settles on, in whatever order *)
(* levels, raises and fetches arrived: the highest asked for, replaced as  *)
(* the target says, and fetched (drainNodes).                              *)
(***************************************************************************)
GraphIsSelected ==
    ResolverTypeOK /\ NodesAreFetched /\ NodesFollowSelection /\ SelectedIsTheMaximum

(***************************************************************************)
(* No path that qualifies is left unfollowed because another one reached   *)
(* the module first.                                                       *)
(***************************************************************************)
PathsAreFollowed == RootsAreFollowed /\ WorthyPathsAreFollowed

(***************************************************************************)
(* The resolution ends, whatever cycles the requirements have and whenever *)
(* it is cancelled: each level is drained before the next is queued.       *)
(***************************************************************************)
ResolutionEnds == <>(phase \in {"done", "failed"})

(***************************************************************************)
(* The target stands in its own graph as the root it was resolved from     *)
(* (graph.go: "ResolutionTarget marks the root of the graph - the module   *)
(* being resolved", resolveFromParsed: "targetSource is the                *)
(* ResolutionSource recorded for the root node"). Violated: a dependency   *)
(* that requires a higher version of the target makes it an ordinary node  *)
(* at that version.                                                        *)
(***************************************************************************)
TargetIsKept ==
    phase = "done" => \E n \in graph.nodes :
        n.coord = TargetCoord /\ n.source \in {"target", "local_main"}
=============================================================================
