----------------------------- MODULE MCResolver -----------------------------
(***************************************************************************)
(* Small worlds for Resolver: go.mod files over four modules at two        *)
(* versions, with cycles, versions raised late and pre-pruning modules;    *)
(* replaces, excludes and depth bounds over a smaller family; and projects *)
(* the toolchain lists.                                                    *)
(***************************************************************************)
EXTENDS Resolver

R(p, v) == [coord |-> <<p, v>>, indirect |-> FALSE]
Ind(p, v) == [coord |-> <<p, v>>, indirect |-> TRUE]

Plain ==
    [kind |-> "module", requires |-> <<R("a", 1), R("b", 1)>>, replace |-> {},
     exclude |-> {}, gomod |-> <<>>, maxDepth |-> 0, followIndirect |-> TRUE,
     followReplace |-> TRUE, dir |-> FALSE, list |-> <<>>, listEdges |-> <<>>,
     scope |-> Paths]

Mods(S) == [requires : S, prePruning : BOOLEAN]
Leaf == [requires |-> <<>>, prePruning |-> FALSE]

Graphs ==
    {(<<"a", 1>> :> a1) @@ (<<"b", 1>> :> b1) @@ (<<"c", 1>> :> c1) @@ (<<"c", 2>> :> c2)
       @@ (<<"d", 1>> :> d1) :
       a1 \in Mods({<<R("c", 1)>>, <<R("d", 1)>>}),
       b1 \in Mods({<<R("c", 2)>>, <<R("c", 1), R("d", 2)>>}),
       c1 \in Mods({<<>>, <<R("d", 1)>>, <<R("a", 2)>>}),
       c2 \in Mods({<<R("d", 2)>>, <<R("b", 1)>>}),
       d1 \in Mods({<<>>, <<R("c", 2)>>})}

\* One module reached at both versions, and a module below it.
SmallGraphs ==
    {(<<"a", 1>> :> a1) @@ (<<"b", 1>> :> b1) @@ (<<"c", 2>> :> c2) :
       a1 \in Mods({<<R("c", 1)>>, <<R("c", 1), R("d", 1)>>}),
       b1 \in Mods({<<R("c", 2)>>}), c2 \in {[Leaf EXCEPT !.requires = <<R("d", 2)>>]}}

Replace(p, v, new) == [old |-> <<p, v>>, new |-> new]

Replaces ==
    {{Replace("c", 0, <<"d", 1>>)}, {Replace("c", 1, <<"d", 1>>)},
     {Replace("c", 2, <<"d", 2>>)}, {Replace("c", 0, NoCoord)},
     {Replace("c", 1, NoCoord)}, {Replace("c", 0, <<"d", 2>>), Replace("b", 1, <<"d", 2>>)},
     {Replace("c", 0, <<"d", 2>>), Replace("b", 0, <<"d", 2>>)}}

Levels == {[Plain EXCEPT !.gomod = g] : g \in Graphs}
Replaced ==
    {[Plain EXCEPT !.gomod = g, !.replace = r, !.kind = k, !.followReplace = f] :
       g \in SmallGraphs, r \in Replaces, k \in {"module", "shallow", "project"}, f \in BOOLEAN}
Bounded ==
    {[Plain EXCEPT !.gomod = g, !.requires = rq, !.maxDepth = d, !.exclude = x,
                   !.followIndirect = f] :
       g \in SmallGraphs, rq \in {<<R("a", 1), R("b", 1)>>, <<R("b", 1), R("a", 1), Ind("c", 1), R("a", 1)>>},
       d \in 0..2, x \in {{}, {<<"c", 2>>}}, f \in BOOLEAN}

ListedAs(p, v, how) ==
    [coord |-> <<p, v>>, how |-> how, direct |-> p = "a",
     new |-> IF how = "replace" THEN <<"d", 1>> ELSE NoCoord]
E(p, v, q, w) == [from |-> <<p, v>>, to |-> <<q, w>>]
ListEdges == <<E("t", 0, "a", 1), E("a", 1, "c", 1), E("b", 1, "c", 2), E("a", 2, "c", 2)>>

Projects ==
    {[Plain EXCEPT !.kind = "project", !.dir = TRUE, !.scope = sc, !.listEdges = ListEdges,
                   !.list = <<ListedAs("a", 1, "mvs"), ListedAs("b", 1, how), ListedAs("c", 2, "mvs")>>] :
       sc \in {Paths, {"a"}, {"b"}, {"a", "c"}},
       how \in {"replace", "local_replace", "workspace_member"}}

\* A dependency that requires the target itself, above its own version.
Circular ==
    {[Plain EXCEPT !.kind = k, !.gomod = (<<"a", 1>> :> a1)] :
       k \in {"module", "project"}, a1 \in Mods({<<R("t", 2)>>})}

MCWorlds == Levels \cup Replaced \cup Bounded \cup Projects \cup Circular
=============================================================================
