----------------------------- MODULE MCScanWalk -----------------------------
EXTENDS ScanWalk, TLC

CONSTANTS t, d, rep

MCReaches == t :> {t, d} @@ d :> {d}
Walk(k, nt, nd, repl, first, second) ==
    [kind |-> k, replaced |-> repl, nature |-> t :> nt @@ d :> nd, advised |-> <<first, second>>]

(* An advisory published between the two generations, for one module or    *)
(* for both; modules that build, do not build, or have no zip.             *)
MCShapes ==
    {Walk("coordinate", "plain", "plain", {}, {}, {t, d}),
     Walk("coordinate", "unbuildable", "sourceless", {rep}, {}, {d}),
     Walk("project", "plain", "plain", {}, {}, {d})}

Request(f, p, g) == [force |-> f, prepass |-> p, reach |-> g]
MCRequests == {Request(FALSE, FALSE, FALSE), Request(TRUE, TRUE, TRUE)}
=============================================================================
