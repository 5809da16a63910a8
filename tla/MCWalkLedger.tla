---------------------------- MODULE MCWalkLedger ----------------------------
(* Instances of WalkLedger for TLC.                                        *)
EXTENDS WalkLedger, TLC

CONSTANTS p1, p2, t1, t2

Plain == [force |-> FALSE, depth |-> "full", build |-> 1]

(* Every kind of request; the newer build's full one.                      *)
AllRequests == {Plain, [Plain EXCEPT !.depth = "shallow"],
                [Plain EXCEPT !.force = TRUE], [Plain EXCEPT !.build = 2]}

Clean == [target |-> TRUE, nodes |-> {"Succeeded", "LocalReplace"}, ingested |-> TRUE,
          graph |-> "whole"]
AllFindings ==
    {Clean, [Clean EXCEPT !.nodes = {"Succeeded", "FetchFailed"}],
     [Clean EXCEPT !.nodes = {"InternalPanic"}], [Clean EXCEPT !.ingested = FALSE],
     [Clean EXCEPT !.graph = "reason"], [Clean EXCEPT !.graph = "noreason"],
     [Clean EXCEPT !.graph = "unresolved"],
     [Clean EXCEPT !.target = FALSE, !.nodes = {}, !.graph = "unresolved"],
     [Clean EXCEPT !.nodes = {}, !.graph = "shallow"],
     [Clean EXCEPT !.nodes = {}, !.graph = "unresolved"]}

(* Two processes asked for the same walk; a module cannot be fetched, or can. *)
PlainRequests == {Plain}
CleanOrPartial == {Clean, [Clean EXCEPT !.nodes = {"Succeeded", "FetchFailed"}]}

Trees == Permutations({t1, t2})
=============================================================================
