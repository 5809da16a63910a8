------------------------- MODULE MCFactLedgerPlans -------------------------
(* FactLedger under two plans, one of which is chosen at the start: the     *)
(* processes overlap over two measurements, or one of them takes three      *)
(* while the zip may disappear and no lookup fails.                         *)
EXTENDS MCFactLedger

CONSTANTS p1, p2, z1, z2, m1

VARIABLE plan

BothRequests == OverlappingRequests \cup ChainRequests

PlanInit == Init /\ plan \in {"overlap", "chain"}

Overlap ==
    /\ plan = "overlap"
    /\ \E p \in Procs : Step(p) /\ req'[p] \in OverlappingRequests
    /\ clock' <= 2
    /\ UNCHANGED plan

Chain ==
    /\ plan = "chain"
    /\ Evict \/ Step(p1)
    /\ req'[p1] \in ChainRequests /\ ~m'[p1].lookupFailed
    /\ UNCHANGED plan

PlanSpec == PlanInit /\ [][Overlap \/ Chain]_<<vars, plan>>
=============================================================================
