--------------------------- MODULE MCCallgraphGate ---------------------------
(* Instances of the gate and the subprocess behind it for TLC.  Memory is  *)
(* counted in whole budgets.                                               *)
EXTENDS BoundedChild

CONSTANTS w1, w2

MCWorkers == {w1, w2}
MCWatched == {w1}
(* Hosts below one budget, at one, and above every bound.                  *)
MCHosts == {0, 1, 4}
MCRequests == {0, 2}
=============================================================================
