---------------------------- MODULE MCExtractRun ----------------------------
(* Instances of ExtractRun for TLC.                                        *)
EXTENDS ExtractRun

CONSTANTS w1, w2

MCWorkers == {w1, w2}
MCStages == <<"license", "callgraph">>
MCUnfetchable == {1}
=============================================================================
