---------------------------- MODULE MCBlobStore ----------------------------
EXTENDS BlobStore

CONSTANTS g1, g2, p1, p2

\* Who shares a verdict map: one process's two goroutines, or two processes.
Together == [g \in {g1, g2} |-> p1]
Apart == [g \in {g1, g2} |-> IF g = g1 THEN p1 ELSE p2]

MCPlacements == {Together, Apart}
=============================================================================
