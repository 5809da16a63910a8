---------------------------- MODULE MCVulnLedger ----------------------------
(***************************************************************************)
(* Small instances of VulnLedger.                                          *)
(***************************************************************************)
EXTENDS VulnLedger

CONSTANTS a1, a2, t1, t2, proj, other, w1

\* An older generation, a newer one, and the newer one as a row that kept no digest.
Older == [version |-> 1, hash |-> 1, retrieved |-> 1]
Newer == [version |-> 2, hash |-> 2, retrieved |-> 2]
NewerNoDigest == [version |-> 2, hash |-> 0, retrieved |-> 2]
MCSnapshots == {Older, Newer, NewerNoDigest}

Shape(c, i, g, s, t, f) ==
  [coverage |-> c, ids |-> i, reach |-> FALSE, rung |-> g, snapshot |-> s,
   toolchain |-> t, rooting |-> f]

\* Findings, completeness and frames.
FrameShapes ==
  {Shape("Analysed", {a1}, 0, Newer, t1, RootingIsolated),
   Shape("Analysed", {}, 4, Newer, t1, RootingIsolated),
   Shape("Analysed", {a1}, 0, Newer, t1, TargetRootedAt(proj)),
   Shape("Analysed", {a2}, 0, Newer, t1, TargetRootedAt(other))}

\* Disputes: two toolchains, two advisories, two databases.
DisputeShapes ==
  {Shape("Analysed", {a1}, 4, Newer, t2, RootingIsolated),
   Shape("Analysed", {a2}, 0, Newer, t1, RootingIsolated),
   Shape("Analysed", {a1}, 0, Older, t1, RootingIsolated)}

\* Rows of older builds: no snapshot digest, no toolchain, no frame; the first is
\* a match by coordinate of a module that could not be analysed.
LegacyShapes ==
  {Shape("Unscannable", {a2}, 0, NewerNoDigest, t2, RootingIsolated),
   Shape("Analysed", {a2}, 0, NewerNoDigest, NoToolchain, Unrecorded)}

MCShapes == FrameShapes \cup DisputeShapes \cup LegacyShapes
=============================================================================
