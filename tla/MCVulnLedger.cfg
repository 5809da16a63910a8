CONSTANTS
  a1 = a1  a2 = a2
  t1 = t1  t2 = t2
  proj = proj  other = other  w1 = w1
  Advisories = {a1, a2}
  Toolchains = {t1, t2}
  Targets = {proj, other}
  Snapshots <- MCSnapshots
  Shapes <- MCShapes
  Walks = {w1}
  MaxRows = 3
  MaxTime = 2
  MaxGeneration = 2
  MaxRuns = 2
SPECIFICATION Spec
INVARIANTS
    LedgerIsSound
    IndexMatchesLedger
    ServedAdvisoryIsListed
    WalkAdvisoryIsListed
PROPERTIES
    FindingNeverDecays
