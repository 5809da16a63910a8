SPECIFICATION Spec
CONSTANTS
  Procs = {p1}
  Zips = {z1}
  GoMods = {m1}
  p1 = p1
  z1 = z1
  m1 = m1
  PinnedZip = z1
  PinnedGoMod = m1
  NoHash = NoHash
  Requests <- SkippingRequests
  Answers <- AllAnswers
  Evictable = {}
  MaxMeasurements = 2
INVARIANTS
  VCSEvidenceIsReal
