SPECIFICATION PlanSpec
CONSTANTS
  Procs = {p1, p2}
  Zips = {z1, z2}
  GoMods = {m1}
  p1 = p1
  p2 = p2
  z1 = z1
  z2 = z2
  m1 = m1
  PinnedZip = z1
  PinnedGoMod = m1
  NoHash = NoHash
  Requests <- BothRequests
  Answers <- KeyAnswers
  Evictable = {"zip"}
  MaxMeasurements = 3
INVARIANTS
    LedgerIsAccountedFor
    DivergedLedgerIsClosed
    ClaimsAreGrounded
    ReturnedIsReadable
PROPERTIES
    ServedNeverWeakens
