-------------------------- MODULE VulnLedgerProofs --------------------------
(***************************************************************************)
(* Proofs about VulnLedger: for any advisories, toolchains, frames and     *)
(* databases and any order of appends, the composition has an answer, the  *)
(* findings index says what it is, and no append is refused.               *)
(***************************************************************************)
EXTENDS VulnLedger, WellFoundedInduction, TLAPS

-----------------------------------------------------------------------------
(* Least elements.                                                         *)

(* A number-valued function on a non-empty set has a least value.          *)
LEMMA LeastValue ==
  ASSUME NEW S, S # {}, NEW f \in [S -> Nat]
  PROVE  \E x \in S : \A y \in S : f[x] <= f[y]
<1> DEFINE T == {f[x] : x \in S}
<1>1. T \subseteq Nat /\ T # {}
  OBVIOUS
<1>2. \E m \in T : \A n \in T : ~(<<n, m>> \in OpToRel(<, Nat))
  BY <1>1, WFMin, NatLessThanWellFounded
<1>3. PICK m \in T : \A n \in T : ~(n < m)
  BY <1>1, <1>2 DEF OpToRel
<1>4. PICK x \in S : m = f[x]
  OBVIOUS
<1>5. \A y \in S : f[x] <= f[y]
  BY <1>1, <1>3, <1>4
<1> QED BY <1>5

\* T is the part of S where the rank f is least.
LeastPart(T, S, f) ==
  /\ T \subseteq S /\ T # {}
  /\ \A x, y \in T : f[x] = f[y]
  /\ \A x \in T : \A y \in S \ T : f[x] < f[y]

(* Every non-empty part of a ranked set has one.                           *)
LEMMA Refine ==
  ASSUME NEW R, NEW S, S \subseteq R, S # {}, NEW f \in [R -> Nat]
  PROVE  \E T : LeastPart(T, S, f)
<1> DEFINE g == [x \in S |-> f[x]]
<1>1. g \in [S -> Nat]
  OBVIOUS
<1>2. PICK x \in S : \A y \in S : g[x] <= g[y]
  BY <1>1, LeastValue
<1> DEFINE T == {y \in S : f[y] = f[x]}
<1>3. \A y \in S : f[x] <= f[y] /\ f[x] \in Nat /\ f[y] \in Nat
  BY <1>2
<1>4. T # {} /\ \A y, z \in T : f[y] = f[z]
  OBVIOUS
<1>5. \A y \in T : \A z \in S \ T : f[y] < f[z]
  BY <1>3
<1>6. T \subseteq S
  OBVIOUS
<1> QED BY <1>4, <1>5, <1>6 DEF LeastPart

-----------------------------------------------------------------------------
(* The serving order.                                                      *)

OneRowPerHash(R) == \A r, o \in R : r.hash = o.hash => r = o

(* What the type of a record says about the fields the ladder compares.    *)
LEMMA RecordFields ==
  ASSUME NEW r \in RecordType
  PROVE  /\ r.shape \in Shapes /\ r.shape.ids \subseteq Advisories
         /\ r.shape.rung \in 0 .. 4 /\ r.shape.rooting \in Rootings
         /\ Snap(r).retrieved \in 0 .. MaxTime /\ Snap(r).version \in 0 .. MaxGeneration
         /\ r.at \in 1 .. MaxTime /\ r.hash \in 1 .. MaxRows
<1>1. r.shape \in Shapes /\ r.at \in 1 .. MaxTime /\ r.hash \in 1 .. MaxRows
  BY DEF RecordType
<1>2. r.shape \in ShapeType
  BY <1>1, ShapesAreShapes
<1>3. /\ r.shape.ids \subseteq Advisories /\ r.shape.rung \in 0 .. 4
      /\ r.shape.rooting \in Rootings /\ r.shape.snapshot \in Snapshots
  BY <1>2 DEF ShapeType, Rungs
<1>4. r.shape.snapshot \in SnapshotType
  BY <1>3, SnapshotsAreSnapshots
<1>5. Snap(r).retrieved \in 0 .. MaxTime /\ Snap(r).version \in 0 .. MaxGeneration
  BY <1>4 DEF SnapshotType, Snap
<1> QED BY <1>1, <1>3, <1>5

(* The ladder decides every set of rows with distinct hashes: one of them  *)
(* serves before every other.                                              *)
LEMMA SomeRecordServes ==
  ASSUME NEW R \in SUBSET RecordType, R # {}, OneRowPerHash(R)
  PROVE  \E r \in R : \A o \in R \ {r} : servesBefore(r, o)
<1> DEFINE f1 == [r \in R |-> IF ReportsAdvisory(r) THEN 0 ELSE 1]
           f2 == [r \in R |-> IF Analysed(r) THEN 0 ELSE 1]
           f3 == [r \in R |-> 4 - r.shape.rung]
           f4 == [r \in R |-> MaxTime - Snap(r).retrieved]
           f5 == [r \in R |-> MaxGeneration - Snap(r).version]
           f6 == [r \in R |-> MaxTime - r.at]
           f7 == [r \in R |-> r.hash]
<1>f. \A r \in R :
        /\ r.shape.rung \in 0 .. 4 /\ Snap(r).retrieved \in 0 .. MaxTime
        /\ Snap(r).version \in 0 .. MaxGeneration
        /\ r.at \in 1 .. MaxTime /\ r.hash \in 1 .. MaxRows
  BY RecordFields
<1>0. /\ f1 \in [R -> Nat] /\ f2 \in [R -> Nat] /\ f3 \in [R -> Nat] /\ f4 \in [R -> Nat]
      /\ f5 \in [R -> Nat] /\ f6 \in [R -> Nat] /\ f7 \in [R -> Nat]
  <2>1. f1 \in [R -> Nat]
    OBVIOUS
  <2>2. f2 \in [R -> Nat]
    OBVIOUS
  <2>3. f3 \in [R -> Nat]
    BY <1>f
  <2>4. f4 \in [R -> Nat]
    BY <1>f, BoundsAreNat
  <2>5. f5 \in [R -> Nat]
    BY <1>f, BoundsAreNat
  <2>6. f6 \in [R -> Nat]
    BY <1>f, BoundsAreNat
  <2>7. f7 \in [R -> Nat]
    BY <1>f, BoundsAreNat
  <2> QED BY <2>1, <2>2, <2>3, <2>4, <2>5, <2>6, <2>7
<1> HIDE DEF f1, f2, f3, f4, f5, f6, f7
<1>1. PICK T1 : LeastPart(T1, R, f1)
  BY <1>0, Refine
<1>2. PICK T2 : LeastPart(T2, T1, f2)
  <2>1. T1 \subseteq R /\ T1 # {}
    BY <1>1 DEF LeastPart
  <2> QED BY <1>0, <2>1, Refine
<1>3. PICK T3 : LeastPart(T3, T2, f3)
  <2>1. T2 \subseteq R /\ T2 # {}
    BY <1>1, <1>2 DEF LeastPart
  <2> QED BY <1>0, <2>1, Refine
<1>4. PICK T4 : LeastPart(T4, T3, f4)
  <2>1. T3 \subseteq R /\ T3 # {}
    BY <1>1, <1>2, <1>3 DEF LeastPart
  <2> QED BY <1>0, <2>1, Refine
<1>5. PICK T5 : LeastPart(T5, T4, f5)
  <2>1. T4 \subseteq R /\ T4 # {}
    BY <1>1, <1>2, <1>3, <1>4 DEF LeastPart
  <2> QED BY <1>0, <2>1, Refine
<1>6. PICK T6 : LeastPart(T6, T5, f6)
  <2>1. T5 \subseteq R /\ T5 # {}
    BY <1>1, <1>2, <1>3, <1>4, <1>5 DEF LeastPart
  <2> QED BY <1>0, <2>1, Refine
<1>7. PICK T7 : LeastPart(T7, T6, f7)
  <2>1. T6 \subseteq R /\ T6 # {}
    BY <1>1, <1>2, <1>3, <1>4, <1>5, <1>6 DEF LeastPart
  <2> QED BY <1>0, <2>1, Refine
<1>8. PICK r \in T7 : TRUE
  BY <1>7 DEF LeastPart
<1>9. /\ r \in R /\ r \in T1 /\ r \in T2 /\ r \in T3 /\ r \in T4 /\ r \in T5 /\ r \in T6
  BY <1>1, <1>2, <1>3, <1>4, <1>5, <1>6, <1>7, <1>8 DEF LeastPart
<1>10. ASSUME NEW o \in R \ {r}
       PROVE  servesBefore(r, o)
  <2>1. CASE o \notin T1
    <3>1. f1[r] < f1[o]
      BY <2>1, <1>1, <1>9 DEF LeastPart
    <3> QED BY <3>1, <1>9 DEF f1, servesBefore, ReportsAdvisory, Analysed
  <2>2. CASE o \in T1 \ T2
    <3>1. f1[r] = f1[o] /\ f2[r] < f2[o]
      BY <2>2, <1>1, <1>2, <1>9 DEF LeastPart
    <3> QED BY <3>1, <1>9 DEF f1, f2, servesBefore, ReportsAdvisory, Analysed
  <2>3. CASE o \in T2 \ T3
    <3>1. f1[r] = f1[o] /\ f2[r] = f2[o] /\ f3[r] < f3[o]
      BY <2>3, <1>1, <1>2, <1>3, <1>9 DEF LeastPart
    <3> QED BY <3>1, <1>f, <1>9 DEF f1, f2, f3, servesBefore, ReportsAdvisory, Analysed
  <2>4. CASE o \in T3 \ T4
    <3>1. f1[r] = f1[o] /\ f2[r] = f2[o] /\ f3[r] = f3[o] /\ f4[r] < f4[o]
      BY <2>4, <1>1, <1>2, <1>3, <1>4, <1>9 DEF LeastPart
    <3> QED BY <3>1, <1>f, <1>9, BoundsAreNat DEF f1, f2, f3, f4, servesBefore, ReportsAdvisory, Analysed
  <2>5. CASE o \in T4 \ T5
    <3>1. /\ f1[r] = f1[o] /\ f2[r] = f2[o] /\ f3[r] = f3[o] /\ f4[r] = f4[o]
          /\ f5[r] < f5[o]
      BY <2>5, <1>1, <1>2, <1>3, <1>4, <1>5, <1>9 DEF LeastPart
    <3> QED BY <3>1, <1>f, <1>9, BoundsAreNat DEF f1, f2, f3, f4, f5, servesBefore, ReportsAdvisory, Analysed
  <2>6. CASE o \in T5 \ T6
    <3>1. /\ f1[r] = f1[o] /\ f2[r] = f2[o] /\ f3[r] = f3[o] /\ f4[r] = f4[o]
          /\ f5[r] = f5[o] /\ f6[r] < f6[o]
      BY <2>6, <1>1, <1>2, <1>3, <1>4, <1>5, <1>6, <1>9 DEF LeastPart
    <3> QED BY <3>1, <1>f, <1>9, BoundsAreNat DEF f1, f2, f3, f4, f5, f6, servesBefore, ReportsAdvisory, Analysed
  <2>7. CASE o \in T6
    <3>1. /\ f1[r] = f1[o] /\ f2[r] = f2[o] /\ f3[r] = f3[o] /\ f4[r] = f4[o]
          /\ f5[r] = f5[o] /\ f6[r] = f6[o]
      BY <2>7, <1>1, <1>2, <1>3, <1>4, <1>5, <1>6, <1>9 DEF LeastPart
    <3>2. f7[r] <= f7[o]
      BY <2>7, <1>0, <1>7, <1>8, <1>9 DEF LeastPart
    <3>3. r.hash # o.hash
      BY <1>9 DEF OneRowPerHash
    <3>4. r.hash < o.hash
      BY <3>2, <3>3, <1>f, <1>9 DEF f7
    <3> QED BY <3>1, <3>4, <1>f, <1>9, BoundsAreNat DEF f1, f2, f3, f4, f5, f6, servesBefore, ReportsAdvisory, Analysed
  <2> QED BY <2>1, <2>2, <2>3, <2>4, <2>5, <2>6, <2>7
<1> QED BY <1>9, <1>10

(* best is one of the rows and serves before every other.                  *)
LEMMA BestServes ==
  ASSUME NEW R \in SUBSET RecordType, R # {}, OneRowPerHash(R)
  PROVE  best(R) \in R /\ \A o \in R \ {best(R)} : servesBefore(best(R), o)
  BY SomeRecordServes DEF best

(* Of two rows with different hashes at most one serves before the other.  *)
LEMMA OrderIsStrict ==
  ASSUME NEW a \in RecordType, NEW b \in RecordType, a.hash # b.hash, servesBefore(a, b)
  PROVE  ~servesBefore(b, a)
<1>1. /\ a.shape.rung \in 0 .. 4 /\ Snap(a).retrieved \in 0 .. MaxTime
      /\ Snap(a).version \in 0 .. MaxGeneration /\ a.at \in 1 .. MaxTime /\ a.hash \in 1 .. MaxRows
  BY RecordFields
<1>2. /\ b.shape.rung \in 0 .. 4 /\ Snap(b).retrieved \in 0 .. MaxTime
      /\ Snap(b).version \in 0 .. MaxGeneration /\ b.at \in 1 .. MaxTime /\ b.hash \in 1 .. MaxRows
  BY RecordFields
<1> QED BY <1>1, <1>2, BoundsAreNat DEF servesBefore, ReportsAdvisory, Analysed

(* The best of a set is the best of every subset it belongs to.            *)
LEMMA BestOfSubset ==
  ASSUME NEW R \in SUBSET RecordType, OneRowPerHash(R), NEW S \in SUBSET R, best(R) \in S
  PROVE  best(S) = best(R)
<1>1. OneRowPerHash(S) /\ S # {} /\ S \in SUBSET RecordType /\ R # {}
  BY DEF OneRowPerHash
<1>2. best(S) \in S /\ \A o \in S \ {best(S)} : servesBefore(best(S), o)
  BY <1>1, BestServes
<1>3. best(R) \in R /\ \A o \in R \ {best(R)} : servesBefore(best(R), o)
  BY <1>1, BestServes
<1>4. ASSUME best(S) # best(R) PROVE FALSE
  <2>1. servesBefore(best(S), best(R)) /\ servesBefore(best(R), best(S))
    BY <1>2, <1>3, <1>4
  <2>2. best(S).hash # best(R).hash
    BY <1>2, <1>3, <1>4 DEF OneRowPerHash
  <2> QED BY <1>2, <1>3, <2>1, <2>2, OrderIsStrict
<1> QED BY <1>4

(* The newest record of a group exists.                                    *)
LEMMA SomeRecordIsNewest ==
  ASSUME NEW R \in SUBSET RecordType, R # {}, OneRowPerHash(R)
  PROVE  \E r \in R : \A o \in R \ {r} : newerScan(r, o)
<1> DEFINE f1 == [r \in R |-> MaxTime - r.at]
           f2 == [r \in R |-> r.hash]
<1>f. \A r \in R : r.at \in 1 .. MaxTime /\ r.hash \in 1 .. MaxRows
  BY RecordFields
<1>0. f1 \in [R -> Nat] /\ f2 \in [R -> Nat]
  BY <1>f, BoundsAreNat
<1> HIDE DEF f1, f2
<1>1. PICK T1 : LeastPart(T1, R, f1)
  BY <1>0, Refine
<1>2. PICK T2 : LeastPart(T2, T1, f2)
  <2>1. T1 \subseteq R /\ T1 # {}
    BY <1>1 DEF LeastPart
  <2> QED BY <1>0, <2>1, Refine
<1>3. PICK r \in T2 : r \in T1 /\ r \in R
  BY <1>1, <1>2 DEF LeastPart
<1>4. ASSUME NEW o \in R \ {r}
      PROVE  newerScan(r, o)
  <2>1. CASE o \notin T1
    <3>1. f1[r] < f1[o]
      BY <2>1, <1>1, <1>3 DEF LeastPart
    <3> QED BY <3>1, <1>f, <1>3, BoundsAreNat DEF f1, newerScan
  <2>2. CASE o \in T1
    <3>1. f1[r] = f1[o] /\ f2[r] <= f2[o]
      BY <2>2, <1>0, <1>1, <1>2, <1>3 DEF LeastPart
    <3>2. r.hash # o.hash
      BY <1>3 DEF OneRowPerHash
    <3> QED BY <3>1, <3>2, <1>f, <1>3, BoundsAreNat DEF f1, f2, newerScan
  <2> QED BY <2>1, <2>2
<1> QED BY <1>3, <1>4

-----------------------------------------------------------------------------
(* One frame of one key.                                                   *)

frameRows(R, f) == {r \in R : r.shape.rooting = f}

\* What a frame's rows are narrowed to for the index, and the rows it describes.
indexRows(G) ==
  IF findToolchainConflict(G) THEN {r \in G : r.shape.toolchain = newestToolchain(G)} ELSE G
indexedOf(G) == IF findFindingConflict(G) THEN findingMembers(G) ELSE {best(G)}

(* A frame some row states is answered by its own rows only.               *)
LEMMA FrameIsItsRows ==
  ASSUME NEW R, NEW f, \E r \in R : r.shape.rooting = f
  PROVE  atRooting(R, f) = frameRows(R, f)
<1>1. PICK r \in R : r.shape.rooting = f
  OBVIOUS
<1>2. CASE \A o \in R : o.shape.rooting = Unrecorded
  <2>1. f = Unrecorded
    BY <1>1, <1>2
  <2> QED BY <1>2, <2>1 DEF atRooting, frameRows
<1>3. CASE ~\A o \in R : o.shape.rooting = Unrecorded
  BY <1>3 DEF atRooting, frameRows
<1> QED BY <1>2, <1>3

(* The toolchain the index falls back to is that of one of the frame's rows *)
(* whenever there is a conflict to fall back from.                          *)
LEMMA NewestToolchainIsThere ==
  ASSUME NEW G \in SUBSET RecordType, OneRowPerHash(G), findToolchainConflict(G)
  PROVE  \E r \in G : r.shape.toolchain = newestToolchain(G)
<1> DEFINE named == {r \in G : r.shape.toolchain # NoToolchain}
<1>1. named # {}
  <2>1. toolchainClaims(G) # {}
    BY DEF findToolchainConflict, sameVerdicts
  <2> QED BY <2>1 DEF toolchainClaims
<1>2. named \in SUBSET RecordType /\ OneRowPerHash(named)
  BY DEF OneRowPerHash
<1> DEFINE n == CHOOSE r \in named : \A o \in named \ {r} : newerScan(r, o)
<1>3. \E r \in named : \A o \in named \ {r} : newerScan(r, o)
  BY <1>1, <1>2, SomeRecordIsNewest
<1>4. n \in named
  BY <1>3
<1>5. newestToolchain(G) = n.shape.toolchain
  BY DEF newestToolchain
<1> QED BY <1>4, <1>5

(* Rows of one toolchain cannot be in a toolchain conflict.                *)
LEMMA OneToolchainAgrees ==
  ASSUME NEW G, NEW t, \A r \in G : r.shape.toolchain = t
  PROVE  ~findToolchainConflict(G)
<1>1. \A r \in toolchainClaims(G) : r.shape.toolchain = t
  BY DEF toolchainClaims
<1> QED BY <1>1 DEF findToolchainConflict, sameVerdicts

(* The index of a frame depends on the rows of that frame alone, and there *)
(* is always something to index.                                           *)
LEMMA IndexOfFrame ==
  ASSUME NEW R \in SUBSET RecordType, OneRowPerHash(R), NEW f,
         \E r \in R : r.shape.rooting = f
  PROVE  LET G == indexRows(frameRows(R, f))
         IN  /\ indexGroup(R, f) = G /\ G # {} /\ G \subseteq frameRows(R, f)
             /\ IndexedAt(R, f) = indexedOf(G)
             /\ IndexedAt(R, f) # {} /\ IndexedAt(R, f) \subseteq frameRows(R, f)
<1> DEFINE F == frameRows(R, f)
           G == indexRows(F)
<1>1. atRooting(R, f) = F
  BY FrameIsItsRows
<1>2. F \in SUBSET RecordType /\ OneRowPerHash(F) /\ F # {} /\ F \subseteq R
  BY DEF frameRows, OneRowPerHash
<1>3. indexGroup(R, f) = G /\ G # {} /\ G \subseteq F /\ ~findToolchainConflict(G)
  <2>1. CASE ~findToolchainConflict(F)
    <3>1. G = F
      BY <2>1 DEF indexRows
    <3> QED BY <2>1, <3>1, <1>1, <1>2 DEF indexGroup
  <2>2. CASE findToolchainConflict(F)
    <3> DEFINE t == newestToolchain(F)
               Q == {r \in R : r.shape.toolchain = t}
    <3>1. PICK n \in F : n.shape.toolchain = t
      BY <1>2, <2>2, NewestToolchainIsThere
    <3>2. n \in Q /\ n.shape.rooting = f
      BY <3>1, <1>2 DEF frameRows
    <3>3. atRooting(Q, f) = frameRows(Q, f)
      BY <3>2, FrameIsItsRows
    <3>4. G = {r \in F : r.shape.toolchain = t}
      BY <2>2 DEF indexRows
    <3>5. frameRows(Q, f) = G
      BY <3>4 DEF frameRows
    <3>6. indexGroup(R, f) = atRooting(Q, f)
      BY <1>1, <2>2 DEF indexGroup
    <3>7. ~findToolchainConflict(G)
      BY <3>4, OneToolchainAgrees
    <3> QED BY <3>1, <3>3, <3>4, <3>5, <3>6, <3>7
  <2> QED BY <2>1, <2>2
<1>4. IndexedAt(R, f) = indexedOf(G)
  <2> HIDE DEF G
  <2> QED BY <1>3 DEF IndexedAt, indexedOf
<1>5. G \in SUBSET RecordType /\ OneRowPerHash(G)
  BY <1>2, <1>3 DEF OneRowPerHash
<1>6. best(G) \in G
  BY <1>3, <1>5, BestServes
<1>7. indexedOf(G) # {} /\ indexedOf(G) \subseteq G
  <2> HIDE DEF G
  <2>1. findFindingConflict(G) => findingMembers(G) # {}
    BY DEF findFindingConflict
  <2>2. findingMembers(G) \subseteq G
    BY DEF findingMembers
  <2> QED BY <1>6, <2>1, <2>2 DEF indexedOf
<1> QED BY <1>3, <1>4, <1>7

-----------------------------------------------------------------------------
(* The inductive invariant.                                                *)

IInv == TypeOK /\ NoAppendIsRefused /\ IndexMatchesLedger /\ FirstSeenIsOnePerKey

\* The step of a scan whose record rec reaches the store.
Appends(rec) ==
  /\ rec \in RecordType
  /\ \A r \in ledger : r.hash = rec.hash => r = rec
  /\ PutVulnerabilityRecord(rec)

\* What the same step does when the composition is not refused.
Stores(rec) ==
  LET v == Snap(rec).version
      f == rec.shape.rooting
  IN  /\ ledger' = ledger \cup {rec}
      /\ anchor' = IF rec \in ledger THEN anchor
                   ELSE [anchor EXCEPT ![rec.hash] = firstScannedAt(rec)]
      /\ index' = reconcileFindingsIndex(generationsOf(ledger \cup {rec}, v), v, f)
      /\ UNCHANGED <<member, refused>>

(* Every scan step appends some record.                                    *)
LEMMA ScanAppends ==
  ASSUME Scan
  PROVE  \E rec : Appends(rec)
<1>1. PICK s \in Shapes, t \in 1 .. MaxTime, h \in 1 .. MaxRows :
        LET rec == [shape |-> s, at |-> t, hash |-> h]
        IN  /\ \A r \in ledger : r.hash = h => r = rec
            /\ PutVulnerabilityRecord(rec)
  BY DEF Scan
<1> DEFINE rec == [shape |-> s, at |-> t, hash |-> h]
<1>2. rec \in RecordType /\ rec.hash = h
  BY DEF RecordType
<1>3. Appends(rec)
  BY <1>1, <1>2 DEF Appends
<1> QED BY <1>3

(* The append is never rolled back: its own frame has a row, the new one.  *)
LEMMA AppendStores ==
  ASSUME TypeOK, NEW rec, Appends(rec)
  PROVE  Stores(rec) /\ rec \in RecordType /\ (\A r \in ledger : r.hash = rec.hash => r = rec)
<1> DEFINE v == Snap(rec).version
           f == rec.shape.rooting
           gens == generationsOf(ledger \cup {rec}, v)
<1>1. /\ gens \in SUBSET RecordType /\ OneRowPerHash(gens) /\ rec \in gens
  BY DEF TypeOK, Appends, OneRowPerHash, generationsOf
<1>2. IndexedAt(gens, f) # {}
  BY <1>1, IndexOfFrame
<1> QED BY <1>2 DEF Appends, PutVulnerabilityRecord, Stores

(* An append keeps the types.                                              *)
LEMMA TypeStep ==
  ASSUME TypeOK, NEW rec, Appends(rec)
  PROVE  TypeOK'
<1> DEFINE v == Snap(rec).version
           f == rec.shape.rooting
           gens == generationsOf(ledger \cup {rec}, v)
<1>1. Stores(rec) /\ rec \in RecordType /\ (\A r \in ledger : r.hash = rec.hash => r = rec)
  BY AppendStores
<1>2. /\ v \in 0 .. MaxGeneration /\ f \in Rootings
      /\ rec.at \in 1 .. MaxTime /\ rec.hash \in 1 .. MaxRows
  BY <1>1, RecordFields
<1>3. gens \in SUBSET RecordType /\ OneRowPerHash(gens) /\ rec \in gens
  BY <1>1 DEF TypeOK, OneRowPerHash, generationsOf
<1>4. IndexedAt(gens, f) \subseteq RecordType
  <2>1. IndexedAt(gens, f) \subseteq frameRows(gens, f)
    BY <1>3, IndexOfFrame
  <2> QED BY <2>1, <1>3 DEF frameRows
<1>5. indexedFindingIDs(IndexedAt(gens, f)) \subseteq Advisories
  <2>1. \A r \in IndexedAt(gens, f) : r.shape.ids \subseteq Advisories
    BY <1>4, RecordFields
  <2> QED BY <2>1 DEF indexedFindingIDs
<1>6. (ledger \subseteq RecordType)' /\ (\A r, o \in ledger : r.hash = o.hash => r = o)'
  BY <1>1 DEF Stores, TypeOK
<1>7. firstScannedAt(rec) \in 0 .. MaxTime
  <2> DEFINE held == {anchor[r.hash] : r \in listGenerations(v)}
  <2>1. held \subseteq 0 .. MaxTime
    <3>1. \A r \in listGenerations(v) : r.hash \in 1 .. MaxRows
      BY RecordFields DEF listGenerations, generationsOf, TypeOK
    <3> QED BY <3>1 DEF TypeOK
  <2>2. CASE held = {}
    BY <2>2, <1>2 DEF firstScannedAt
  <2>3. CASE held # {}
    <3>1. \E t \in held : \A u \in held : t <= u
      <4> DEFINE g == [x \in held |-> x]
      <4>1. g \in [held -> Nat]
        BY <2>1
      <4> HIDE DEF held
      <4>2. PICK x \in held : \A y \in held : g[x] <= g[y]
        BY <2>3, <4>1, LeastValue
      <4> QED BY <4>2
    <3>2. (CHOOSE t \in held : \A u \in held : t <= u) \in held
      BY <3>1
    <3>3. firstScannedAt(rec) = CHOOSE t \in held : \A u \in held : t <= u
      BY <2>3 DEF firstScannedAt
    <3> QED BY <3>2, <3>3, <2>1
  <2> QED BY <2>2, <2>3
<1>8. (anchor \in [1 .. MaxRows -> 0 .. MaxTime])'
  <2>1. CASE rec \in ledger
    BY <2>1, <1>1 DEF Stores, TypeOK
  <2>2. CASE rec \notin ledger
    BY <2>2, <1>1, <1>2, <1>7 DEF Stores, TypeOK
  <2> QED BY <2>1, <2>2
<1>9. (index \subseteq [id : Advisories, version : 0 .. MaxGeneration, rooting : Rootings])'
  <2>1. \A id \in indexedFindingIDs(IndexedAt(gens, f)) :
          indexRow(id, v, f) \in [id : Advisories, version : 0 .. MaxGeneration, rooting : Rootings]
    BY <1>2, <1>5 DEF indexRow
  <2>2. index' = reconcileFindingsIndex(gens, v, f)
    BY <1>1 DEF Stores
  <2> HIDE DEF gens, v, f
  <2> QED BY <2>1, <2>2 DEF reconcileFindingsIndex, TypeOK
<1>10. (member \subseteq Walks \X (0 .. MaxGeneration) \X (0 .. MaxRows))' /\ (refused \subseteq 1 .. MaxRows)'
  BY <1>1 DEF Stores, TypeOK
<1> QED BY <1>6, <1>8, <1>9, <1>10 DEF TypeOK

(* An append keeps the index equal to the composition of every frame.      *)
LEMMA IndexStep ==
  ASSUME TypeOK, IndexMatchesLedger, NEW rec, Appends(rec)
  PROVE  IndexMatchesLedger'
<1> DEFINE v == Snap(rec).version
           f == rec.shape.rooting
           L == ledger \cup {rec}
           gens == generationsOf(L, v)
           idsAt(I, w, g) == {x.id : x \in {y \in I : y.version = w /\ y.rooting = g}}
<1>1. Stores(rec) /\ rec \in RecordType /\ (\A r \in ledger : r.hash = rec.hash => r = rec)
  BY AppendStores
<1>2. ledger' = L /\ index' = reconcileFindingsIndex(gens, v, f)
  BY <1>1 DEF Stores
<1>3. L \in SUBSET RecordType /\ OneRowPerHash(L)
  BY <1>1 DEF TypeOK, OneRowPerHash
<1>4. \A w : /\ generationsOf(L, w) \in SUBSET RecordType /\ OneRowPerHash(generationsOf(L, w))
             /\ generationsOf(ledger, w) \in SUBSET RecordType
             /\ OneRowPerHash(generationsOf(ledger, w))
  BY <1>3 DEF generationsOf, OneRowPerHash
<1>5. ASSUME NEW r \in L
      PROVE  idsAt(index', Snap(r).version, r.shape.rooting)
               = indexedFindingIDs(IndexedAt(generationsOf(L, Snap(r).version), r.shape.rooting))
  <2> DEFINE w == Snap(r).version
             g == r.shape.rooting
  <2>1. CASE w = v /\ g = f
    <3> DEFINE ids == indexedFindingIDs(IndexedAt(gens, f))
    <3>1. index' = {x \in index : x.version # v \/ x.rooting # f} \cup {indexRow(id, v, f) : id \in ids}
      BY <1>2 DEF reconcileFindingsIndex
    <3> HIDE DEF ids, gens, v, f
    <3>2. idsAt(index', v, f) = ids
      <4> DEFINE mine == {y \in index' : y.version = v /\ y.rooting = f}
      <4>1. mine = {indexRow(id, v, f) : id \in ids}
        BY <3>1 DEF indexRow
      <4>2. \A id \in ids : indexRow(id, v, f) \in mine /\ indexRow(id, v, f).id = id
        BY <4>1 DEF indexRow
      <4>3. \A x \in mine : x.id \in ids
        BY <4>1 DEF indexRow
      <4> HIDE DEF mine
      <4>4. {x.id : x \in mine} = ids
        BY <4>2, <4>3
      <4> QED BY <4>4 DEF mine
    <3> QED BY <2>1, <3>2 DEF ids, gens
  <2>2. CASE w # v \/ g # f
    <3>1. r \in ledger
      BY <2>2
    <3>2. idsAt(index', w, g) = idsAt(index, w, g)
      <4> DEFINE ids == indexedFindingIDs(IndexedAt(gens, f))
      <4>1. index' = {x \in index : x.version # v \/ x.rooting # f} \cup {indexRow(id, v, f) : id \in ids}
        BY <1>2 DEF reconcileFindingsIndex
      <4> HIDE DEF ids, gens, v, f, w, g
      <4> QED BY <4>1, <2>2 DEF indexRow
    <3>3. idsAt(index, w, g) = indexedFindingIDs(IndexedAt(generationsOf(ledger, w), g))
      BY <3>1 DEF IndexMatchesLedger, listGenerations
    <3>4. frameRows(generationsOf(L, w), g) = frameRows(generationsOf(ledger, w), g)
      BY <2>2 DEF frameRows, generationsOf
    <3>5. r \in generationsOf(ledger, w) /\ r \in generationsOf(L, w)
      BY <3>1 DEF generationsOf
    <3>6. IndexedAt(generationsOf(ledger, w), g)
            = indexedOf(indexRows(frameRows(generationsOf(ledger, w), g)))
      BY <1>4, <3>5, IndexOfFrame
    <3>7. IndexedAt(generationsOf(L, w), g)
            = indexedOf(indexRows(frameRows(generationsOf(L, w), g)))
      BY <1>4, <3>5, IndexOfFrame
    <3> QED BY <3>2, <3>3, <3>4, <3>6, <3>7
  <2> QED BY <2>1, <2>2
<1>6. ASSUME NEW x \in index'
      PROVE  \E r \in generationsOf(L, x.version) : r.shape.rooting = x.rooting
  <2>1. CASE x \in index
    <3>1. PICK r \in generationsOf(ledger, x.version) : r.shape.rooting = x.rooting
      BY <2>1 DEF IndexMatchesLedger, listGenerations
    <3> QED BY <3>1 DEF generationsOf
  <2>2. CASE x \notin index
    <3>1. x.version = v /\ x.rooting = f
      BY <2>2, <1>2 DEF reconcileFindingsIndex, indexRow
    <3>2. rec \in gens
      BY DEF generationsOf
    <3> QED BY <3>1, <3>2
  <2> QED BY <2>1, <2>2
<1> QED BY <1>2, <1>5, <1>6 DEF IndexMatchesLedger, listGenerations

(* An append keeps one first-seen time per key.                            *)
LEMMA FirstSeenStep ==
  ASSUME TypeOK, FirstSeenIsOnePerKey, NEW rec, Appends(rec)
  PROVE  FirstSeenIsOnePerKey'
<1> DEFINE v == Snap(rec).version
           held == {anchor[r.hash] : r \in listGenerations(v)}
<1>1. Stores(rec) /\ rec \in RecordType /\ (\A r \in ledger : r.hash = rec.hash => r = rec)
  BY AppendStores
<1>2. CASE rec \in ledger
  <2>1. ledger' = ledger /\ anchor' = anchor
    BY <1>1, <1>2 DEF Stores
  <2> QED BY <2>1 DEF FirstSeenIsOnePerKey
<1>3. CASE rec \notin ledger
  <2>1. ledger' = ledger \cup {rec} /\ anchor' = [anchor EXCEPT ![rec.hash] = firstScannedAt(rec)]
    BY <1>1, <1>3 DEF Stores
  <2>2. rec.hash \in 1 .. MaxRows
    BY <1>1, RecordFields
  <2>3. anchor'[rec.hash] = firstScannedAt(rec) /\ \A r \in ledger : anchor'[r.hash] = anchor[r.hash]
    <3>1. \A r \in ledger : r.hash # rec.hash /\ r.hash \in 1 .. MaxRows
      BY <1>1, <1>3, RecordFields DEF TypeOK
    <3> QED BY <2>1, <2>2, <3>1 DEF TypeOK
  <2>4. ASSUME NEW r \in ledger, Snap(r).version = v
        PROVE  firstScannedAt(rec) = anchor[r.hash]
    <3>1. anchor[r.hash] \in held
      BY <2>4 DEF listGenerations, generationsOf
    <3>2. \A a \in held : a = anchor[r.hash]
      BY <2>4 DEF FirstSeenIsOnePerKey, listGenerations, generationsOf
    <3>3. anchor[r.hash] \in 0 .. MaxTime
      BY RecordFields DEF TypeOK
    <3>4. firstScannedAt(rec) = CHOOSE t \in held : \A u \in held : t <= u
      BY <3>1 DEF firstScannedAt
    <3> HIDE DEF held
    <3>5. \E t \in held : \A u \in held : t <= u
      BY <3>1, <3>2, <3>3
    <3> QED BY <3>2, <3>4, <3>5
  <2> QED BY <2>1, <2>3, <2>4 DEF FirstSeenIsOnePerKey
<1> QED BY <1>2, <1>3

(* The invariant is inductive.                                             *)
LEMMA InvInductive == IInv /\ [Next]_vars => IInv'
<1> SUFFICES ASSUME IInv, [Next]_vars PROVE IInv'
  OBVIOUS
<1>1. TypeOK /\ NoAppendIsRefused /\ IndexMatchesLedger /\ FirstSeenIsOnePerKey
  BY DEF IInv
<1>2. CASE Scan
  <2>1. PICK rec : Appends(rec)
    BY <1>2, ScanAppends
  <2>2. Stores(rec)
    BY <1>1, <2>1, AppendStores
  <2>3. NoAppendIsRefused'
    BY <1>1, <2>2 DEF Stores, NoAppendIsRefused
  <2> QED BY <1>1, <2>1, <2>3, TypeStep, IndexStep, FirstSeenStep DEF IInv
<1>3. CASE \E w \in Walks, r \in ledger : PutWalkScanRun(w, r)
  <2>1. PICK w \in Walks, r \in ledger : PutWalkScanRun(w, r)
    BY <1>3
  <2>2. /\ member' = member \cup {<<w, Snap(r).version, r.hash>>}
        /\ ledger' = ledger /\ anchor' = anchor /\ index' = index /\ refused' = refused
    BY <2>1 DEF PutWalkScanRun
  <2>3. r.hash \in 1 .. MaxRows /\ Snap(r).version \in 0 .. MaxGeneration
    BY <1>1, RecordFields DEF TypeOK
  <2>4. TypeOK'
    BY <1>1, <2>2, <2>3 DEF TypeOK
  <2>5. NoAppendIsRefused' /\ IndexMatchesLedger' /\ FirstSeenIsOnePerKey'
    BY <1>1, <2>2 DEF NoAppendIsRefused, IndexMatchesLedger, FirstSeenIsOnePerKey, listGenerations
  <2> QED BY <2>4, <2>5 DEF IInv
<1>4. CASE UNCHANGED vars
  BY <1>1, <1>4 DEF vars, IInv, TypeOK, NoAppendIsRefused, IndexMatchesLedger, FirstSeenIsOnePerKey,
     listGenerations
<1> QED BY <1>2, <1>3, <1>4 DEF Next

(* It holds initially.                                                     *)
LEMMA InvInitial == Init => IInv
<1> SUFFICES ASSUME Init PROVE IInv
  OBVIOUS
<1>1. TypeOK
  <2>1. \A s \in Snapshots : s.version \in 0 .. MaxGeneration
    BY SnapshotsAreSnapshots DEF SnapshotType
  <2>2. member \subseteq Walks \X (0 .. MaxGeneration) \X (0 .. MaxRows)
    BY <2>1, BoundsAreNat DEF Init, NoHash
  <2> QED BY <2>2, BoundsAreNat DEF Init, TypeOK
<1>2. NoAppendIsRefused /\ IndexMatchesLedger /\ FirstSeenIsOnePerKey
  BY DEF Init, NoAppendIsRefused, IndexMatchesLedger, FirstSeenIsOnePerKey
<1> QED BY <1>1, <1>2 DEF IInv

LEMMA InvAlways == Spec => []IInv
  BY InvInitial, InvInductive, PTL DEF Spec

-----------------------------------------------------------------------------
(* The read by advisory.                                                   *)

(* byFindingRanksBefore decides every set of rows with distinct hashes.    *)
LEMMA SomeRecordRanksFirst ==
  ASSUME NEW R \in SUBSET RecordType, R # {}, OneRowPerHash(R)
  PROVE  \E r \in R : \A o \in R \ {r} : byFindingRanksBefore(r, o)
<1> DEFINE f1 == [r \in R |-> IF ReportsAdvisory(r) THEN 0 ELSE 1]
           f2 == [r \in R |-> IF Analysed(r) THEN 0 ELSE 1]
<1>0. f1 \in [R -> Nat] /\ f2 \in [R -> Nat]
  OBVIOUS
<1> HIDE DEF f1, f2
<1>1. PICK T1 : LeastPart(T1, R, f1)
  BY <1>0, Refine
<1>2. PICK T2 : LeastPart(T2, T1, f2)
  <2>1. T1 \subseteq R /\ T1 # {}
    BY <1>1 DEF LeastPart
  <2> QED BY <1>0, <2>1, Refine
<1>3. T1 \subseteq R /\ T2 \subseteq T1 /\ T2 # {} /\ T2 \in SUBSET RecordType /\ OneRowPerHash(T2)
  BY <1>1, <1>2 DEF LeastPart, OneRowPerHash
<1>4. PICK r \in T2 : \A o \in T2 \ {r} : newerScan(r, o)
  BY <1>3, SomeRecordIsNewest
<1>5. ASSUME NEW o \in R \ {r}
      PROVE  byFindingRanksBefore(r, o)
  <2>1. CASE o \notin T1
    <3>1. f1[r] < f1[o]
      BY <2>1, <1>1, <1>3, <1>4 DEF LeastPart
    <3> QED BY <3>1, <1>3 DEF f1, byFindingRanksBefore
  <2>2. CASE o \in T1 \ T2
    <3>1. f1[r] = f1[o] /\ f2[r] < f2[o]
      BY <2>2, <1>1, <1>2, <1>3 DEF LeastPart
    <3> QED BY <3>1, <1>3 DEF f1, f2, byFindingRanksBefore, ReportsAdvisory, Analysed
  <2>3. CASE o \in T2
    <3>1. f1[r] = f1[o] /\ f2[r] = f2[o]
      BY <2>3, <1>1, <1>2, <1>3 DEF LeastPart
    <3>2. newerScan(r, o)
      BY <2>3, <1>4
    <3> QED BY <3>1, <3>2, <1>3 DEF f1, f2, byFindingRanksBefore, newerScan, ReportsAdvisory, Analysed
  <2> QED BY <2>1, <2>2, <2>3
<1> QED BY <1>3, <1>5

(* What a group answers is one of its rows.                                *)
LEMMA ComposeIsARow ==
  ASSUME NEW G \in SUBSET RecordType, OneRowPerHash(G)
  PROVE  Compose(G) \subseteq G
<1>1. CASE G = {} \/ compositionRefusal(G)
  BY <1>1 DEF Compose
<1>2. CASE ~(G = {} \/ compositionRefusal(G))
  <2>1. best(G) \in G
    BY <1>2, BestServes
  <2> QED BY <1>2, <2>1 DEF Compose
<1> QED BY <1>1, <1>2

(* The candidates of a question are rows of the ledger.                    *)
LEMMA CandidatesAreRows ==
  ASSUME NEW w, NEW f
  PROVE  servedFor(w, f) \subseteq ledger
<1>1. indexGroup(ledger, f) \subseteq ledger
  BY DEF indexGroup, atRooting
<1>2. \A g : inFrame(moduleInWalkRows(w), g) \subseteq ledger
  BY DEF inFrame, atRooting, isolatedOnly, moduleInWalkRows
<1> QED BY <1>1, <1>2 DEF servedFor

(* A record the read serves with the advisory is listed, or yields to one  *)
(* that ranks before it; onePerCoordinate never leaves the module out.     *)
LEMMA CarryingIsNotLost ==
  ASSUME TypeOK, NEW w, NEW id,
         NEW f \in IF w = NoWalk THEN byFindingGenerations(id) ELSE byFindingInWalk(id, w),
         NEW s \in Compose(servedFor(w, f)), id \in s.shape.ids
  PROVE  NotLost(s, id, w)
<1> DEFINE frames == IF w = NoWalk THEN byFindingGenerations(id) ELSE byFindingInWalk(id, w)
           served == UNION {Compose(servedFor(w, g)) : g \in frames}
           carrying == {r \in served : id \in r.shape.ids}
           read == ListVulnerabilityRecordsByFindingID(id, w)
<1>1. \A g \in frames : Compose(servedFor(w, g)) \subseteq ledger
  <2> SUFFICES ASSUME NEW g \in frames PROVE Compose(servedFor(w, g)) \subseteq ledger
    OBVIOUS
  <2>1. servedFor(w, g) \subseteq ledger
    BY CandidatesAreRows
  <2>2. servedFor(w, g) \in SUBSET RecordType /\ OneRowPerHash(servedFor(w, g))
    BY <2>1 DEF TypeOK, OneRowPerHash
  <2> QED BY <2>1, <2>2, ComposeIsARow
<1>2. carrying \subseteq ledger /\ s \in carrying
  BY <1>1
<1>3. carrying \in SUBSET RecordType /\ OneRowPerHash(carrying) /\ carrying # {}
  BY <1>2 DEF TypeOK, OneRowPerHash
<1> HIDE DEF carrying
<1>4. PICK t \in carrying : \A o \in carrying \ {t} : byFindingRanksBefore(t, o)
  BY <1>3, SomeRecordRanksFirst
<1>5. t \in onePerCoordinate(carrying) /\ id \in t.shape.ids
  BY <1>4 DEF onePerCoordinate, carrying
<1>6. t = s \/ byFindingRanksBefore(t, s)
  BY <1>2, <1>4
<1>7. read.err \/ read.records = onePerCoordinate(carrying)
  BY DEF ListVulnerabilityRecordsByFindingID, carrying
<1> QED BY <1>5, <1>6, <1>7 DEF NotLost

(* The index lists every advisory of a record its key and frame describe.  *)
LEMMA IndexedIfServed ==
  ASSUME TypeOK, IndexMatchesLedger, NEW s \in ledger,
         NEW b \in IndexedAt(listGenerations(Snap(s).version), s.shape.rooting),
         NEW id \in b.shape.ids
  PROVE  IndexedFor(id, s)
<1> DEFINE v == Snap(s).version
           f == s.shape.rooting
<1>1. {x.id : x \in {y \in index : y.version = v /\ y.rooting = f}}
        = indexedFindingIDs(IndexedAt(listGenerations(v), f))
  BY DEF IndexMatchesLedger
<1>2. id \in indexedFindingIDs(IndexedAt(listGenerations(v), f))
  BY DEF indexedFindingIDs
<1>3. PICK x \in index : x.version = v /\ x.rooting = f /\ x.id = id
  BY <1>1, <1>2
<1>4. x = [id |-> x.id, version |-> x.version, rooting |-> x.rooting]
  BY <1>3 DEF TypeOK
<1> QED BY <1>3, <1>4 DEF IndexedFor, indexRow

(* What a walk's question is answered from is every row the walk reaches   *)
(* in the frame of the record it serves, and asking in that frame gives    *)
(* the same candidates.                                                    *)
LEMMA WalkFrameIsAsked ==
  ASSUME NEW R, NEW row, NEW s \in inFrame(R, walkFrame(R, row))
  PROVE  LET G == inFrame(R, walkFrame(R, row))
         IN  /\ G = frameRows(R, s.shape.rooting)
             /\ inFrame(R, walkFrame(R, s.shape.rooting)) = G
<1> DEFINE h == walkFrame(R, row)
           g == s.shape.rooting
           G == inFrame(R, h)
<1>0. s \in G
  OBVIOUS
<1>1. G = frameRows(R, g)
  <2>1. CASE atRooting(R, h) # {}
    <3>1. G = atRooting(R, h)
      BY <2>1 DEF inFrame
    <3> HIDE DEF G, h
    <3>2. CASE \A r \in R : r.shape.rooting = Unrecorded
      BY <1>0, <3>1, <3>2 DEF atRooting, frameRows
    <3>3. CASE ~\A r \in R : r.shape.rooting = Unrecorded
      BY <1>0, <3>1, <3>3 DEF atRooting, frameRows
    <3> QED BY <3>2, <3>3
  <2>2. CASE atRooting(R, h) = {}
    <3>1. G = atRooting(isolatedOnly(R), RootingIsolated)
      BY <2>2 DEF inFrame
    <3> HIDE DEF G, h
    <3>2. G = isolatedOnly(R)
      BY <3>1 DEF atRooting, isolatedOnly
    <3> QED BY <1>0, <3>2 DEF isolatedOnly, frameRows
  <2> QED BY <2>1, <2>2
<1>2. inFrame(R, walkFrame(R, g)) = G
  <2>1. CASE walkFrame(R, g) = h
    BY <2>1
  <2>2. CASE walkFrame(R, g) = g
    <3>1. s \in frameRows(R, g)
      BY <1>1
    <3>2. s \in R
      BY <3>1 DEF frameRows
    <3>3. atRooting(R, g) = frameRows(R, g)
      BY <3>2, FrameIsItsRows
    <3> HIDE DEF G
    <3> QED BY <2>2, <3>1, <3>3, <1>1 DEF inFrame
  <2>3. walkFrame(R, g) = h \/ walkFrame(R, g) = g
    BY DEF walkFrame
  <2> QED BY <2>1, <2>2, <2>3
<1> QED BY <1>1, <1>2

(* Rows that say what the record served says, of its question, do not      *)
(* change what the index of its key and frame lists.                       *)
LEMMA SameAnswerSameIndex ==
  ASSUME NEW G \in SUBSET RecordType, OneRowPerHash(G), G # {}, ~compositionRefusal(G),
         ReportsAdvisory(best(G)),
         \A r \in G : r.shape.rooting = best(G).shape.rooting,
         NEW K \in SUBSET RecordType, OneRowPerHash(K),
         \A r \in G : Snap(r).version = Snap(best(G)).version => r \in K,
         \A r \in K \ G : r.shape.rooting = best(G).shape.rooting /\ Answer(r) = Answer(best(G))
  PROVE  \E b \in indexedOf(indexRows(K)) : b.shape.ids = best(G).shape.ids
<1> DEFINE s == best(G)
           b == best(K)
<1>1. s \in G /\ s \in K
  BY BestServes
<1>2. b \in K
  BY <1>1, BestServes
<1>3. ASSUME NEW S \in SUBSET K, s \in S
      PROVE  best(S) \in S /\ (best(S) = s \/ Answer(best(S)) = Answer(s))
  <2>1. S \in SUBSET RecordType /\ S # {} /\ OneRowPerHash(S)
    BY <1>3 DEF OneRowPerHash
  <2>2. best(S) \in S
    BY <2>1, BestServes
  <2>3. CASE best(S) \notin G
    BY <2>2, <2>3
  <2>4. CASE best(S) \in G
    <3> DEFINE T == S \cap G
    <3>1. best(T) = best(S)
      BY <2>1, <2>2, <2>4, BestOfSubset
    <3>2. best(T) = s
      BY <1>1, <1>3, BestOfSubset
    <3> QED BY <2>2, <3>1, <3>2
  <2> QED BY <2>2, <2>3, <2>4
<1>4. Answer(b) = Answer(s)
  BY <1>1, <1>3
<1>5. /\ verdictDigest(b) = verdictDigest(s) /\ Snap(b) = Snap(s)
      /\ b.shape.toolchain = s.shape.toolchain
  BY <1>4 DEF Answer
<1>6. b.shape.coverage = s.shape.coverage /\ b.shape.ids = s.shape.ids
  BY <1>5 DEF verdictDigest
<1>7. \A r \in G : sameSnapshot(Snap(r), Snap(s)) => r \in K
  BY DEF sameSnapshot
<1>8. \A r \in K \ G : /\ verdictDigest(r) = verdictDigest(s) /\ Snap(r) = Snap(s)
                        /\ r.shape.toolchain = s.shape.toolchain
                        /\ r.shape.ids = s.shape.ids /\ r.shape.coverage = s.shape.coverage
  BY DEF Answer, verdictDigest
<1> DEFINE C == toolchainClaims(K)
           D == toolchainClaims(G)
           repC(t) == best({r \in C : r.shape.toolchain = t})
           repD(t) == best({r \in D : r.shape.toolchain = t})
<1>9. ~findToolchainConflict(K)
  <2>1. D \subseteq C /\ C \subseteq K /\ D \subseteq G
    <3>1. \A r \in D : r \in G /\ r.shape.toolchain # NoToolchain
                       /\ sameSnapshot(Snap(r), Snap(s)) /\ claimsAVerdict(r)
      BY DEF toolchainClaims
    <3>2. C \subseteq K
      BY DEF toolchainClaims
    <3> QED BY <3>1, <3>2, <1>5, <1>7 DEF toolchainClaims
  <2>2. \A r \in C : r \in D \/ (r \in K \ G /\ r.shape.toolchain = s.shape.toolchain)
    <3>1. \A r \in C : r.shape.toolchain # NoToolchain
                       /\ sameSnapshot(Snap(r), Snap(s)) /\ claimsAVerdict(r)
      BY <1>5 DEF toolchainClaims
    <3> QED BY <2>1, <3>1, <1>8 DEF toolchainClaims
  <2>3. s.shape.toolchain # NoToolchain => s \in D
    BY <1>1 DEF toolchainClaims, sameSnapshot, claimsAVerdict
  <2>4. \A r \in C : s.shape.toolchain = r.shape.toolchain => s \in D
    BY <2>3 DEF toolchainClaims
  <2>5. \A r, o \in D : verdictDigest(repD(r.shape.toolchain)) = verdictDigest(repD(o.shape.toolchain))
    BY DEF compositionRefusal, findToolchainConflict, sameVerdicts
  <2> HIDE DEF C, D
  <2>6. ASSUME NEW r \in C
        PROVE  \E o \in D : verdictDigest(repC(r.shape.toolchain)) = verdictDigest(repD(o.shape.toolchain))
    <3> DEFINE t == r.shape.toolchain
               S == {o \in C : o.shape.toolchain = t}
               T == {o \in D : o.shape.toolchain = t}
    <3>1. CASE t = s.shape.toolchain
      <4>1. s \in D /\ s \in S /\ s \in T
        BY <3>1, <2>1, <2>4
      <4>2. best(S) = s \/ Answer(best(S)) = Answer(s)
        BY <4>1, <2>1, <1>3
      <4>3. verdictDigest(best(S)) = verdictDigest(s)
        BY <4>2 DEF Answer
      <4>4. T \in SUBSET G
        BY <2>1
      <4>5. best(T) = s
        BY <4>1, <4>4, BestOfSubset
      <4> QED BY <3>1, <4>1, <4>3, <4>5
    <3>2. CASE t # s.shape.toolchain
      <4>1. S = T /\ r \in D
        BY <3>2, <2>1, <2>2
      <4> QED BY <4>1
    <3> QED BY <3>1, <3>2
  <2>7. \A r, o \in C : verdictDigest(repC(r.shape.toolchain)) = verdictDigest(repC(o.shape.toolchain))
    BY <2>5, <2>6
  <2> QED BY <2>7 DEF findToolchainConflict, sameVerdicts, C
<1>10. ~findFindingConflict(K)
  <2>1. \A r \in findingMembers(K) : r \in findingMembers(G) \/ r.shape.ids = s.shape.ids
    <3>1. \A r \in findingMembers(K) \cap G : r \in findingMembers(G)
      BY <1>5, <1>6 DEF findingMembers, claimsFindings, Analysed, ReportsAdvisory
    <3>2. findingMembers(K) \subseteq K
      BY DEF findingMembers
    <3> QED BY <3>1, <3>2, <1>8
  <2>2. findingMembers(K) # {} => s \in findingMembers(G)
    <3>1. findingMembers(K) # {} => claimsFindings(b)
      BY DEF findingMembers
    <3>2. claimsFindings(b) => claimsFindings(s)
      BY <1>6 DEF claimsFindings, Analysed, ReportsAdvisory
    <3>3. claimsFindings(s) => s \in findingMembers(G)
      BY <1>1 DEF findingMembers, sameSnapshot
    <3> QED BY <3>1, <3>2, <3>3
  <2>3. \A r \in findingMembers(G) : s \in findingMembers(G) => r.shape.ids = s.shape.ids
    BY DEF compositionRefusal, findFindingConflict
  <2> QED BY <2>1, <2>2, <2>3 DEF findFindingConflict
<1>11. indexedOf(indexRows(K)) = {b}
  BY <1>9, <1>10 DEF indexedOf, indexRows
<1> QED BY <1>6, <1>11

-----------------------------------------------------------------------------
(* The theorems.                                                           *)

(* The tables stay well formed and one content hash names one row          *)
(* (PutVulnerabilityRecord's insert, the primary keys of the schema).      *)
THEOREM TypeCorrect == Spec => []TypeOK
<1>1. IInv => TypeOK
  BY DEF IInv
<1> QED BY <1>1, InvAlways, PTL

(* However scans are interleaved, PutVulnerabilityRecord never rolls an    *)
(* append back because of a toolchain or a finding conflict.               *)
THEOREM AppendsAreKept == Spec => []NoAppendIsRefused
<1>1. IInv => NoAppendIsRefused
  BY DEF IInv
<1> QED BY <1>1, InvAlways, PTL

(* The rows reconcileFindingsIndex maintains are, for every key and frame, *)
(* exactly what that frame's composition serves.                           *)
THEOREM IndexIsTrue == Spec => []IndexMatchesLedger
<1>1. IInv => IndexMatchesLedger
  BY DEF IInv
<1> QED BY <1>1, InvAlways, PTL

(* firstScannedAt gives every row of a key one anchor, whatever the order  *)
(* in which the records were appended.                                     *)
THEOREM OneFirstSeenPerKey == Spec => []FirstSeenIsOnePerKey
<1>1. IInv => FirstSeenIsOnePerKey
  BY DEF IInv
<1> QED BY <1>1, InvAlways, PTL

(* No served finding is missing from ListVulnerabilityRecordsByFindingID:  *)
(* the rows that decide a frame's answer across every snapshot are rows of *)
(* the key of the record served, so that key's index lists its advisories. *)
THEOREM ServedIsListed == Spec => []ServedAdvisoryIsListed
<1>1. ASSUME IInv PROVE ServedAdvisoryIsListed
  <2> SUFFICES ASSUME NEW f \in {r.shape.rooting : r \in ledger},
                      NEW s \in ComposeAt(ledger, f), NEW id \in s.shape.ids
               PROVE  NotLost(s, id, NoWalk)
    BY DEF ServedAdvisoryIsListed
  <2> DEFINE G == frameRows(ledger, f)
             v == Snap(s).version
             gens == generationsOf(ledger, v)
             K == frameRows(gens, f)
  <2>1. TypeOK /\ IndexMatchesLedger
    BY <1>1 DEF IInv
  <2>2. G \in SUBSET RecordType /\ OneRowPerHash(G) /\ G # {}
    BY <2>1 DEF TypeOK, OneRowPerHash, frameRows
  <2>3. atRooting(ledger, f) = G
    BY FrameIsItsRows
  <2>4. ~compositionRefusal(G) /\ s = best(G)
    BY <2>2, <2>3 DEF ComposeAt, Compose
  <2>5. s \in G
    BY <2>2, <2>4, BestServes
  <2>6. s \in ledger /\ s.shape.rooting = f
    BY <2>5 DEF frameRows
  <2>7. K = {r \in G : Snap(r).version = v} /\ s \in K /\ K \in SUBSET G
    BY <2>5 DEF frameRows, generationsOf
  <2>8. best(K) = best(G)
    BY <2>2, <2>4, <2>7, BestOfSubset
  <2>9. toolchainClaims(K) = toolchainClaims(G)
    <3> HIDE DEF G, K
    <3>1. \A r \in G : sameSnapshot(Snap(r), Snap(s)) => r \in K
      BY <2>7 DEF sameSnapshot
    <3> QED BY <3>1, <2>4, <2>7, <2>8 DEF toolchainClaims
  <2>10. findingMembers(K) = findingMembers(G)
    <3> HIDE DEF G, K
    <3>1. \A r \in G : sameSnapshot(Snap(r), Snap(s)) => r \in K
      BY <2>7 DEF sameSnapshot
    <3> QED BY <3>1, <2>4, <2>7, <2>8 DEF findingMembers
  <2>11. ~findToolchainConflict(G) /\ ~findFindingConflict(G)
    BY <2>4 DEF compositionRefusal
  <2>12. ~findToolchainConflict(K) /\ ~findFindingConflict(K)
    BY <2>9, <2>10, <2>11 DEF findToolchainConflict, findFindingConflict
  <2>13. IndexedAt(gens, f) = {s}
    <3>1. gens \in SUBSET RecordType /\ OneRowPerHash(gens) /\ \E r \in gens : r.shape.rooting = f
      BY <2>1, <2>6 DEF TypeOK, OneRowPerHash, generationsOf
    <3>2. IndexedAt(gens, f) = indexedOf(indexRows(K))
      BY <3>1, IndexOfFrame
    <3> HIDE DEF K
    <3> QED BY <3>2, <2>4, <2>8, <2>12 DEF indexedOf, indexRows
  <2>14. IndexedFor(id, s)
    <3>1. s \in IndexedAt(listGenerations(v), f)
      BY <2>13 DEF listGenerations
    <3> QED BY <2>1, <2>6, <3>1, IndexedIfServed
  <2>15. f \in byFindingGenerations(id)
    BY <2>6, <2>14 DEF byFindingGenerations
  <2>16. s \in Compose(servedFor(NoWalk, f))
    <3>1. servedFor(NoWalk, f) = G
      BY <2>3, <2>11 DEF servedFor, indexGroup
    <3> HIDE DEF G
    <3> QED BY <3>1, <2>2, <2>4 DEF Compose
  <2> QED BY <2>1, <2>15, <2>16, CarryingIsNotLost
<1> QED BY <1>1, InvAlways, PTL

(* Append-only generations with the finding first in servesBefore: a later *)
(* row never turns a frame's finding into an all-clear.                    *)
THEOREM FindingsStand == Spec => FindingNeverDecays
<1> DEFINE Kept ==
      \A f \in {r.shape.rooting : r \in ledger} : \A s \in ComposeAt(ledger, f) :
        ReportsAdvisory(s) => \A t \in ComposeAt(ledger', f) : ReportsAdvisory(t)
<1>1. ASSUME IInv, IInv', [Next]_vars PROVE Kept
  <2> SUFFICES ASSUME NEW f \in {r.shape.rooting : r \in ledger},
                      NEW s \in ComposeAt(ledger, f), ReportsAdvisory(s),
                      NEW t \in ComposeAt(ledger', f)
               PROVE  ReportsAdvisory(t)
    OBVIOUS
  <2>1. ledger \subseteq ledger'
    <3>1. CASE Scan
      <4>1. PICK rec : Appends(rec)
        BY <3>1, ScanAppends
      <4>2. Stores(rec)
        BY <1>1, <4>1, AppendStores DEF IInv
      <4> QED BY <4>2 DEF Stores
    <3>2. CASE \E w \in Walks, r \in ledger : PutWalkScanRun(w, r)
      BY <3>2 DEF PutWalkScanRun
    <3>3. CASE UNCHANGED vars
      BY <3>3 DEF vars
    <3> QED BY <1>1, <3>1, <3>2, <3>3 DEF Next
  <2>2. ledger \in SUBSET RecordType /\ ledger' \in SUBSET RecordType
        /\ OneRowPerHash(ledger) /\ OneRowPerHash(ledger')
    BY <1>1 DEF IInv, TypeOK, OneRowPerHash
  <2>3. s \in ledger /\ s.shape.rooting = f
    <3>1. atRooting(ledger, f) # {} /\ s = best(atRooting(ledger, f))
      BY DEF ComposeAt, Compose
    <3>2. /\ atRooting(ledger, f) \subseteq ledger
          /\ \A r \in atRooting(ledger, f) : r.shape.rooting = f
      BY FrameIsItsRows DEF frameRows
    <3>3. atRooting(ledger, f) \in SUBSET RecordType /\ OneRowPerHash(atRooting(ledger, f))
      BY <2>2, <3>2 DEF OneRowPerHash
    <3>4. best(atRooting(ledger, f)) \in atRooting(ledger, f)
      BY <3>1, <3>3, BestServes
    <3> QED BY <3>1, <3>2, <3>4
  <2> DEFINE G == frameRows(ledger', f)
  <2>4. s \in G /\ G \in SUBSET RecordType /\ OneRowPerHash(G)
    BY <2>1, <2>2, <2>3 DEF frameRows, OneRowPerHash
  <2>5. atRooting(ledger', f) = G
    BY <2>4, FrameIsItsRows DEF frameRows
  <2>6. t = best(G)
    BY <2>4, <2>5 DEF ComposeAt, Compose
  <2>7. t = s \/ servesBefore(t, s)
    BY <2>4, <2>6, BestServes
  <2> QED BY <2>7 DEF servesBefore
<1>2. IInv /\ IInv' /\ [Next]_vars => [Kept]_vars
  BY <1>1
<1> QED BY <1>2, InvAlways, PTL DEF Spec, FindingNeverDecays

(* ListVulnerabilityRecordsByFindingID in one walk finds every advisory    *)
(* the walk's own read serves, unless a record of the same key and frame   *)
(* that no run of the walk reaches said otherwise: the index of that key   *)
(* then lists what the walk's record says, and the walk's frame is the     *)
(* frame the question is asked in.                                         *)
THEOREM WalkAdvisoriesListed == Spec => []WalkAdvisoryIsListed
<1>1. ASSUME IInv PROVE WalkAdvisoryIsListed
  <2> SUFFICES ASSUME NEW w \in Walks, NEW row, NEW s \in Compose(servedFor(w, row)),
                      NEW id \in s.shape.ids, ~SaidOtherwise(s, moduleInWalkRows(w))
               PROVE  NotLost(s, id, w)
    BY DEF WalkAdvisoryIsListed
  <2> DEFINE R == moduleInWalkRows(w)
             g == s.shape.rooting
             G == servedFor(w, row)
             v == Snap(s).version
             gens == listGenerations(v)
             K == frameRows(gens, g)
  <2>1. TypeOK /\ IndexMatchesLedger /\ w # NoWalk
    BY <1>1, WalksAreNamed DEF IInv
  <2>2. R \subseteq ledger
    BY DEF moduleInWalkRows
  <2>3. G = inFrame(R, walkFrame(R, row))
    BY <2>1 DEF servedFor
  <2>4. G \in SUBSET RecordType /\ OneRowPerHash(G) /\ G \subseteq ledger
    BY <2>1, CandidatesAreRows DEF TypeOK, OneRowPerHash
  <2> HIDE DEF G
  <2>5. G # {} /\ ~compositionRefusal(G) /\ s = best(G)
    BY DEF Compose, G
  <2>6. s \in G
    BY <2>4, <2>5, BestServes
  <2>7. G = frameRows(R, g) /\ inFrame(R, walkFrame(R, g)) = G
    BY <2>3, <2>6, WalkFrameIsAsked
  <2>8. s \in R /\ s \in ledger /\ ReportsAdvisory(s)
    BY <2>2, <2>6, <2>7 DEF frameRows, ReportsAdvisory
  <2>9. gens \in SUBSET RecordType /\ OneRowPerHash(gens) /\ s \in gens
    BY <2>1, <2>8 DEF TypeOK, OneRowPerHash, listGenerations, generationsOf
  <2>10. K \in SUBSET RecordType /\ OneRowPerHash(K)
    BY <2>9 DEF frameRows, OneRowPerHash
  <2>11. \A r \in G : r.shape.rooting = g /\ (Snap(r).version = v => r \in K)
    BY <2>4, <2>7 DEF frameRows, listGenerations, generationsOf
  <2>12. \A r \in K \ G : r.shape.rooting = g /\ Answer(r) = Answer(s)
    <3>1. \A r \in K \ G : r \in gens \ R /\ r.shape.rooting = g
      BY <2>7 DEF frameRows
    <3> QED BY <3>1 DEF SaidOtherwise
  <2>13. PICK b \in indexedOf(indexRows(K)) : b.shape.ids = s.shape.ids
    <3> HIDE DEF K, v, g
    <3> QED BY <2>4, <2>5, <2>8, <2>10, <2>11, <2>12, SameAnswerSameIndex DEF v, g
  <2>14. b \in IndexedAt(gens, g)
    BY <2>9, <2>13, IndexOfFrame
  <2>15. IndexedFor(id, s)
    BY <2>1, <2>8, <2>13, <2>14, IndexedIfServed
  <2>16. g \in byFindingInWalk(id, w)
    BY <2>8, <2>15 DEF byFindingInWalk
  <2>17. s \in Compose(servedFor(w, g))
    BY <2>1, <2>7 DEF servedFor, G
  <2> QED BY <2>1, <2>16, <2>17, CarryingIsNotLost
<1> QED BY <1>1, InvAlways, PTL

(* The ledger takes every completed scan and dates each key once.          *)
THEOREM LedgerSound == Spec => []LedgerIsSound
<1>1. IInv => LedgerIsSound
  BY DEF IInv, LedgerIsSound
<1> QED BY <1>1, InvAlways, PTL
=============================================================================
