----------------------------- MODULE VulnLedger -----------------------------
(***************************************************************************)
(* The vulnerability record ledger: append-only generations of one module  *)
(* version at one pipeline version, the findings index the by-advisory     *)
(* read resolves through, and the composition that picks the generation a  *)
(* read serves (internal/vuln/adapters/store/sqlite, internal/vuln/domain  *)
(* compose.go, finding_conflict.go, toolchain_conflict.go).                *)
(*                                                                         *)
(* Every write is one SQLite transaction, so a write is one action.  Scans *)
(* of several processes and walks are interleaved in every order: a record *)
(* is stamped when its scan ends and appended later, so the append order   *)
(* and the order of the time stamps are unrelated.  A content hash is a    *)
(* number no two records share; its order stands for the order of the hash *)
(* strings, which means nothing.                                           *)
(***************************************************************************)
EXTENDS Integers, FiniteSets

CONSTANTS
  Shapes,      \* what a scan may report: a set of Shape records
  Advisories,  \* the advisory identifiers
  Toolchains,  \* the Go toolchains that scan
  Targets,     \* the modules an analysis can be rooted at
  Snapshots,   \* the advisory database generations
  Walks,       \* the walks whose scan runs name records
  MaxRows,     \* bound on the generations appended
  MaxTime,     \* bound on the clock
  MaxGeneration, \* bound on the generations of the advisory database
  MaxRuns      \* bound on the membership rows of the walks' scan runs

Unrecorded == [kind |-> "unrecorded"]
RootingIsolated == [kind |-> "isolated"]
TargetRootedAt(t) == [kind |-> "target-rooted", target |-> t]
Rootings == {Unrecorded, RootingIsolated} \cup {TargetRootedAt(t) : t \in Targets}
IsTargetRooted(f) == f.kind = "target-rooted"

NoToolchain == "unnamed"
NoHash == 0    \* a membership row written before the column was kept
NoWalk == ""   \* a read across the store
Coverages == {"Analysed", "Unscannable", "Failed"}
Rungs == 0 .. 4

\* A snapshot has the generation it names, the digest of its content (0 when the
\* row was written before the digest was kept) and the time it was retrieved.
SnapshotType == [version : 0 .. MaxGeneration, hash : Nat, retrieved : 0 .. MaxTime]

\* A scan's answer: coverage axis, the advisories it reports, whether they are
\* reachable, the call-graph completeness rung, and the question it answers.
ShapeType == [coverage : Coverages, ids : SUBSET Advisories, reach : BOOLEAN,
              rung : Rungs, snapshot : Snapshots,
              toolchain : Toolchains \cup {NoToolchain}, rooting : Rootings]

ASSUME ShapesAreShapes == Shapes \subseteq ShapeType
ASSUME SnapshotsAreSnapshots == Snapshots \subseteq SnapshotType
ASSUME ToolchainsAreNamed == NoToolchain \notin Toolchains
ASSUME WalksAreNamed == NoWalk \notin Walks
ASSUME BoundsAreNat ==
  MaxRows \in Nat /\ MaxTime \in Nat /\ MaxRuns \in Nat /\ MaxGeneration \in Nat

RecordType == [shape : Shapes, at : 1 .. MaxTime, hash : 1 .. MaxRows]

VARIABLES
  ledger,  \* the rows of vulnerability_records
  anchor,  \* first_scanned_at of each row, by content hash
  index,   \* the rows of vulnerability_findings_index
  member,  \* the rows of walk_scan_run_modules: <<walk, key, record content hash>>
  refused  \* the content hashes whose append was rolled back

vars == <<ledger, anchor, index, member, refused>>

-----------------------------------------------------------------------------
(* The serving order (compose.go).  `ids` stands for the findings a record   *)
(* kept, so the findings axis reports an advisory exactly when it is         *)
(* non-empty: Affected, Withdrawn and Inconclusive share the first tier.     *)

ReportsAdvisory(r) == r.shape.ids # {}
Analysed(r) == r.shape.coverage = "Analysed"
Snap(r) == r.shape.snapshot

\* Mutant: the newest scan is served, whatever it found.
servesBefore_recency(a, b) == IF a.at # b.at THEN a.at > b.at ELSE a.hash < b.hash

\* The ladder: finding, coverage, call-graph completeness, newer database,
\* newer scan, and the hash so that the answer is independent of row order.
servesBefore(a, b) ==
  IF ReportsAdvisory(a) # ReportsAdvisory(b) THEN ReportsAdvisory(a)
  ELSE IF Analysed(a) # Analysed(b) THEN Analysed(a)
  ELSE IF a.shape.rung # b.shape.rung THEN a.shape.rung > b.shape.rung
  ELSE IF Snap(a).retrieved # Snap(b).retrieved THEN Snap(a).retrieved > Snap(b).retrieved
  ELSE IF Snap(a).version # Snap(b).version THEN Snap(a).version > Snap(b).version
  ELSE IF a.at # b.at THEN a.at > b.at
  ELSE a.hash < b.hash

best(R) == CHOOSE r \in R : \A o \in R \ {r} : servesBefore(r, o)

newerScan(a, b) == IF a.at # b.at THEN a.at > b.at ELSE a.hash < b.hash

sameSnapshot(s, t) ==
  s.version = t.version /\ (s.hash = 0 \/ t.hash = 0 \/ s.hash = t.hash)

claimsAVerdict(r) == Analysed(r) \/ ReportsAdvisory(r)
claimsFindings(r) == Analysed(r) /\ ReportsAdvisory(r)
verdictDigest(r) == <<r.shape.coverage, r.shape.ids, r.shape.reach>>

\* The rows that take part: a named toolchain, the served snapshot, some claim.
toolchainClaims(R) ==
  {r \in R : /\ r.shape.toolchain # NoToolchain
             /\ sameSnapshot(Snap(r), Snap(best(R)))
             /\ claimsAVerdict(r)}

\* Each toolchain is represented by its best row, and they all say the same.
sameVerdicts(claims) ==
  LET rep(t) == best({r \in claims : r.shape.toolchain = t})
  IN  \A r, o \in claims :
        verdictDigest(rep(r.shape.toolchain)) = verdictDigest(rep(o.shape.toolchain))

findToolchainConflict(R) == ~sameVerdicts(toolchainClaims(R))

\* The records that answer the served record's own question with findings.
findingMembers(R) ==
  LET served == best(R)
  IN  {r \in R : /\ claimsFindings(served) /\ claimsFindings(r)
                 /\ sameSnapshot(Snap(r), Snap(served))
                 /\ r.shape.rooting = served.shape.rooting
                 /\ r.shape.toolchain = served.shape.toolchain}

findFindingConflict(R) ==
  \E r, o \in findingMembers(R) : r.shape.ids # o.shape.ids

compositionRefusal(R) == findToolchainConflict(R) \/ findFindingConflict(R)

\* The candidates of one frame; rows that state no frame compete only when no
\* row states one.
atRooting(R, f) ==
  IF \A r \in R : r.shape.rooting = Unrecorded THEN R
  ELSE {r \in R : r.shape.rooting = f}

\* What a group of candidates answers: one record, or none when there is no
\* candidate or the composition is refused.
Refuses(G) == G # {} /\ compositionRefusal(G)
Compose(G) == IF G = {} \/ compositionRefusal(G) THEN {} ELSE {best(G)}

\* The record a read of frame f is given.
ComposeAt(R, f) == Compose(atRooting(R, f))

newestToolchain(R) ==
  LET named == {r \in R : r.shape.toolchain # NoToolchain}
  IN  (CHOOSE r \in named : \A o \in named \ {r} : newerScan(r, o)).shape.toolchain

\* Mutant: the index is composed like any read, and a conflict refuses it.
indexGroup_refuse(R, f) == atRooting(R, f)

\* The group the index of one frame describes: on a toolchain conflict, what the
\* toolchain of the frame's newest record said.
indexGroup(R, f) ==
  LET G == atRooting(R, f)
  IN  IF findToolchainConflict(G)
      THEN atRooting({r \in R : r.shape.toolchain = newestToolchain(G)}, f)
      ELSE G

\* What the index of a frame is derived from: the composed record, or every
\* member of a disputed group; empty when the composition is refused.
IndexedAt(R, f) ==
  LET G == indexGroup(R, f)
  IN  IF G = {} \/ findToolchainConflict(G) THEN {}
      ELSE IF findFindingConflict(G) THEN findingMembers(G)
      ELSE {best(G)}

indexedFindingIDs(R) == UNION {r.shape.ids : r \in R}

\* The candidates of one frame out of a walk's records, falling back to the
\* isolated frame only (ComposeInFrame).
isolatedOnly(R) == {r \in R : r.shape.rooting = RootingIsolated}
inFrame(R, f) ==
  IF atRooting(R, f) = {} THEN atRooting(isolatedOnly(R), RootingIsolated)
  ELSE atRooting(R, f)

-----------------------------------------------------------------------------
(* The store (sqlite.go, findingsindex.go, findingsbyid.go).                 *)

\* The rows of one key; the key names the snapshot by version, not by digest.
generationsOf(L, v) == {r \in L : Snap(r).version = v}
listGenerations(v) == generationsOf(ledger, v)

indexRow(id, v, f) == [id |-> id, version |-> v, rooting |-> f]

\* Mutant: rows are added, none is retracted.
reconcileFindingsIndex_append(gens, v, f) ==
  index \cup {indexRow(id, v, f) : id \in indexedFindingIDs(IndexedAt(gens, f))}

\* Mutant: the delete is not scoped to the frame.
reconcileFindingsIndex_unscoped(gens, v, f) ==
  {x \in index : x.version # v}
    \cup {indexRow(id, v, f) : id \in indexedFindingIDs(IndexedAt(gens, f))}

reconcileFindingsIndex(gens, v, f) ==
  {x \in index : x.version # v \/ x.rooting # f}
    \cup {indexRow(id, v, f) : id \in indexedFindingIDs(IndexedAt(gens, f))}

\* The anchor the key already holds, the record's own scan time when it holds none.
firstScannedAt(rec) ==
  LET held == {anchor[r.hash] : r \in listGenerations(Snap(rec).version)}
  IN  IF held = {} THEN rec.at
      ELSE CHOOSE t \in held : \A u \in held : t <= u

\* One transaction: insert the row unless it is there, and rewrite the index of
\* its key and frame from the composition.  A composition that is refused rolls
\* the append back.
PutVulnerabilityRecord(rec) ==
  LET v == Snap(rec).version
      f == rec.shape.rooting
      gens == generationsOf(ledger \cup {rec}, v)
  IN  /\ IF IndexedAt(gens, f) = {}
         THEN /\ refused' = refused \cup {rec.hash}
              /\ UNCHANGED <<ledger, anchor, index>>
         ELSE /\ ledger' = ledger \cup {rec}
              /\ anchor' = IF rec \in ledger THEN anchor
                           ELSE [anchor EXCEPT ![rec.hash] = firstScannedAt(rec)]
              /\ index' = reconcileFindingsIndex(gens, v, f)
              /\ UNCHANGED refused
      /\ UNCHANGED member

\* A scan of one shape ends at some time and its record reaches the store; a
\* retried write puts a record that is already there.
Scan ==
  \E s \in Shapes, t \in 1 .. MaxTime, h \in 1 .. MaxRows :
    LET rec == [shape |-> s, at |-> t, hash |-> h]
    IN  /\ \A r \in ledger : r.hash = h => r = rec
        /\ PutVulnerabilityRecord(rec)

\* A walk's scan run is stored after its records: its membership row names the
\* exact generation the run reported.
PutWalkScanRun(w, r) ==
  /\ Cardinality(member) < MaxRuns
  /\ member' = member \cup {<<w, Snap(r).version, r.hash>>}
  /\ UNCHANGED <<ledger, anchor, index, refused>>

\* A migrated store may hold membership rows of runs that named no generation;
\* the migrations that delete records leave the membership alone.
Init ==
  /\ ledger = {} /\ index = {} /\ refused = {}
  /\ anchor = [h \in 1 .. MaxRows |-> 0]
  /\ member \in SUBSET (Walks \X {s.version : s \in Snapshots} \X {NoHash})
  /\ Cardinality(member) <= MaxRuns

Next == Scan \/ \E w \in Walks, r \in ledger : PutWalkScanRun(w, r)

Spec == Init /\ [][Next]_vars

-----------------------------------------------------------------------------
(* Reads.                                                                    *)

\* A membership row reaches a record of its key when it names that record, or
\* when it names none.
Reaches(p, w, r) == p[1] = w /\ p[2] = Snap(r).version /\ p[3] \in {NoHash, r.hash}

moduleInWalkRows(w) == {r \in ledger : \E p \in member : Reaches(p, w, r)}

\* The one target-rooted frame a walk's records state, else the isolated frame.
walkFrame(R, row) ==
  LET targets == {f \in {r.shape.rooting : r \in R} : IsTargetRooted(f)}
  IN  IF Cardinality(targets) > 1 THEN row
      ELSE IF targets = {} THEN RootingIsolated
      ELSE CHOOSE f \in targets : TRUE

\* The candidates for the record vuln-show serves in frame `row`: across the
\* store those the index describes, in a walk those of the walk's own frame.
servedFor(w, row) ==
  IF w = NoWalk THEN indexGroup(ledger, row)
  ELSE LET R == moduleInWalkRows(w) IN inFrame(R, walkFrame(R, row))

IndexedFor(id, r) == indexRow(id, Snap(r).version, r.shape.rooting) \in index

\* The frames the index lists for an advisory, joined to the records: across the
\* store, and of the records a walk's runs reach.
byFindingGenerations(id) == {r.shape.rooting : r \in {o \in ledger : IndexedFor(id, o)}}

\* Mutant: the join asks for the hash the run named, and an old run named none.
byFindingInWalk_named(id, w) ==
  {r.shape.rooting :
     r \in {o \in ledger : IndexedFor(id, o) /\ <<w, Snap(o).version, o.hash>> \in member}}

byFindingInWalk(id, w) ==
  {r.shape.rooting : r \in {o \in moduleInWalkRows(w) : IndexedFor(id, o)}}

walkHasScanRun(w) == \E p \in member : p[1] = w

\* The ranking of the by-advisory read, which knows no rung and no database.
byFindingRanksBefore(a, b) ==
  IF ReportsAdvisory(a) # ReportsAdvisory(b) THEN ReportsAdvisory(a)
  ELSE IF Analysed(a) # Analysed(b) THEN Analysed(a)
  ELSE IF a.at # b.at THEN a.at > b.at
  ELSE a.hash < b.hash

onePerCoordinate(R) == {r \in R : \A o \in R \ {r} : byFindingRanksBefore(r, o)}

\* The read by advisory, across the store or in one walk: an error when the walk
\* was never scanned or any question's composition is refused, else the one
\* record of the module that ranks first among those served with the advisory.
ListVulnerabilityRecordsByFindingID(id, w) ==
  LET frames == IF w = NoWalk THEN byFindingGenerations(id) ELSE byFindingInWalk(id, w)
      served == UNION {Compose(servedFor(w, f)) : f \in frames}
      err == \/ w # NoWalk /\ ~walkHasScanRun(w)
             \/ \E f \in frames : Refuses(servedFor(w, f))
  IN  [err |-> err,
       records |-> IF err THEN {} ELSE onePerCoordinate({s \in served : id \in s.shape.ids})]

-----------------------------------------------------------------------------
(* Properties.                                                               *)

TypeOK ==
  /\ ledger \subseteq RecordType
  /\ anchor \in [1 .. MaxRows -> 0 .. MaxTime]
  /\ index \subseteq [id : Advisories, version : 0 .. MaxGeneration, rooting : Rootings]
  /\ member \subseteq Walks \X (0 .. MaxGeneration) \X (0 .. MaxRows)
  /\ refused \subseteq 1 .. MaxRows
  /\ \A r, o \in ledger : r.hash = o.hash => r = o

\* CheckFindingsIndex finds no defect, and the index is complete: the rows of
\* every key and frame are exactly the identifiers of what that frame's
\* composition serves, whichever frames, snapshots and toolchains were appended
\* in between.
IndexMatchesLedger ==
  /\ \A r \in ledger :
       LET v == Snap(r).version
           f == r.shape.rooting
       IN  {x.id : x \in {y \in index : y.version = v /\ y.rooting = f}}
             = indexedFindingIDs(IndexedAt(listGenerations(v), f))
  /\ \A x \in index :
       \E r \in listGenerations(x.version) : r.shape.rooting = x.rooting

\* No append is refused: a frame two toolchains scanned and a group two records
\* dispute are both indexed, so a completed scan is never lost to a conflict.
NoAppendIsRefused == refused = {}

\* The read by advisory does not lose record s: it fails, or it lists a record
\* that carries the advisory and is s or ranks before it.  An empty answer, which
\* says that the module is not affected, is never given.
NotLost(s, id, w) ==
  LET read == ListVulnerabilityRecordsByFindingID(id, w)
  IN  read.err \/ \E t \in read.records :
                    id \in t.shape.ids /\ (t = s \/ byFindingRanksBefore(t, s))

\* Every advisory the unpinned read serves for a frame is found by the
\* by-advisory read across the store: no served finding is missing from the
\* lookup, though the index describes one key and the read composes them all.
ServedAdvisoryIsListed ==
  \A f \in {r.shape.rooting : r \in ledger} :
    \A s \in ComposeAt(ledger, f) : \A id \in s.shape.ids : NotLost(s, id, NoWalk)

\* A finding does not decay into an all-clear because a later scan ran: in the
\* frame it was reported in, a read that answered with an advisory is afterwards
\* refused or still answers with one.
FindingNeverDecays ==
  [][\A f \in {r.shape.rooting : r \in ledger} : \A s \in ComposeAt(ledger, f) :
       ReportsAdvisory(s) => \A t \in ComposeAt(ledger', f) : ReportsAdvisory(t)]_vars

\* first_scanned_at is one value per key and never moves, though the records of
\* a key are appended out of the order they were scanned in.
FirstSeenIsOnePerKey ==
  \A r, o \in ledger :
    Snap(r).version = Snap(o).version => anchor[r.hash] = anchor[o.hash]

\* The ledger takes every completed scan and dates each key once, in whatever
\* order the scans arrive (PutVulnerabilityRecord).
LedgerIsSound == TypeOK /\ NoAppendIsRefused /\ FirstSeenIsOnePerKey

\* What a record says, and the question it answers.
Answer(r) == <<verdictDigest(r), Snap(r), r.shape.toolchain>>

\* A record of s's key and frame that no run of the walk reaches says something
\* else, or answers another question.
SaidOtherwise(s, R) ==
  \E o \in listGenerations(Snap(s).version) \ R :
    o.shape.rooting = s.shape.rooting /\ Answer(o) # Answer(s)

\* The by-advisory read of a walk finds every advisory the walk's own read
\* serves, though the index it looks up describes the whole store and the walk
\* answers from the generations its runs named: always for a run that named
\* none, and otherwise unless a record the walk does not reach said otherwise.
WalkAdvisoryIsListed ==
  \A w \in Walks :
    LET R == moduleInWalkRows(w)
    IN  \A row \in {r.shape.rooting : r \in R} : \A s \in Compose(servedFor(w, row)) :
          \A id \in s.shape.ids : SaidOtherwise(s, R) \/ NotLost(s, id, w)
=============================================================================
