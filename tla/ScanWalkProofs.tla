--------------------------- MODULE ScanWalkProofs ---------------------------
(***************************************************************************)
(* Proofs about ScanWalk: for any walk, any pool, any number of commands,  *)
(* faults and records of other walks, a stored run is backed by records of *)
(* its own nodes and snapshot, an all-clear is one, and a scan that did    *)
(* not measure is not taken for an answer.                                 *)
(***************************************************************************)
EXTENDS ScanWalk, FiniteSetTheorems, SequenceTheorems, TLAPS

-----------------------------------------------------------------------------
(* The inductive invariant.                                                *)

JobType ==
    [force : BOOLEAN, prepass : BOOLEAN, reach : BOOLEAN, snap : Generations,
     shared : BOOLEAN, mode : {"source", "binary"}, fill : Fills, idx : Nat \ {0}]

FlightType == [at : {"scan", "graph", "build", "put"}, rec : RecordType]

(* What a record of the running command is judged by.                      *)
here == [snap |-> job.snap, by |-> attempt, advised |-> shape.advised]

(* A record is honest: no stopped child's, and no false all-clear.         *)
Honest(r, advised) ==
    /\ r \in RecordType /\ ~r.stopped
    /\ r.cov = "analysed" /\ ~r.found => r.coord \notin advised[r.snap]

(* A record the command may claim for c: of its own snapshot, and failed   *)
(* only if this command saw it fail.                                       *)
Mine(c, r, h) ==
    /\ Honest(r, h.advised) /\ r.coord = c /\ r.snap = h.snap
    /\ r.cov = "failed" => r.by = h.by

Outcomes(f, h) ==
    /\ DOMAIN f \subseteq Modules /\ f \in [DOMAIN f -> Results]
    /\ \A c \in DOMAIN f : f[c].err = "none" => Mine(c, f[c].rec, h)

Drafts(f, h) ==
    /\ DOMAIN f \subseteq Modules /\ f \in [DOMAIN f -> FlightType]
    /\ \A c \in DOMAIN f : f[c].at # "scan" => Mine(c, f[c].rec, h)

(* A claim is the outcome's record, or one that reports no finding.        *)
Claims(f, res, nodes, h) ==
    /\ DOMAIN f \subseteq nodes /\ f \in [DOMAIN f -> RecordType]
    /\ \A c \in DOMAIN f :
          /\ Mine(c, f[c], h)
          /\ IF c \in Modules /\ res[c].err = "none" THEN f[c] = res[c].rec ELSE ~f[c].found

GapOf(h) == [coord |-> Target, snap |-> h.snap, cov |-> "unscannable", found |-> FALSE,
             frame |-> "rooted", mode |-> "none", by |-> h.by, stopped |-> FALSE]

RunIsTrue(r, recs, nodes) ==
    /\ r \in [id : 1..MaxScans, snap : Generations, prepass : BOOLEAN,
              claims : [nodes -> RecordType], affected : 0..Cardinality(nodes),
              findings : {"Affected", "Clean"}, coverage : {"Failed", "Partial", "Complete"}]
    /\ \A c \in nodes :
          /\ r.claims[c] \in recs /\ r.claims[c].coord = c /\ r.claims[c].snap = r.snap
          /\ r.claims[c].cov = "failed" => r.claims[c].by = r.id
          /\ r.coverage = "Complete" => r.claims[c].cov = "analysed"
          /\ r.findings = "Clean" => ~r.claims[c].found

StoreIsTrue ==
    /\ shape \in Shapes /\ latest \in Generations
    /\ attempt \in 0..MaxScans /\ faults \in 0..MaxFaults
    /\ \A r \in records : Honest(r, shape.advised)
    /\ \A r \in runs : RunIsTrue(r, records, scannedNodes) /\ r.id <= attempt
    /\ AuditedRunIsStored
    /\ \A s \in served :
          s.run \in runs /\ s.run.coverage = "Complete" /\ s.run.snap = s.asked

Early == {"idle", "reuse", "resolve", "prepare", "root"}
Late == {"tally", "verify", "complete", "audit"}

CommandTyped ==
    /\ pc \in Phases /\ job \in JobType /\ cancelled \in BOOLEAN /\ refused \in BOOLEAN
    /\ pc # "idle" => attempt > 0
    /\ queue \in Seq(Modules) /\ gap \subseteq {GapOf(here)}

Members(q) == {q[i] : i \in 1..Len(q)}
Distinct(q) == \A i, j \in 1..Len(q) : q[i] = q[j] => i = j

(* In the pool a module waits, is being scanned or has its outcome.        *)
Partitioned(q, fl, res) ==
    /\ Distinct(q)
    /\ Members(q) \cap DOMAIN fl = {} /\ Members(q) \cap DOMAIN res = {}
    /\ DOMAIN fl \cap DOMAIN res = {}
    /\ Modules \subseteq Members(q) \cup DOMAIN fl \cup DOMAIN res

Building(f) == {c \in DOMAIN f : f[c].at = "build"}
SlotsCounted(n, f) == n = Cardinality(Building(f)) /\ n <= CallGraphWorkers

(* What each phase finds in the command's memory.                          *)
PhaseFits ==
    /\ pc \in Early => gap = {} /\ DOMAIN results = {} /\ ~refused
    /\ pc = "fill" => /\ job.idx \in 1..Len(allCoords) /\ gap = {} /\ ~refused
                      /\ DOMAIN results = {allCoords[i] : i \in 1..(job.idx - 1)}
    /\ pc = "tally" => job.idx \in 1..Len(splitLocalReplaceNodes)
    /\ pc \notin {"fill", "tally"} => job.idx = 1
    /\ pc = "pool" => Partitioned(queue, flight, results)
    /\ pc # "pool" => DOMAIN flight = {}
    /\ pc \in {"gaps"} \cup Late => DOMAIN results = Modules
    /\ pc \notin Late => DOMAIN claims = {}

(* A refusal is kept until the run is ended by it, or the target's own gap *)
(* has taken its place.                                                    *)
RefusalKept ==
    refused => /\ pc \in {"pool", "gaps"} =>
                     \E c \in DOMAIN results : results[c].err = "refused"
               /\ pc \in Late => results[Target] = Success(GapOf(here))

(* The run of this command is stored by its last but one step only.        *)
RunIsBacked ==
    /\ pc \in {"complete", "audit"} =>
          DOMAIN claims = scannedNodes /\ \A c \in scannedNodes : claims[c] \in records
    /\ pc \notin {"idle", "audit"} => \A r \in runs : r.id # attempt
    /\ pc = "audit" => /\ completedRun \in runs
                       /\ \A r \in runs : r.id = attempt => r = completedRun

CommandFits ==
    /\ CommandTyped
    /\ Outcomes(results, here) /\ Drafts(flight, here)
    /\ Claims(claims, results, scannedNodes, here)
    /\ SlotsCounted(sem, flight)
    /\ PhaseFits /\ RefusalKept /\ RunIsBacked

IInv == StoreIsTrue /\ CommandFits

-----------------------------------------------------------------------------
(* The walk's order.                                                       *)

(* SetToSeq lists every member of a finite set once.                       *)
LEMMA SetSeq ==
    ASSUME NEW S, IsFiniteSet(S)
    PROVE  /\ SetToSeq(S) \in Seq(S) /\ Len(SetToSeq(S)) = Cardinality(S)
           /\ Distinct(SetToSeq(S)) /\ Members(SetToSeq(S)) = S
<1> DEFINE n == Cardinality(S)
           q == SetToSeq(S)
<1>1. n \in Nat /\ \E f : f \in Bijection(1..n, S)
  BY FS_CardinalityType DEF ExistsBijection
<1>2. \E f \in [1..n -> S] : IsInjective(f)
  BY <1>1 DEF Bijection, Injection, IsInjective
<1>3. q \in [1..n -> S] /\ IsInjective(q)
  BY <1>2 DEF SetToSeq
<1>4. q \in Seq(S) /\ Len(q) = n
  BY <1>1, <1>3
<1>5. Distinct(q)
  BY <1>3, <1>4 DEF Distinct, IsInjective
<1>6. q \in Surjection(1..n, S)
  <2>1. q \in Injection(1..n, S)
    BY <1>3 DEF Injection, IsInjective
  <2>2. IsFiniteSet(1..n) /\ Cardinality(1..n) = n
    BY <1>1, FS_Interval
  <2> QED BY <2>1, <2>2, FS_Injection
<1>7. Members(q) = S
  BY <1>3, <1>4, <1>6 DEF Members, Surjection
<1> QED BY <1>4, <1>5, <1>7

(* A sequence without repetitions, its first member taken.                 *)
LEMMA TakeHead ==
    ASSUME NEW S, NEW q \in Seq(S), q # <<>>, Distinct(q)
    PROVE  /\ Tail(q) \in Seq(S) /\ Distinct(Tail(q)) /\ Head(q) \in S
           /\ Members(q) = Members(Tail(q)) \cup {Head(q)}
           /\ Head(q) \notin Members(Tail(q))
<1>1. /\ Len(q) \in Nat \ {0} /\ Tail(q) \in Seq(S) /\ Len(Tail(q)) = Len(q) - 1
      /\ Head(q) = q[1] /\ \A i \in 1..(Len(q) - 1) : Tail(q)[i] = q[i + 1]
  OBVIOUS
<1>2. Distinct(Tail(q)) /\ q[1] \notin Members(Tail(q))
  BY <1>1 DEF Distinct, Members
<1>3. Members(q) = Members(Tail(q)) \cup {q[1]}
  <2>1. ASSUME NEW i \in 1..Len(q) PROVE q[i] \in Members(Tail(q)) \cup {q[1]}
    <3>1. CASE i = 1
      BY <3>1
    <3>2. CASE i # 1
      <4>1. i - 1 \in 1..(Len(q) - 1) /\ Tail(q)[i - 1] = q[i]
        BY <1>1, <3>2
      <4> QED BY <1>1, <4>1 DEF Members
    <3> QED BY <3>1, <3>2
  <2>2. ASSUME NEW i \in 1..Len(Tail(q)) PROVE Tail(q)[i] \in Members(q)
    <3>1. i + 1 \in 1..Len(q) /\ Tail(q)[i] = q[i + 1]
      BY <1>1
    <3> QED BY <3>1 DEF Members
  <2>3. q[1] \in Members(q)
    BY <1>1 DEF Members
  <2> QED BY <2>1, <2>2, <2>3 DEF Members
<1> QED BY <1>1, <1>2, <1>3

(* The walk has a first coordinate, and every node has its place.          *)
LEMMA Coords ==
    /\ allCoords \in Seq(Modules) /\ Len(allCoords) \in Nat \ {0}
    /\ Distinct(allCoords) /\ Members(allCoords) = Modules
<1>1. /\ allCoords \in Seq(Modules) /\ Len(allCoords) \in Nat
      /\ Distinct(allCoords) /\ Members(allCoords) = Modules
  BY SetSeq, ScanWalkAssumption DEF allCoords
<1>2. Len(allCoords) # 0
  BY <1>1, ScanWalkAssumption DEF Members
<1> QED BY <1>1, <1>2

(* splitLocalReplaceNodes is a list of nodes of the walk, and not empty.   *)
LEMMA Split ==
    ASSUME shape \in Shapes
    PROVE  /\ Len(splitLocalReplaceNodes) \in Nat \ {0}
           /\ \A i \in 1..Len(splitLocalReplaceNodes) :
                 splitLocalReplaceNodes[i] \in scannedNodes
<1> DEFINE rep == SetToSeq(shape.replaced)
<1>1. shape.replaced \subseteq Replaced /\ IsFiniteSet(shape.replaced)
  BY ScanWalkAssumption, FS_Subset DEF ShapeType
<1>2. rep \in Seq(shape.replaced)
  BY <1>1, SetSeq
<1>3. allCoords \in Seq(scannedNodes) /\ rep \in Seq(scannedNodes) /\ Len(allCoords) # 0
  BY <1>2, Coords DEF scannedNodes
<1> QED BY <1>3 DEF splitLocalReplaceNodes

-----------------------------------------------------------------------------
(* Entering a value keeps what holds of every value.                       *)

(* An outcome entered for a module keeps the outcomes right.               *)
LEMMA OutcomeEntered ==
    ASSUME NEW f, NEW h, Outcomes(f, h), NEW c \in Modules, NEW o \in Results,
           o.err = "none" => Mine(c, o.rec, h)
    PROVE  Outcomes(Entered(f, c, o), h)
  BY DEF Outcomes, Entered

(* So does taking outcomes away.                                           *)
LEMMA OutcomesRestricted ==
    ASSUME NEW f, NEW h, Outcomes(f, h), NEW S \in SUBSET DOMAIN f
    PROVE  Outcomes(Restrict(f, S), h) /\ DOMAIN Restrict(f, S) = S
  BY DEF Outcomes, Restrict

(* A draft taken away leaves the other drafts as they were.                *)
LEMMA DraftsRestricted ==
    ASSUME NEW f, NEW h, Drafts(f, h), NEW S \in SUBSET DOMAIN f
    PROVE  /\ Drafts(Restrict(f, S), h) /\ DOMAIN Restrict(f, S) = S
           /\ \A x \in S : Restrict(f, S)[x] = f[x]
  BY DEF Drafts, Restrict

(* The shapes of a failure and of a success.                               *)
LEMMA RecordsTyped ==
    /\ NoRecord \in RecordType
    /\ \A e \in Errors : Failure(e) \in Results /\ Failure(e).err = e
    /\ \A r \in RecordType : Success(r) \in Results /\ Success(r).rec = r
                              /\ Success(r).err = "none"
<1>1. NoRecord \in RecordType
  BY ScanWalkAssumption DEF NoRecord, RecordType, Generations, Coverages
<1> QED BY <1>1 DEF Failure, Success, Results, Errors

(* A record of the command's own may be entered as a success.              *)
LEMMA SuccessEntered ==
    ASSUME NEW f, NEW h, Outcomes(f, h), NEW c \in Modules, NEW r, Mine(c, r, h)
    PROVE  Outcomes(Entered(f, c, Success(r)), h)
<1>1. r \in RecordType
  BY DEF Mine, Honest
<1>2. Success(r) \in Results /\ Mine(c, Success(r).rec, h)
  BY <1>1, RecordsTyped
<1> QED BY <1>2, OutcomeEntered

(* A failure may be entered for any module.                                *)
LEMMA FailureEntered ==
    ASSUME NEW f, NEW h, Outcomes(f, h), NEW c \in Modules, NEW e \in Errors, e # "none"
    PROVE  Outcomes(Entered(f, c, Failure(e)), h)
  BY RecordsTyped, OutcomeEntered

-----------------------------------------------------------------------------
(* What a step may leave behind in the store.                              *)

(* The walk has finitely many nodes; local replacements are none of its    *)
(* modules, and advisories name modules only.                              *)
LEMMA ShapeTyped ==
    ASSUME shape \in Shapes
    PROVE  /\ shape \in ShapeType
           /\ \A g \in Generations : shape.advised[g] \subseteq Modules
           /\ shape.replaced \subseteq Replaced /\ Modules \cap shape.replaced = {}
           /\ IsFiniteSet(scannedNodes)
<1>1. /\ shape \in ShapeType /\ shape.replaced \subseteq Replaced
      /\ Modules \cap shape.replaced = {}
      /\ \A g \in Generations : shape.advised[g] \subseteq Modules
  BY ScanWalkAssumption DEF ShapeType
<1>2. IsFiniteSet(scannedNodes)
  BY <1>1, ScanWalkAssumption, FS_Subset, FS_Union DEF scannedNodes
<1> QED BY <1>1, <1>2

(* Faults are counted within their bound.                                  *)
LEMMA Spent ==
    ASSUME faults \in 0..MaxFaults, NEW n \in Nat, Spend(n)
    PROVE  faults' \in 0..MaxFaults
  BY ScanWalkAssumption DEF Spend

(* A run stays true while the records only grow.                           *)
LEMMA RunStaysTrue ==
    ASSUME NEW r, NEW recs, NEW more, NEW nodes, RunIsTrue(r, recs, nodes), recs \subseteq more
    PROVE  RunIsTrue(r, more, nodes)
  BY DEF RunIsTrue

(* A step that only adds honest records leaves the store true.             *)
LEMMA StoreGrows ==
    ASSUME StoreIsTrue, UNCHANGED <<shape, runs, log, served, attempt>>,
           latest' \in Generations, faults' \in 0..MaxFaults, records \subseteq records',
           \A r \in records' : r \in records \/ Honest(r, shape.advised)
    PROVE  StoreIsTrue'
<1>1. scannedNodes' = scannedNodes
  BY DEF scannedNodes
<1>2. \A r \in runs' : RunIsTrue(r, records', scannedNodes') /\ r.id <= attempt'
  BY <1>1, RunStaysTrue DEF StoreIsTrue
<1>3. AuditedRunIsStored'
  BY DEF StoreIsTrue, AuditedRunIsStored
<1> QED BY <1>1, <1>2, <1>3 DEF StoreIsTrue

(* A step that leaves the store alone leaves it true.                      *)
LEMMA StoreKept ==
    ASSUME StoreIsTrue, UNCHANGED store
    PROVE  StoreIsTrue'
  BY StoreGrows DEF store, StoreIsTrue

(* So does putRecord, whether or not the store keeps the record.           *)
LEMMA StorePut ==
    ASSUME StoreIsTrue, UNCHANGED <<shape, latest, runs, log, served, attempt>>,
           NEW r, Honest(r, shape.advised), NEW cost \in Nat, putRecord(r, cost)
    PROVE  StoreIsTrue' /\ records \subseteq records'
<1>1. records \subseteq records' /\ records' \subseteq records \cup {r}
  BY DEF putRecord
<1>2. faults' \in 0..MaxFaults
  <2>1. faults \in 0..MaxFaults /\ cost + 1 \in Nat /\ (Spend(cost) \/ Spend(cost + 1))
    BY DEF StoreIsTrue, putRecord
  <2> QED BY <2>1, Spent
<1> QED BY <1>1, <1>2, StoreGrows DEF StoreIsTrue

-----------------------------------------------------------------------------
(* The records a command makes are its own.                                *)

(* A drafted record is the command's own, if it is no false all-clear.     *)
LEMMA DraftIsMine ==
    ASSUME StoreIsTrue, job \in JobType, NEW c \in Modules \cup Replaced,
           NEW cov \in Coverages, NEW found \in BOOLEAN,
           NEW frame \in {"isolated", "rooted", "unrecorded"},
           NEW mode \in {"source", "binary", "none"},
           cov = "analysed" /\ ~found => c \notin shape.advised[job.snap]
    PROVE  Mine(c, Draft(c, cov, found, frame, mode), here)
<1>1. attempt \in 0..MaxScans /\ job.snap \in Generations
  BY DEF StoreIsTrue, JobType
<1>2. Draft(c, cov, found, frame, mode) \in RecordType
  BY <1>1 DEF Draft, RecordType
<1> QED BY <1>2 DEF Draft, Mine, Honest, here

(* What a rooted analysis answers is the command's own: the advisories of  *)
(* the coordinate are merged into it, so it is no false all-clear          *)
(* (mergeCoordinateFindings).                                              *)
LEMMA RootedIsMine ==
    ASSUME StoreIsTrue, job \in JobType, NEW c \in Modules, NEW a \in rootedAnswers(c)
    PROVE  Mine(c, a[1], here) /\ a[2] \in Nat
<1> DEFINE Rooted(cov, f) ==
             Draft(c, cov, f, "rooted", IF cov = "analysed" THEN "source" ELSE "none")
           found == mergeCoordinateFindings(c)
<1>1. \/ a = <<Rooted("unscannable", FALSE), 0>> \/ a = <<Rooted("unscannable", FALSE), 1>>
      \/ a = <<Rooted("failed", FALSE), 0>> \/ a = <<Rooted("failed", FALSE), 1>>
      \/ a = <<Rooted("analysed", found), 0>> \/ a = <<Rooted("unscannable", found), 0>>
  BY DEF rootedAnswers, JobType, Fills
<1>2. found \in BOOLEAN /\ (~found => c \notin shape.advised[job.snap])
  BY DEF mergeCoordinateFindings
<1>3. \A cov \in Coverages, f \in BOOLEAN :
         (cov = "analysed" => f = found) => Mine(c, Rooted(cov, f), here)
  BY <1>2, DraftIsMine
<1>4. /\ Mine(c, Rooted("unscannable", FALSE), here) /\ Mine(c, Rooted("failed", FALSE), here)
      /\ Mine(c, Rooted("analysed", found), here) /\ Mine(c, Rooted("unscannable", found), here)
  BY <1>2, <1>3 DEF Coverages
<1>5. ASSUME NEW r, NEW n \in {0, 1}, Mine(c, r, here), a = <<r, n>>
      PROVE  Mine(c, a[1], here) /\ a[2] \in Nat
  BY <1>5
<1> QED BY <1>1, <1>4, <1>5

(* So is what the scan of one module measures: the metadata filter clears  *)
(* a module only if no advisory names anything it reaches, itself          *)
(* included.                                                               *)
LEMMA MeasuredIsMine ==
    ASSUME StoreIsTrue, job \in JobType, NEW c \in Modules, NEW m \in measurements(c)
    PROVE  Mine(c, m[1], here) /\ m[2] \in Nat
<1> DEFINE Isolated(cov, f, mode) == Draft(c, cov, f, "isolated", mode)
           found == mergeCoordinateFindings(c)
<1>1. found \in BOOLEAN /\ (~found => c \notin shape.advised[job.snap])
  BY DEF mergeCoordinateFindings
<1>2. ~checkVulnerabilities(c) => c \notin shape.advised[job.snap]
  BY ScanWalkAssumption DEF checkVulnerabilities
<1>3. \/ m = <<Isolated("unscannable", found, "none"), 0>>
      \/ m = <<Isolated("unscannable", found, "none"), 1>>
      \/ m = <<Isolated("failed", FALSE, "none"), 1>>
      \/ m = <<Isolated("analysed", found, job.mode), 0>>
      \/ m = <<Isolated("analysed", FALSE, "none"), 0>> /\ ~checkVulnerabilities(c)
  BY DEF measurements
<1>4. job.mode \in {"source", "binary", "none"}
  BY DEF JobType
<1>5. \A cov \in Coverages, f \in BOOLEAN, mode \in {"source", "binary", "none"} :
         (cov = "analysed" => f = found \/ ~checkVulnerabilities(c))
            => Mine(c, Isolated(cov, f, mode), here)
  BY <1>1, <1>2, DraftIsMine
<1>6. /\ Mine(c, Isolated("unscannable", found, "none"), here)
      /\ Mine(c, Isolated("failed", FALSE, "none"), here)
      /\ Mine(c, Isolated("analysed", found, job.mode), here)
      /\ ~checkVulnerabilities(c) => Mine(c, Isolated("analysed", FALSE, "none"), here)
  BY <1>1, <1>4, <1>5 DEF Coverages
<1>7. ASSUME NEW r, NEW n \in {0, 1}, Mine(c, r, here), m = <<r, n>>
      PROVE  Mine(c, m[1], here) /\ m[2] \in Nat
  BY <1>7
<1> QED BY <1>3, <1>6, <1>7

(* A reused record may be claimed: it is honest because the store is, of   *)
(* this snapshot, and not a failed one.                                    *)
LEMMA ReusedIsMine ==
    ASSUME StoreIsTrue, NEW c \in Modules, NEW r \in tryReuseCachedRecord(c)
    PROVE  Mine(c, r, here)
<1>1. r \in composed(c) /\ r.cov # "failed"
  BY DEF tryReuseCachedRecord
<1>2. r \in records /\ r.coord = c /\ r.snap = job.snap
  BY <1>1 DEF composed
<1> QED BY <1>1, <1>2 DEF StoreIsTrue, Mine, here

-----------------------------------------------------------------------------
(* What a command's steps have in common.                                  *)

(* With no module in flight no call-graph slot is taken.                   *)
LEMMA NothingBuilt ==
    ASSUME NEW f, DOMAIN f = {}
    PROVE  SlotsCounted(0, f) /\ Building(f) = {}
<1>1. Building(f) = {}
  BY DEF Building
<1> QED BY <1>1, FS_EmptySet, ScanWalkAssumption DEF SlotsCounted

(* A command that is over holds nothing.                                   *)
LEMMA LeaveFits ==
    ASSUME StoreIsTrue', Leave
    PROVE  CommandFits'
<1> DEFINE none == <<>>
<1>1. DOMAIN none = {} /\ none \in Seq(Modules) /\ NoJob \in JobType
  BY DEF NoJob, JobType, Generations, Fills
<1>2. CommandTyped'
  BY <1>1 DEF Leave, CommandTyped, Phases
<1>3. Outcomes(results', here') /\ Drafts(flight', here')
  BY <1>1 DEF Leave, Outcomes, Drafts
<1>4. Claims(claims', results', scannedNodes', here')
  BY <1>1 DEF Leave, Claims
<1>5. SlotsCounted(sem', flight')
  BY <1>1, NothingBuilt DEF Leave
<1>6. PhaseFits'
  BY <1>1 DEF Leave, PhaseFits, Early, Late, NoJob
<1>7. RefusalKept' /\ RunIsBacked'
  BY DEF Leave, RefusalKept, RunIsBacked
<1> QED BY <1>2, <1>3, <1>4, <1>5, <1>6, <1>7 DEF CommandFits

(* The phases before the analysis hold nothing either, so what they set of *)
(* the command's parameters disturbs nothing.                              *)
LEMMA EarlyMove ==
    ASSUME IInv, StoreIsTrue', pc \in Early, pc' \in {"reuse", "resolve", "prepare", "root"},
           job' \in JobType, job'.idx = 1, attempt' > 0, \A r \in runs' : r.id # attempt',
           UNCHANGED <<cancelled, queue, flight, sem, results, refused, gap, claims>>
    PROVE  CommandFits'
<1>1. /\ gap = {} /\ DOMAIN results = {} /\ ~refused
      /\ DOMAIN flight = {} /\ DOMAIN claims = {}
  BY DEF IInv, CommandFits, PhaseFits, Early, Late
<1>2. CommandTyped'
  BY <1>1 DEF IInv, CommandFits, CommandTyped, Phases
<1>3. Outcomes(results', here') /\ Drafts(flight', here')
  BY <1>1 DEF IInv, CommandFits, Outcomes, Drafts
<1>4. Claims(claims', results', scannedNodes', here')
  BY <1>1 DEF IInv, CommandFits, Claims
<1>5. SlotsCounted(sem', flight')
  BY DEF IInv, CommandFits
<1>6. PhaseFits'
  BY <1>1 DEF PhaseFits, Early, Late
<1>7. RefusalKept' /\ RunIsBacked'
  BY <1>1 DEF RefusalKept, RunIsBacked
<1> QED BY <1>2, <1>3, <1>4, <1>5, <1>6, <1>7 DEF CommandFits

(* The context of the command's records stands while its snapshot, its     *)
(* number and the walk do.                                                 *)
LEMMA HereKept ==
    ASSUME UNCHANGED <<shape, attempt>>, job'.snap = job.snap
    PROVE  here' = here /\ scannedNodes' = scannedNodes
  BY DEF here, scannedNodes

(* The pool is started on every coordinate of the walk.                    *)
LEMMA PoolStarts ==
    ASSUME IInv, StoreIsTrue', pc = "root", StartPool, gap' \subseteq {GapOf(here)},
           UNCHANGED <<shape, attempt, runs, cancelled, flight, sem, results, refused, claims>>
    PROVE  CommandFits'
<1>1. /\ DOMAIN results = {} /\ ~refused /\ DOMAIN flight = {} /\ DOMAIN claims = {}
      /\ job.idx = 1 /\ job \in JobType
  BY DEF IInv, CommandFits, CommandTyped, PhaseFits, Early, Late
<1>2. /\ job' \in JobType /\ job'.snap = job.snap /\ job'.idx = 1
      /\ pc' = "pool" /\ queue' = allCoords
  BY <1>1 DEF StartPool, JobType
<1>3. here' = here /\ scannedNodes' = scannedNodes
  BY <1>2, HereKept
<1>4. CommandTyped'
  BY <1>2, <1>3, Coords DEF IInv, CommandFits, CommandTyped, Phases
<1>5. /\ Outcomes(results', here') /\ Drafts(flight', here')
      /\ Claims(claims', results', scannedNodes', here') /\ SlotsCounted(sem', flight')
  BY <1>3 DEF IInv, CommandFits
<1>6. PhaseFits'
  BY <1>1, <1>2, Coords DEF PhaseFits, Early, Late, Partitioned
<1>7. RefusalKept' /\ RunIsBacked'
  BY <1>1, <1>2 DEF RefusalKept, RunIsBacked, IInv, CommandFits
<1> QED BY <1>4, <1>5, <1>6, <1>7 DEF CommandFits

(* A rooted analysis is recorded from the walk's first coordinate on.      *)
LEMMA FillStarts ==
    ASSUME IInv, StoreIsTrue', pc = "root", NEW f \in Fills, StartFill(f), gap' = gap,
           UNCHANGED <<shape, attempt, runs, cancelled, flight, sem, results, refused, claims>>
    PROVE  CommandFits'
<1>1. /\ DOMAIN results = {} /\ ~refused /\ DOMAIN flight = {} /\ DOMAIN claims = {} /\ gap = {}
      /\ job.idx = 1 /\ job \in JobType
  BY DEF IInv, CommandFits, CommandTyped, PhaseFits, Early, Late
<1>2. job' \in JobType /\ job'.snap = job.snap /\ job'.idx = 1 /\ pc' = "fill" /\ queue' = queue
  BY <1>1 DEF StartFill, JobType
<1>3. here' = here /\ scannedNodes' = scannedNodes
  BY <1>2, HereKept
<1>4. CommandTyped'
  BY <1>1, <1>2 DEF IInv, CommandFits, CommandTyped, Phases
<1>5. /\ Outcomes(results', here') /\ Drafts(flight', here')
      /\ Claims(claims', results', scannedNodes', here') /\ SlotsCounted(sem', flight')
  BY <1>3 DEF IInv, CommandFits
<1>6. PhaseFits'
  <2>1. {allCoords[i] : i \in 1..(1 - 1)} = {}
    OBVIOUS
  <2> QED BY <1>1, <1>2, <2>1, Coords DEF PhaseFits, Early, Late
<1>7. RefusalKept' /\ RunIsBacked'
  BY <1>1, <1>2 DEF RefusalKept, RunIsBacked, IInv, CommandFits
<1> QED BY <1>4, <1>5, <1>6, <1>7 DEF CommandFits

(* A step of the pool keeps the invariant if it keeps what it can disturb. *)
LEMMA PoolStep ==
    ASSUME IInv, StoreIsTrue', pc = "pool", queue' \in Seq(Modules), refused' \in BOOLEAN,
           cancelled' \in BOOLEAN,
           UNCHANGED <<shape, attempt, runs, pc, job, gap, claims>>,
           Outcomes(results', here), Drafts(flight', here), SlotsCounted(sem', flight'),
           Partitioned(queue', flight', results'),
           refused' => \E c \in DOMAIN results' : results'[c].err = "refused"
    PROVE  CommandFits'
<1>1. here' = here /\ scannedNodes' = scannedNodes
  BY HereKept
<1>2. CommandTyped'
  BY <1>1 DEF IInv, CommandFits, CommandTyped
<1>3. DOMAIN claims = {} /\ job.idx = 1
  BY DEF IInv, CommandFits, PhaseFits, Late
<1>4. Claims(claims', results', scannedNodes', here')
  BY <1>1, <1>3 DEF IInv, CommandFits, Claims
<1>5. PhaseFits'
  BY <1>3 DEF PhaseFits, Early, Late
<1>6. RefusalKept' /\ RunIsBacked'
  BY DEF RefusalKept, RunIsBacked, Late, IInv, CommandFits
<1> QED BY <1>1, <1>2, <1>4, <1>5, <1>6 DEF CommandFits

-----------------------------------------------------------------------------
(* One lemma per action.                                                   *)

(* Nothing has been stored and no command runs.                            *)
LEMMA InitFits == Init => IInv
<1> SUFFICES ASSUME Init PROVE IInv
  OBVIOUS
<1>1. StoreIsTrue
  BY ScanWalkAssumption DEF Init, StoreIsTrue, Generations, AuditedRunIsStored
<1> DEFINE none == <<>>
<1>2. DOMAIN none = {} /\ none \in Seq(Modules) /\ NoJob \in JobType
  BY DEF NoJob, JobType, Generations, Fills
<1>3. CommandTyped
  BY <1>2 DEF Init, CommandTyped, Phases
<1>4. /\ Outcomes(results, here) /\ Drafts(flight, here)
      /\ Claims(claims, results, scannedNodes, here)
  BY <1>2 DEF Init, Outcomes, Drafts, Claims
<1>5. SlotsCounted(sem, flight)
  BY <1>2, NothingBuilt DEF Init
<1>6. PhaseFits /\ RefusalKept /\ RunIsBacked
  BY <1>2 DEF Init, PhaseFits, Early, Late, NoJob, RefusalKept, RunIsBacked
<1> QED BY <1>1, <1>3, <1>4, <1>5, <1>6 DEF IInv, CommandFits

(* A new command has a number no stored run has.                           *)
LEMMA BeginFits == IInv /\ Begin => IInv'
<1> SUFFICES ASSUME IInv, Begin PROVE IInv'
  OBVIOUS
<1>1. attempt \in 0..MaxScans /\ attempt' = attempt + 1 /\ attempt' \in 0..MaxScans
  BY ScanWalkAssumption DEF IInv, StoreIsTrue, Begin
<1>2. \A r \in runs : r.id <= attempt /\ r.id \in Nat
  BY DEF IInv, StoreIsTrue, RunIsTrue
<1>3. StoreIsTrue'
  <2>1. scannedNodes' = scannedNodes
    BY DEF Begin, scannedNodes
  <2>2. \A r \in runs' : RunIsTrue(r, records', scannedNodes') /\ r.id <= attempt'
    BY <1>1, <1>2, <2>1 DEF Begin, IInv, StoreIsTrue
  <2>3. AuditedRunIsStored'
    BY DEF Begin, IInv, StoreIsTrue, AuditedRunIsStored
  <2> QED BY <1>1, <2>2, <2>3 DEF Begin, IInv, StoreIsTrue
<1>4. job' \in JobType /\ job'.idx = 1
  <2>1. PICK q \in Requests :
           job' = [NoJob EXCEPT !.force = q.force, !.prepass = q.prepass, !.reach = q.reach]
    BY DEF Begin
  <2>2. q.force \in BOOLEAN /\ q.prepass \in BOOLEAN /\ q.reach \in BOOLEAN
    BY ScanWalkAssumption DEF RequestType
  <2>3. job' = [force |-> q.force, prepass |-> q.prepass, reach |-> q.reach, snap |-> 1,
                shared |-> TRUE, mode |-> "source", fill |-> "answers", idx |-> 1]
    BY <2>1 DEF NoJob
  <2> QED BY <2>2, <2>3 DEF JobType, Generations, Fills
<1>5. \A r \in runs' : r.id # attempt'
  BY <1>1, <1>2 DEF Begin
<1>6. pc \in Early /\ pc' \in {"reuse", "resolve", "prepare", "root"} /\ attempt' > 0
      /\ UNCHANGED <<cancelled, queue, flight, sem, results, refused, gap, claims>>
  BY <1>1 DEF Begin, Early
<1>7. CommandFits'
  BY <1>3, <1>4, <1>5, <1>6, EarlyMove
<1> QED BY <1>3, <1>7 DEF IInv

(* What an early phase knows of the command's number.                      *)
LEMMA EarlyKnows ==
    ASSUME IInv, pc \in {"reuse", "resolve", "prepare", "root"}
    PROVE  /\ pc \in Early /\ job \in JobType /\ job.idx = 1 /\ attempt > 0
           /\ \A r \in runs : r.id # attempt
  BY DEF IInv, CommandFits, CommandTyped, PhaseFits, RunIsBacked, Early

(* What is served is a complete run of the newest generation.              *)
LEMMA ReusableRunFits == IInv /\ ReusableRun => IInv'
<1> SUFFICES ASSUME IInv, ReusableRun PROVE IInv'
  OBVIOUS
<1>1. CASE /\ \E r \in Reusable : served' = served \cup {[run |-> r, asked |-> latest]}
           /\ Leave
  <2>1. PICK r \in Reusable : served' = served \cup {[run |-> r, asked |-> latest]}
    BY <1>1
  <2>2. r \in runs /\ r.coverage = "Complete" /\ r.snap = latest
    BY DEF Reusable, sameAdvisoryDatabase
  <2>3. UNCHANGED <<shape, latest, records, runs, log, attempt, faults>>
    BY DEF ReusableRun
  <2>4. scannedNodes' = scannedNodes
    BY <2>3 DEF scannedNodes
  <2>5. AuditedRunIsStored'
    BY <2>3 DEF IInv, StoreIsTrue, AuditedRunIsStored
  <2>6. \A s \in served' : s.run \in runs' /\ s.run.coverage = "Complete" /\ s.run.snap = s.asked
    BY <2>1, <2>2, <2>3 DEF IInv, StoreIsTrue
  <2>7. StoreIsTrue'
    BY <2>3, <2>4, <2>5, <2>6 DEF IInv, StoreIsTrue
  <2> QED BY <1>1, <2>7, LeaveFits DEF IInv
<1>2. CASE /\ pc' = "resolve"
           /\ UNCHANGED <<served, job, cancelled, queue, flight, sem, results, refused, gap,
                          claims>>
  <2>1. StoreIsTrue'
    BY <1>2, StoreKept DEF ReusableRun, store, IInv
  <2> QED BY <1>2, <2>1, EarlyKnows, EarlyMove DEF ReusableRun, IInv
<1> QED BY <1>1, <1>2 DEF ReusableRun

(* The snapshot is pinned while no record of the command exists.           *)
LEMMA ResolveFits == IInv /\ resolveSnapshot => IInv'
<1> SUFFICES ASSUME IInv, resolveSnapshot PROVE IInv'
  OBVIOUS
<1>1. StoreIsTrue' /\ UNCHANGED store
  BY StoreKept DEF resolveSnapshot, IInv
<1>2. job' \in JobType /\ job'.idx = 1
  BY EarlyKnows DEF resolveSnapshot, JobType, IInv, StoreIsTrue
<1> QED BY <1>1, <1>2, EarlyKnows, EarlyMove DEF resolveSnapshot, store, IInv

(* Sharing the extraction sets a parameter only.                           *)
LEMMA PreExtractFits == IInv /\ preExtractVulnDB => IInv'
<1> SUFFICES ASSUME IInv, preExtractVulnDB PROVE IInv'
  OBVIOUS
<1>1. faults' \in 0..MaxFaults
  BY Spent DEF preExtractVulnDB, IInv, StoreIsTrue
<1>2. StoreIsTrue'
  BY <1>1, StoreGrows DEF preExtractVulnDB, IInv, StoreIsTrue
<1>3. job' \in JobType /\ job'.idx = 1
  BY EarlyKnows DEF preExtractVulnDB, JobType
<1> QED BY <1>2, <1>3, EarlyKnows, EarlyMove DEF preExtractVulnDB, IInv

(* The rooted scan leads to the pool, with or without the target's gap, or *)
(* to its answers.                                                         *)
LEMMA TargetRootedFits == IInv /\ scanTargetRooted => IInv'
<1> SUFFICES ASSUME IInv, scanTargetRooted PROVE IInv'
  OBVIOUS
<1>1. UNCHANGED <<shape, latest, runs, log, attempt, served, cancelled, flight, sem, results,
                  refused, claims>> /\ pc = "root"
  BY DEF scanTargetRooted
<1>2. gap = {} /\ job \in JobType /\ StoreIsTrue
  BY <1>1 DEF IInv, CommandFits, CommandTyped, PhaseFits, Early
<1>3. CASE StartPool /\ Spend(IF shape.nature[Target] = "sourceless" THEN 0 ELSE 1)
           /\ UNCHANGED <<records, gap>>
  <2>1. faults' \in 0..MaxFaults
    BY <1>2, <1>3, Spent DEF StoreIsTrue
  <2>2. StoreIsTrue'
    BY <1>1, <1>2, <1>3, <2>1, StoreGrows DEF StoreIsTrue
  <2> QED BY <1>1, <1>2, <1>3, <2>2, PoolStarts DEF IInv
<1>4. CASE StartPool
           /\ recordTargetFrameGap(IF shape.nature[Target] = "unbuildable" THEN 0 ELSE 1)
  <2> DEFINE r == Draft(Target, "unscannable", FALSE, "rooted", "none")
             cost == IF shape.nature[Target] = "unbuildable" THEN 0 ELSE 1
  <2>1. Mine(Target, r, here) /\ r = GapOf(here)
    BY <1>2, DraftIsMine, ScanWalkAssumption DEF Coverages, GapOf, Draft, here
  <2>2. Honest(r, shape.advised)
    BY <2>1 DEF Mine, here
  <2>3. putRecord(r, cost) /\ gap' = {r} /\ cost \in Nat
    BY <1>4 DEF recordTargetFrameGap
  <2>4. StoreIsTrue'
    BY <1>1, <1>2, <2>2, <2>3, StorePut
  <2> QED BY <1>1, <1>4, <2>1, <2>3, <2>4, PoolStarts DEF IInv
<1>5. CASE StartFill("answers") /\ UNCHANGED <<records, gap, faults>>
  <2>1. StoreIsTrue'
    BY <1>1, <1>2, <1>5, StoreGrows DEF StoreIsTrue
  <2> QED BY <1>1, <1>5, <2>1, FillStarts DEF IInv, Fills
<1> QED BY <1>3, <1>4, <1>5 DEF scanTargetRooted

(* A project's scan leads to its answers or to the pool.                   *)
LEMMA DispatchFits == IInv /\ dispatchModuleScans => IInv'
<1> SUFFICES ASSUME IInv, dispatchModuleScans PROVE IInv'
  OBVIOUS
<1>1. UNCHANGED <<shape, latest, records, runs, log, attempt, served, cancelled, flight, sem,
                  results, refused, gap, claims>> /\ pc = "root"
  BY DEF dispatchModuleScans
<1>2. gap = {} /\ StoreIsTrue
  BY <1>1 DEF IInv, CommandFits, PhaseFits, Early
<1>3. StartPool \/ \E f \in Fills : StartFill(f)
  BY DEF dispatchModuleScans, Fills
<1>4. faults' \in 0..MaxFaults
  BY <1>2, Spent DEF dispatchModuleScans, StoreIsTrue
<1>5. StoreIsTrue'
  BY <1>1, <1>2, <1>4, StoreGrows DEF StoreIsTrue
<1>6. CASE StartPool
  BY <1>1, <1>2, <1>5, <1>6, PoolStarts DEF IInv
<1>7. CASE \E f \in Fills : StartFill(f)
  BY <1>1, <1>5, <1>7, FillStarts DEF IInv
<1> QED BY <1>3, <1>6, <1>7

(* One coordinate more has its answer, and the last one completes them.    *)
LEMMA RootedAnswerFits == IInv /\ recordRootedAnswer => IInv'
<1> SUFFICES ASSUME IInv, recordRootedAnswer PROVE IInv'
  OBVIOUS
<1> DEFINE c == allCoords[job.idx]
           n == Len(allCoords)
<1>1. /\ UNCHANGED <<shape, latest, runs, log, attempt, served, cancelled, queue, flight, sem,
                     refused, gap, claims>>
      /\ pc = "fill" /\ NextIndex(allCoords, "gaps")
  BY DEF recordRootedAnswer
<1>2. /\ job \in JobType /\ job.idx \in 1..n /\ gap = {} /\ ~refused
      /\ DOMAIN results = {allCoords[i] : i \in 1..(job.idx - 1)}
      /\ DOMAIN flight = {} /\ DOMAIN claims = {}
  BY <1>1 DEF IInv, CommandFits, CommandTyped, PhaseFits, Late
<1>3. c \in Modules /\ n \in Nat \ {0} /\ Members(allCoords) = Modules
  BY <1>2, Coords
<1>4. PICK a \in rootedAnswers(c) :
         putRecord(a[1], a[2]) /\ results' = Entered(results, c, Success(a[1]))
  BY DEF recordRootedAnswer
<1>5. Mine(c, a[1], here) /\ a[2] \in Nat
  BY <1>2, <1>3, RootedIsMine DEF IInv
<1>6. Honest(a[1], shape.advised) /\ a[1] \in RecordType
  BY <1>5 DEF Mine, Honest, here
<1>7. StoreIsTrue'
  BY <1>1, <1>4, <1>5, <1>6, StorePut DEF IInv
<1>8. Outcomes(results', here) /\ DOMAIN results' = DOMAIN results \cup {c}
  <2>1. Outcomes(results, here)
    BY DEF IInv, CommandFits
  <2> HIDE DEF c
  <2>2. Outcomes(Entered(results, c, Success(a[1])), here)
    BY <1>3, <1>5, <2>1, SuccessEntered
  <2>3. DOMAIN results' = DOMAIN results \cup {c}
    BY <1>4 DEF Entered
  <2> QED BY <1>4, <2>2, <2>3
<1>9. DOMAIN results' = {allCoords[i] : i \in 1..job.idx}
  <2>1. \A i \in 1..job.idx : i \in 1..(job.idx - 1) \/ i = job.idx
    BY <1>2
  <2>2. \A i \in 1..(job.idx - 1) : i \in 1..job.idx
    BY <1>2
  <2>3. job.idx \in 1..job.idx
    BY <1>2
  <2> QED BY <1>2, <1>8, <2>1, <2>2, <2>3
<1>10. /\ job' \in JobType /\ job'.snap = job.snap
       /\ \/ job.idx = n /\ pc' = "gaps" /\ job'.idx = 1
          \/ job.idx # n /\ pc' = "fill" /\ job'.idx = job.idx + 1
  BY <1>1, <1>2 DEF NextIndex, JobType
<1>11. here' = here /\ scannedNodes' = scannedNodes
  BY <1>1, <1>10, HereKept
<1>12. CommandTyped'
  BY <1>1, <1>10, <1>11 DEF IInv, CommandFits, CommandTyped, Phases
<1>13. Claims(claims', results', scannedNodes', here')
  BY <1>1, <1>2, <1>11 DEF IInv, CommandFits, Claims
<1>14. Drafts(flight', here') /\ SlotsCounted(sem', flight')
  BY <1>1, <1>11 DEF IInv, CommandFits
<1>15. PhaseFits'
  <2>1. CASE job.idx = n
    <3>1. DOMAIN results' = Modules
      BY <1>3, <1>9, <2>1 DEF Members
    <3> QED BY <1>1, <1>2, <1>10, <2>1, <3>1 DEF PhaseFits, Early, Late
  <2>2. CASE job.idx # n
    <3>1. job'.idx \in 1..n /\ job'.idx - 1 = job.idx
      BY <1>2, <1>3, <1>10, <2>2
    <3> QED BY <1>1, <1>2, <1>9, <1>10, <2>2, <3>1 DEF PhaseFits, Early, Late
  <2> QED BY <2>1, <2>2
<1>16. RefusalKept' /\ RunIsBacked'
  BY <1>1, <1>2, <1>10 DEF RefusalKept, RunIsBacked, IInv, CommandFits
<1> QED BY <1>7, <1>8, <1>11, <1>12, <1>13, <1>14, <1>15, <1>16 DEF IInv, CommandFits

(* What the pool's steps know.                                             *)
LEMMA PoolKnows ==
    ASSUME IInv, pc = "pool"
    PROVE  /\ StoreIsTrue /\ job \in JobType /\ queue \in Seq(Modules)
           /\ cancelled \in BOOLEAN /\ refused \in BOOLEAN
           /\ Outcomes(results, here) /\ Drafts(flight, here) /\ SlotsCounted(sem, flight)
           /\ Partitioned(queue, flight, results)
           /\ refused => \E c \in DOMAIN results : results[c].err = "refused"
           /\ IsFiniteSet(DOMAIN flight)
<1>1. /\ StoreIsTrue /\ job \in JobType /\ queue \in Seq(Modules)
      /\ cancelled \in BOOLEAN /\ refused \in BOOLEAN
      /\ Outcomes(results, here) /\ Drafts(flight, here) /\ SlotsCounted(sem, flight)
  BY DEF IInv, CommandFits, CommandTyped
<1>2. /\ Partitioned(queue, flight, results)
      /\ refused => \E c \in DOMAIN results : results[c].err = "refused"
  BY DEF IInv, CommandFits, PhaseFits, RefusalKept
<1>3. IsFiniteSet(DOMAIN flight)
  BY <1>1, FS_Subset, ScanWalkAssumption DEF Drafts
<1> QED BY <1>1, <1>2, <1>3

(* A refusal among the outcomes is still there when another is entered.    *)
LEMMA RefusalEntered ==
    ASSUME NEW f, NEW c, c \notin DOMAIN f, NEW o, \E x \in DOMAIN f : f[x].err = "refused"
    PROVE  \E x \in DOMAIN Entered(f, c, o) : Entered(f, c, o)[x].err = "refused"
  BY DEF Entered

(* A worker takes the next coordinate: it answers from the store or puts   *)
(* it in flight.                                                           *)
LEMMA TakeFits == IInv /\ TakeModule => IInv'
<1> SUFFICES ASSUME IInv, TakeModule PROVE IInv'
  OBVIOUS
<1> DEFINE c == Head(queue)
<1>1. /\ UNCHANGED <<shape, latest, records, runs, log, attempt, served, pc, job, cancelled, sem,
                     refused, gap, claims>>
      /\ pc = "pool" /\ queue # <<>> /\ queue' = Tail(queue)
  BY DEF TakeModule
<1>2. /\ queue' \in Seq(Modules) /\ Distinct(queue') /\ c \in Modules
      /\ Members(queue) = Members(queue') \cup {c} /\ c \notin Members(queue')
  BY <1>1, PoolKnows, TakeHead DEF Partitioned
<1>3. c \notin DOMAIN flight /\ c \notin DOMAIN results
  BY <1>1, <1>2, PoolKnows DEF Partitioned
<1>4. CASE /\ \E r \in tryReuseCachedRecord(c) : results' = Entered(results, c, Success(r))
           /\ UNCHANGED <<flight, faults>>
  <2>1. PICK r \in tryReuseCachedRecord(c) : results' = Entered(results, c, Success(r))
    BY <1>4
  <2>2. Mine(c, r, here) /\ r \in RecordType
    BY <1>1, <1>2, PoolKnows, ReusedIsMine DEF Mine, Honest
  <2>3. Outcomes(results', here) /\ DOMAIN results' = DOMAIN results \cup {c}
    <3>1. Outcomes(results, here)
      BY <1>1, PoolKnows
    <3> HIDE DEF c
    <3>2. Outcomes(Entered(results, c, Success(r)), here)
      BY <1>2, <2>2, <3>1, SuccessEntered
    <3>3. DOMAIN results' = DOMAIN results \cup {c}
      BY <2>1 DEF Entered
    <3> QED BY <2>1, <3>2, <3>3
  <2>4. StoreIsTrue'
    BY <1>1, <1>4, PoolKnows, StoreKept DEF store
  <2>5. Partitioned(queue', flight', results')
    BY <1>1, <1>2, <1>3, <1>4, <2>3, PoolKnows DEF Partitioned
  <2>6. refused' => \E x \in DOMAIN results' : results'[x].err = "refused"
    BY <1>1, <1>3, <2>1, PoolKnows, RefusalEntered
  <2>7. CommandFits'
    BY <1>1, <1>2, <1>4, <2>3, <2>4, <2>5, <2>6, PoolKnows, PoolStep
  <2> QED BY <2>4, <2>7 DEF IInv
<1>5. CASE /\ Spend(IF composed(c) = tryReuseCachedRecord(c) /\ composed(c) # {} THEN 1 ELSE 0)
           /\ flight' = Entered(flight, c, [at |-> "scan", rec |-> NoRecord])
           /\ UNCHANGED results
  <2>1. faults' \in 0..MaxFaults
    BY <1>1, <1>5, PoolKnows, Spent DEF StoreIsTrue
  <2>2. StoreIsTrue'
    BY <1>1, <2>1, PoolKnows, StoreGrows DEF StoreIsTrue
  <2>3. /\ DOMAIN flight' = DOMAIN flight \cup {c} /\ flight'[c].at = "scan"
        /\ \A x \in DOMAIN flight : flight'[x] = flight[x]
    BY <1>3, <1>5 DEF Entered
  <2>4. Drafts(flight', here)
    BY <1>1, <1>2, <1>5, PoolKnows, RecordsTyped DEF Drafts, Entered, FlightType
  <2>5. Building(flight') = Building(flight)
    BY <1>3, <2>3 DEF Building
  <2>6. SlotsCounted(sem', flight')
    BY <1>1, <2>5, PoolKnows DEF SlotsCounted
  <2>7. Partitioned(queue', flight', results')
    BY <1>1, <1>2, <1>3, <1>5, <2>3, PoolKnows DEF Partitioned
  <2>8. CommandFits'
    BY <1>1, <1>2, <1>5, <2>2, <2>4, <2>6, <2>7, PoolKnows, PoolStep
  <2> QED BY <2>2, <2>8 DEF IInv
<1> QED BY <1>4, <1>5 DEF TakeModule

(* A worker that hands its outcome over leaves the pool's books right.     *)
LEMMA AnsweredKeeps ==
    ASSUME IInv, pc = "pool", NEW c \in DOMAIN flight, flight[c].at # "build", NEW o,
           Outcomes(Entered(results, c, o), here), Answered(c, o)
    PROVE  /\ Outcomes(results', here) /\ Drafts(flight', here) /\ SlotsCounted(sem, flight')
           /\ Partitioned(queue, flight', results')
           /\ refused \/ o.err = "refused" =>
                 \E x \in DOMAIN results' : results'[x].err = "refused"
<1>1. results' = Entered(results, c, o) /\ flight' = Restrict(flight, DOMAIN flight \ {c})
  BY DEF Answered
<1>2. DOMAIN results' = DOMAIN results \cup {c} /\ results'[c] = o
  BY <1>1 DEF Entered
<1>3. /\ Drafts(flight', here) /\ DOMAIN flight' = DOMAIN flight \ {c}
      /\ \A x \in DOMAIN flight \ {c} : flight'[x] = flight[x]
  BY <1>1, PoolKnows, DraftsRestricted
<1>4. Building(flight') = Building(flight)
  BY <1>3 DEF Building
<1>5. SlotsCounted(sem, flight')
  BY <1>4, PoolKnows DEF SlotsCounted
<1>6. c \notin DOMAIN results
  BY PoolKnows DEF Partitioned
<1>7. Partitioned(queue, flight', results')
  BY <1>2, <1>3, PoolKnows DEF Partitioned
<1>8. refused => \E x \in DOMAIN results' : results'[x].err = "refused"
  BY <1>1, <1>6, PoolKnows, RefusalEntered
<1>9. o.err = "refused" => \E x \in DOMAIN results' : results'[x].err = "refused"
  BY <1>2
<1> QED BY <1>1, <1>3, <1>5, <1>7, <1>8, <1>9

(* A worker that goes on to its next stage leaves its module in flight.    *)
LEMMA DraftMoves ==
    ASSUME IInv, pc = "pool", NEW c \in DOMAIN flight, NEW d \in FlightType,
           d.at # "scan" => Mine(c, d.rec, here), flight' = [flight EXCEPT ![c] = d]
    PROVE  /\ Drafts(flight', here) /\ DOMAIN flight' = DOMAIN flight
           /\ Partitioned(queue, flight', results)
           /\ Building(flight') = IF d.at = "build" THEN Building(flight) \cup {c}
                                  ELSE Building(flight) \ {c}
           /\ IsFiniteSet(Building(flight))
<1>1. DOMAIN flight' = DOMAIN flight /\ flight'[c] = d
      /\ \A x \in DOMAIN flight \ {c} : flight'[x] = flight[x]
  BY PoolKnows DEF Drafts
<1>2. Drafts(flight', here)
  BY <1>1, PoolKnows DEF Drafts
<1>3. Partitioned(queue, flight', results)
  BY <1>1, PoolKnows DEF Partitioned
<1>4. Building(flight') = IF d.at = "build" THEN Building(flight) \cup {c}
                          ELSE Building(flight) \ {c}
  BY <1>1 DEF Building
<1>5. IsFiniteSet(Building(flight))
  BY PoolKnows, FS_Subset DEF Building
<1> QED BY <1>1, <1>2, <1>3, <1>4, <1>5

(* A module is measured, or its scan fails, refuses or is stopped.         *)
LEMMA ScanModuleFits ==
    ASSUME IInv, NEW c \in Modules, ScanModule(c)
    PROVE  IInv'
<1>1. /\ UNCHANGED <<shape, latest, records, runs, log, attempt, served, pc, job, cancelled,
                     queue, sem, gap, claims>>
      /\ pc = "pool" /\ c \in DOMAIN flight /\ flight[c].at = "scan"
  BY DEF ScanModule
<1>2. CASE \E m \in measurements(c) : Drafted(c, m[1]) /\ Spend(m[2]) /\ UNCHANGED refused
  <2>1. PICK m \in measurements(c) : Drafted(c, m[1]) /\ Spend(m[2]) /\ UNCHANGED refused
    BY <1>2
  <2>2. Mine(c, m[1], here) /\ m[2] \in Nat
    BY <1>1, PoolKnows, MeasuredIsMine
  <2>3. StoreIsTrue'
    <3>1. faults' \in 0..MaxFaults
      BY <1>1, <2>1, <2>2, PoolKnows, Spent DEF StoreIsTrue
    <3> QED BY <1>1, <3>1, PoolKnows, StoreGrows DEF StoreIsTrue
  <2> DEFINE d == [at |-> IF job.reach /\ m[1].found THEN "graph" ELSE "put", rec |-> m[1]]
  <2>4. d \in FlightType /\ d.rec = m[1] /\ d.at # "build"
    BY <2>2 DEF FlightType, Mine, Honest
  <2>5. flight' = [flight EXCEPT ![c] = d] /\ results' = results
    BY <2>1 DEF Drafted
  <2> HIDE DEF d
  <2>6. /\ Drafts(flight', here) /\ Partitioned(queue, flight', results)
        /\ Building(flight') = Building(flight) \ {c}
    BY <1>1, <2>2, <2>4, <2>5, DraftMoves
  <2>7. Building(flight') = Building(flight)
    BY <1>1, <2>6 DEF Building
  <2>8. SlotsCounted(sem', flight')
    BY <1>1, <2>7, PoolKnows DEF SlotsCounted
  <2>9. CommandFits'
    BY <1>1, <2>1, <2>3, <2>5, <2>6, <2>8, PoolKnows, PoolStep
  <2> QED BY <2>3, <2>9 DEF IInv
<1>3. ASSUME NEW e \in {"fault", "cancelled", "refused"}, Answered(c, Failure(e)),
             refused' = (refused \/ e = "refused"), faults' \in 0..MaxFaults
      PROVE  IInv'
  <2>1. StoreIsTrue'
    BY <1>1, <1>3, PoolKnows, StoreGrows DEF StoreIsTrue
  <2>2. Outcomes(Entered(results, c, Failure(e)), here) /\ Failure(e).err = e
    BY <1>1, <1>3, PoolKnows, FailureEntered, RecordsTyped DEF Errors
  <2>3. /\ Outcomes(results', here) /\ Drafts(flight', here) /\ SlotsCounted(sem', flight')
        /\ Partitioned(queue', flight', results')
        /\ refused \/ e = "refused" => \E x \in DOMAIN results' : results'[x].err = "refused"
    BY <1>1, <1>3, <2>2, AnsweredKeeps
  <2>4. CommandFits'
    BY <1>1, <1>3, <2>1, <2>3, PoolKnows, PoolStep
  <2> QED BY <2>1, <2>4 DEF IInv
<1>4. faults \in 0..MaxFaults /\ refused \in BOOLEAN
  BY <1>1, PoolKnows DEF StoreIsTrue
<1>5. CASE Answered(c, Failure("fault")) /\ Spend(1) /\ UNCHANGED refused
  BY <1>3, <1>4, <1>5, Spent
<1>6. CASE /\ Answered(c, Failure("refused")) /\ Spend(IF job.shared THEN 1 ELSE 0)
           /\ refused' = TRUE
  <2>1. faults' \in 0..MaxFaults
    BY <1>4, <1>6, Spent
  <2> QED BY <1>3, <1>6, <2>1
<1>7. CASE /\ UNCHANGED <<faults, refused>>
           /\ \E o \in stoppedScan(c) :
                 IF o.err = "none" THEN Drafted(c, o.rec) ELSE Answered(c, o)
  <2>1. Failure("cancelled").err = "cancelled"
    BY DEF Failure
  <2>2. Answered(c, Failure("cancelled"))
    BY <1>7, <2>1 DEF stoppedScan
  <2> QED BY <1>3, <1>4, <1>7, <2>2
<1> QED BY <1>2, <1>5, <1>6, <1>7 DEF ScanModule

(* A slot of the semaphore is taken by one module more, or waited for in   *)
(* vain.                                                                   *)
LEMMA AcquireFits ==
    ASSUME IInv, NEW c \in Modules, AcquireCallGraphSem(c)
    PROVE  IInv'
<1>1. /\ UNCHANGED <<store, pc, job, cancelled, queue, results, refused, gap, claims>>
      /\ pc = "pool" /\ c \in DOMAIN flight /\ flight[c].at = "graph"
  BY DEF AcquireCallGraphSem
<1>2. StoreIsTrue'
  BY <1>1, PoolKnows, StoreKept
<1>3. flight[c] \in FlightType /\ Mine(c, flight[c].rec, here) /\ c \notin Building(flight)
  BY <1>1, PoolKnows DEF Drafts, Building
<1>4. ASSUME NEW p \in {"build", "put"}, flight' = [flight EXCEPT ![c].at = p]
      PROVE  /\ Drafts(flight', here) /\ Partitioned(queue, flight', results)
             /\ Building(flight') = IF p = "build" THEN Building(flight) \cup {c}
                                    ELSE Building(flight)
             /\ IsFiniteSet(Building(flight))
  <2> DEFINE d == [flight[c] EXCEPT !.at = p]
  <2>1. d \in FlightType /\ d.rec = flight[c].rec /\ d.at = p
    BY <1>3 DEF FlightType
  <2>2. flight' = [flight EXCEPT ![c] = d]
    BY <1>4
  <2> HIDE DEF d
  <2> QED BY <1>1, <1>3, <2>1, <2>2, DraftMoves
<1>5. SlotsCounted(sem', flight') /\ Drafts(flight', here) /\ Partitioned(queue, flight', results)
  <2>1. CASE SlotFree /\ sem' = sem + 1 /\ flight' = [flight EXCEPT ![c].at = "build"]
    <3>1. /\ Building(flight') = Building(flight) \cup {c} /\ IsFiniteSet(Building(flight))
          /\ Drafts(flight', here) /\ Partitioned(queue, flight', results)
      BY <1>4, <2>1
    <3>2. Cardinality(Building(flight')) = Cardinality(Building(flight)) + 1
      BY <1>3, <3>1, FS_AddElement
    <3>3. /\ sem = Cardinality(Building(flight)) /\ sem < CallGraphWorkers
          /\ Cardinality(Building(flight)) \in Nat /\ CallGraphWorkers \in Nat
      BY <1>1, <2>1, <3>1, PoolKnows, FS_CardinalityType, ScanWalkAssumption
         DEF SlotsCounted, SlotFree
    <3>4. sem' = Cardinality(Building(flight')) /\ sem' <= CallGraphWorkers
      BY <2>1, <3>2, <3>3
    <3> QED BY <3>1, <3>4 DEF SlotsCounted
  <2>2. CASE UNCHANGED sem /\ flight' = [flight EXCEPT ![c].at = "put"]
    BY <1>1, <1>4, <2>2, PoolKnows DEF SlotsCounted
  <2> QED BY <2>1, <2>2 DEF AcquireCallGraphSem
<1>6. CommandFits'
  BY <1>1, <1>2, <1>5, PoolKnows, PoolStep DEF store
<1> QED BY <1>2, <1>6 DEF IInv

(* The slot is given back when the call graph is built.                    *)
LEMMA SpawnFits ==
    ASSUME IInv, NEW c \in Modules, SpawnCallGraph(c)
    PROVE  IInv'
<1>1. /\ UNCHANGED <<store, pc, job, cancelled, queue, results, refused, gap, claims>>
      /\ pc = "pool" /\ c \in DOMAIN flight /\ flight[c].at = "build" /\ sem' = sem - 1
      /\ flight' = [flight EXCEPT ![c].at = "put"]
  BY DEF SpawnCallGraph, ReleaseCallGraphSem
<1>2. StoreIsTrue'
  BY <1>1, PoolKnows, StoreKept
<1>3. flight[c] \in FlightType /\ Mine(c, flight[c].rec, here) /\ c \in Building(flight)
  BY <1>1, PoolKnows DEF Drafts, Building
<1> DEFINE d == [flight[c] EXCEPT !.at = "put"]
<1>4. /\ d \in FlightType /\ d.rec = flight[c].rec /\ d.at = "put"
      /\ flight' = [flight EXCEPT ![c] = d]
  BY <1>1, <1>3 DEF FlightType
<1> HIDE DEF d
<1>5. /\ Drafts(flight', here) /\ Partitioned(queue, flight', results)
      /\ Building(flight') = Building(flight) \ {c} /\ IsFiniteSet(Building(flight))
  BY <1>1, <1>3, <1>4, DraftMoves
<1>6. Cardinality(Building(flight')) = Cardinality(Building(flight)) - 1
  BY <1>3, <1>5, FS_RemoveElement
<1>7. SlotsCounted(sem', flight')
  <2>1. /\ sem = Cardinality(Building(flight)) /\ sem <= CallGraphWorkers
        /\ Cardinality(Building(flight)) \in Nat /\ CallGraphWorkers \in Nat
    BY <1>1, <1>5, PoolKnows, FS_CardinalityType, ScanWalkAssumption DEF SlotsCounted
  <2>2. sem' = Cardinality(Building(flight')) /\ sem' <= CallGraphWorkers
    BY <1>1, <1>6, <2>1
  <2> QED BY <2>2 DEF SlotsCounted
<1>8. CommandFits'
  BY <1>1, <1>2, <1>5, <1>7, PoolKnows, PoolStep DEF store
<1> QED BY <1>2, <1>8 DEF IInv

(* A draft is stored and handed over, or its write fails or is cancelled.  *)
LEMMA SealFits ==
    ASSUME IInv, NEW c \in Modules, sealAndPut(c)
    PROVE  IInv'
<1>1. /\ UNCHANGED <<shape, latest, runs, log, attempt, served, pc, job, cancelled, queue, sem,
                     refused, gap, claims>>
      /\ pc = "pool" /\ c \in DOMAIN flight /\ flight[c].at = "put"
  BY DEF sealAndPut
<1>2. Mine(c, flight[c].rec, here)
  BY <1>1, PoolKnows DEF Drafts
<1>3. ASSUME NEW o, Answered(c, o), Outcomes(Entered(results, c, o), here), StoreIsTrue'
      PROVE  IInv'
  <2>1. /\ Outcomes(results', here) /\ Drafts(flight', here) /\ SlotsCounted(sem', flight')
        /\ Partitioned(queue', flight', results')
        /\ refused => \E x \in DOMAIN results' : results'[x].err = "refused"
    BY <1>1, <1>3, AnsweredKeeps
  <2>2. CommandFits'
    BY <1>1, <1>3, <2>1, PoolKnows, PoolStep
  <2> QED BY <1>3, <2>2 DEF IInv
<1>4. CASE Answered(c, Success(flight[c].rec)) /\ putRecord(flight[c].rec, 0)
  <2>1. Honest(flight[c].rec, shape.advised)
    BY <1>2 DEF Mine, here
  <2>2. StoreIsTrue'
    BY <1>1, <1>4, <2>1, PoolKnows, StorePut
  <2>3. Outcomes(Entered(results, c, Success(flight[c].rec)), here)
    BY <1>1, <1>2, PoolKnows, SuccessEntered
  <2> QED BY <1>3, <1>4, <2>2, <2>3
<1>5. CASE Answered(c, Failure("fault")) /\ Spend(1) /\ UNCHANGED records
  <2>1. faults' \in 0..MaxFaults
    BY <1>1, <1>5, PoolKnows, Spent DEF StoreIsTrue
  <2>2. StoreIsTrue'
    BY <1>1, <1>5, <2>1, PoolKnows, StoreGrows DEF StoreIsTrue
  <2>3. Outcomes(Entered(results, c, Failure("fault")), here)
    BY <1>1, PoolKnows, FailureEntered DEF Errors
  <2> QED BY <1>3, <1>5, <2>2, <2>3
<1>6. CASE Answered(c, Failure("cancelled")) /\ UNCHANGED <<records, faults>>
  <2>1. StoreIsTrue'
    BY <1>1, <1>6, PoolKnows, StoreKept DEF store
  <2>2. Outcomes(Entered(results, c, Failure("cancelled")), here)
    BY <1>1, PoolKnows, FailureEntered DEF Errors
  <2> QED BY <1>3, <1>6, <2>1, <2>2
<1> QED BY <1>4, <1>5, <1>6 DEF sealAndPut

(* The drained pool has an outcome for every module; the flagged ones go   *)
(* round again, and a refusal is not among them.                           *)
LEMMA CollectFits == IInv /\ CollectResults => IInv'
<1> SUFFICES ASSUME IInv, CollectResults PROVE IInv'
  OBVIOUS
<1> DEFINE F == {c \in Modules : results[c].err = "none" /\ results[c].rec.found}
           again == SetToSeq(F)
<1>1. /\ UNCHANGED <<store, cancelled, flight, sem, refused, gap, claims>>
      /\ pc = "pool" /\ queue = <<>> /\ DOMAIN flight = {}
  BY DEF CollectResults
<1>2. StoreIsTrue' /\ UNCHANGED <<shape, attempt, runs>>
  BY <1>1, PoolKnows, StoreKept DEF store
<1>3. DOMAIN results = Modules
  <2>1. Members(queue) = {}
    BY <1>1 DEF Members
  <2>2. Modules \subseteq DOMAIN results
    BY <1>1, <2>1, PoolKnows DEF Partitioned
  <2> QED BY <1>1, <2>2, PoolKnows DEF Outcomes
<1>4. /\ job \in JobType /\ job.idx = 1 /\ DOMAIN claims = {} /\ gap \subseteq {GapOf(here)}
      /\ attempt > 0
  BY <1>1 DEF IInv, CommandFits, CommandTyped, PhaseFits, Late
<1>5. CASE /\ queue' = again /\ results' = Restrict(results, Modules \ Range(again))
           /\ job' = [job EXCEPT !.mode = "source"] /\ UNCHANGED pc
  <2>1. IsFiniteSet(F) /\ F \subseteq Modules
    BY ScanWalkAssumption, FS_Subset
  <2>2. again \in Seq(F) /\ Distinct(again) /\ Members(again) = F
    BY <2>1, SetSeq
  <2>3. Range(again) = F
    <3>1. DOMAIN again = 1..Len(again)
      BY <2>2
    <3> QED BY <2>2, <3>1 DEF Range, Members
  <2>4. /\ Outcomes(results', here) /\ DOMAIN results' = Modules \ F
        /\ \A x \in Modules \ F : results'[x] = results[x]
    <3>1. results' = Restrict(results, Modules \ F) /\ Modules \ F \in SUBSET DOMAIN results
      BY <1>3, <1>5, <2>3
    <3>2. \A x \in Modules \ F : results'[x] = results[x]
      BY <3>1 DEF Restrict
    <3> QED BY <1>1, <3>1, <3>2, PoolKnows, OutcomesRestricted
  <2>5. job' \in JobType /\ job'.snap = job.snap /\ job'.idx = 1
    BY <1>4, <1>5 DEF JobType
  <2>6. here' = here /\ scannedNodes' = scannedNodes
    BY <1>2, <2>5, HereKept
  <2>7. CommandTyped'
    <3>1. queue' \in Seq(Modules)
      BY <1>5, <2>1, <2>2
    <3> QED BY <1>1, <1>2, <1>5, <2>5, <2>6, <3>1 DEF IInv, CommandFits, CommandTyped
  <2>8. /\ Drafts(flight', here') /\ SlotsCounted(sem', flight')
        /\ Claims(claims', results', scannedNodes', here')
    BY <1>1, <1>4, <2>6 DEF IInv, CommandFits, Claims
  <2>9. Partitioned(queue', flight', results')
    BY <1>1, <1>5, <2>2, <2>4 DEF Partitioned
  <2>10. PhaseFits'
    BY <1>1, <1>4, <1>5, <2>5, <2>9 DEF PhaseFits, Early, Late
  <2>11. RefusalKept'
    <3>1. ASSUME refused PROVE \E c \in DOMAIN results' : results'[c].err = "refused"
      BY <1>1, <1>3, <2>4, <3>1, PoolKnows
    <3> QED BY <1>1, <1>5, <3>1 DEF RefusalKept, Late
  <2>12. RunIsBacked'
    BY <1>1, <1>2, <1>5 DEF RunIsBacked, IInv, CommandFits
  <2> QED BY <1>2, <2>4, <2>6, <2>7, <2>8, <2>10, <2>11, <2>12 DEF IInv, CommandFits
<1>6. CASE pc' = "gaps" /\ UNCHANGED <<queue, results, job>>
  <2>1. here' = here /\ scannedNodes' = scannedNodes
    BY <1>2, <1>6, HereKept
  <2>2. CommandTyped'
    BY <1>1, <1>2, <1>6, <2>1 DEF IInv, CommandFits, CommandTyped, Phases
  <2>3. /\ Outcomes(results', here') /\ Drafts(flight', here') /\ SlotsCounted(sem', flight')
        /\ Claims(claims', results', scannedNodes', here')
    BY <1>1, <1>6, <2>1 DEF IInv, CommandFits
  <2>4. PhaseFits'
    BY <1>1, <1>3, <1>4, <1>6 DEF PhaseFits, Early, Late
  <2>5. RefusalKept' /\ RunIsBacked'
    BY <1>1, <1>2, <1>6 DEF RefusalKept, RunIsBacked, Late, IInv, CommandFits
  <2> QED BY <1>2, <2>1, <2>2, <2>3, <2>4, <2>5 DEF IInv, CommandFits
<1> QED BY <1>5, <1>6 DEF CollectResults

(* The frame gap is a record of the target the command may claim.          *)
LEMMA GapIsMine ==
    ASSUME StoreIsTrue, job \in JobType
    PROVE  Mine(Target, GapOf(here), here)
<1>1. GapOf(here) = Draft(Target, "unscannable", FALSE, "rooted", "none")
  BY DEF GapOf, Draft, here
<1> QED BY <1>1, DraftIsMine, ScanWalkAssumption DEF Coverages

(* Only a refusal of the target that its own gap replaced lets the run go  *)
(* on.                                                                     *)
LEMMA GapsFit == IInv /\ ApplyFrameGaps => IInv'
<1> SUFFICES ASSUME IInv, ApplyFrameGaps PROVE IInv'
  OBVIOUS
<1>1. StoreIsTrue' /\ UNCHANGED store /\ pc = "gaps"
  BY StoreKept DEF ApplyFrameGaps, IInv
<1>2. CASE Leave
  BY <1>1, <1>2, LeaveFits DEF IInv
<1>3. CASE /\ ~firstSnapshotIntegrityFailure(applyFrameGaps)
           /\ pc' = "tally" /\ results' = applyFrameGaps
           /\ UNCHANGED <<job, cancelled, queue, flight, sem, refused, gap, claims>>
  <2>1. /\ job \in JobType /\ job.idx = 1 /\ DOMAIN claims = {} /\ DOMAIN results = Modules
        /\ DOMAIN flight = {} /\ gap \subseteq {GapOf(here)} /\ Outcomes(results, here)
    BY <1>1 DEF IInv, CommandFits, CommandTyped, PhaseFits, Late
  <2>2. /\ here' = here /\ scannedNodes' = scannedNodes
        /\ UNCHANGED <<shape, attempt, runs, records>>
    BY <1>1, <1>3, HereKept DEF store
  <2>3. \/ gap = {} /\ results' = results
        \/ gap # {} /\ results' = [results EXCEPT ![Target] = Success(GapOf(here))]
    <3>1. CASE gap = {}
      BY <1>3, <3>1 DEF applyFrameGaps
    <3>2. CASE gap # {}
      <4>1. (CHOOSE g \in gap : TRUE) = GapOf(here)
        BY <2>1, <3>2
      <4> QED BY <1>3, <3>2, <4>1 DEF applyFrameGaps
    <3> QED BY <3>1, <3>2
  <2>4. Mine(Target, GapOf(here), here) /\ GapOf(here) \in RecordType
    BY <2>1, GapIsMine DEF IInv, Mine, Honest
  <2>5. Outcomes(results', here) /\ DOMAIN results' = Modules
    BY <2>1, <2>3, <2>4, RecordsTyped, ScanWalkAssumption DEF Outcomes
  <2>6. CommandTyped'
    BY <1>1, <1>3, <2>2 DEF IInv, CommandFits, CommandTyped, Phases
  <2>7. /\ Drafts(flight', here') /\ SlotsCounted(sem', flight')
        /\ Claims(claims', results', scannedNodes', here')
    BY <1>3, <2>1, <2>2 DEF IInv, CommandFits, Claims
  <2>8. PhaseFits'
    <3>1. splitLocalReplaceNodes' = splitLocalReplaceNodes
      BY <2>2 DEF splitLocalReplaceNodes
    <3>2. 1 \in 1..Len(splitLocalReplaceNodes)
      BY Split DEF IInv, StoreIsTrue
    <3> QED BY <1>3, <2>1, <2>5, <3>1, <3>2 DEF PhaseFits, Early, Late
  <2>9. RefusalKept'
    <3> SUFFICES ASSUME refused PROVE results'[Target] = Success(GapOf(here))
      BY <1>3, <2>2 DEF RefusalKept
    <3>1. \E c \in Modules : results[c].err = "refused"
      BY <1>1, <2>1 DEF IInv, CommandFits, RefusalKept
    <3>2. \A c \in Modules : results'[c].err # "refused"
      BY <1>3, <2>5 DEF firstSnapshotIntegrityFailure
    <3> QED BY <2>1, <2>3, <3>1, <3>2, ScanWalkAssumption
  <2>10. RunIsBacked'
    BY <1>1, <1>3, <2>2 DEF RunIsBacked, IInv, CommandFits
  <2> QED BY <1>1, <2>2, <2>5, <2>6, <2>7, <2>8, <2>9, <2>10 DEF IInv, CommandFits
<1> QED BY <1>2, <1>3 DEF ApplyFrameGaps

(* One more node's claim.                                                  *)
LEMMA ClaimEntered ==
    ASSUME NEW f, NEW res, NEW nodes, NEW h, Claims(f, res, nodes, h), NEW c \in nodes, NEW r,
           Mine(c, r, h),
           IF c \in Modules /\ res[c].err = "none" THEN r = res[c].rec ELSE ~r.found
    PROVE  Claims(Entered(f, c, r), res, nodes, h)
<1>1. r \in RecordType
  BY DEF Mine, Honest
<1>2. /\ DOMAIN Entered(f, c, r) = DOMAIN f \cup {c} /\ Entered(f, c, r)[c] = r
      /\ \A x \in DOMAIN f \ {c} : Entered(f, c, r)[x] = f[x]
      /\ Entered(f, c, r) \in [DOMAIN f \cup {c} -> RecordType]
  BY <1>1 DEF Claims, Entered
<1> QED BY <1>2 DEF Claims

(* One node more is claimed by a record of the command's own.              *)
LEMMA TallyFits == IInv /\ tallyModuleResults => IInv'
<1> SUFFICES ASSUME IInv, tallyModuleResults PROVE IInv'
  OBVIOUS
<1> DEFINE c == splitLocalReplaceNodes[job.idx]
           n == Len(splitLocalReplaceNodes)
           replaced == Draft(c, "unscannable", FALSE, "unrecorded", "none")
           failed == Draft(c, "failed", FALSE, "isolated", "none")
<1>1. UNCHANGED <<shape, latest, runs, log, attempt, served>> /\ pc = "tally"
  BY DEF tallyModuleResults
<1>2. /\ StoreIsTrue /\ job \in JobType /\ job.idx \in 1..n /\ DOMAIN results = Modules
      /\ DOMAIN flight = {} /\ Claims(claims, results, scannedNodes, here)
      /\ Outcomes(results, here)
  BY <1>1 DEF IInv, CommandFits, CommandTyped, PhaseFits, Late
<1>3. c \in scannedNodes /\ n \in Nat \ {0}
  BY <1>2, Split DEF StoreIsTrue
<1>4. c \in Modules \/ c \in Replaced
  BY <1>2, <1>3, ShapeTyped DEF scannedNodes, StoreIsTrue
<1>5. /\ Mine(c, replaced, here) /\ ~replaced.found /\ Mine(c, failed, here) /\ ~failed.found
  BY <1>2, <1>4, DraftIsMine DEF Coverages, Draft
<1>6. CASE Leave /\ UNCHANGED <<records, faults>>
  <2>1. StoreIsTrue'
    BY <1>1, <1>2, <1>6, StoreKept DEF store
  <2> QED BY <1>6, <2>1, LeaveFits DEF IInv
<1>7. CASE /\ \/ c \in Replaced /\ Claim(c, replaced) /\ putRecord(replaced, 0)
              \/ /\ c \notin Replaced /\ results[c].err # "none"
                 /\ Claim(c, failed) /\ putRecord(failed, 0)
              \/ /\ c \notin Replaced /\ results[c].err = "none"
                 /\ Claim(c, results[c].rec) /\ UNCHANGED <<records, faults>>
           /\ NextIndex(splitLocalReplaceNodes, "verify")
           /\ UNCHANGED <<cancelled, queue, flight, sem, results, refused, gap>>
  <2>1. StoreIsTrue' /\ Claims(claims', results, scannedNodes, here)
    <3>1. CASE c \in Replaced /\ Claim(c, replaced) /\ putRecord(replaced, 0)
      <4>1. Honest(replaced, shape.advised)
        BY <1>5 DEF Mine, here
      <4>2. StoreIsTrue'
        BY <1>1, <1>2, <3>1, <4>1, StorePut
      <4>3. c \notin Modules
        BY <3>1, ScanWalkAssumption
      <4> QED BY <1>2, <1>3, <1>5, <3>1, <4>2, <4>3, ClaimEntered DEF Claim
    <3>2. CASE results[c].err # "none" /\ Claim(c, failed) /\ putRecord(failed, 0)
      <4>1. Honest(failed, shape.advised)
        BY <1>5 DEF Mine, here
      <4>2. StoreIsTrue'
        BY <1>1, <1>2, <3>2, <4>1, StorePut
      <4> QED BY <1>2, <1>3, <1>5, <3>2, <4>2, ClaimEntered DEF Claim
    <3>3. CASE /\ c \notin Replaced /\ results[c].err = "none"
               /\ Claim(c, results[c].rec) /\ UNCHANGED <<records, faults>>
      <4>1. c \in Modules /\ Mine(c, results[c].rec, here)
        BY <1>2, <1>4, <3>3 DEF Outcomes
      <4>2. StoreIsTrue'
        BY <1>1, <1>2, <3>3, StoreKept DEF store
      <4> QED BY <1>2, <1>3, <3>3, <4>1, <4>2, ClaimEntered DEF Claim
    <3> QED BY <1>7, <3>1, <3>2, <3>3
  <2>2. /\ job' \in JobType /\ job'.snap = job.snap
        /\ \/ pc' = "verify" /\ job'.idx = 1
           \/ pc' = "tally" /\ job'.idx \in 1..n
    BY <1>1, <1>2, <1>3, <1>7 DEF NextIndex, JobType
  <2>3. /\ here' = here /\ scannedNodes' = scannedNodes
        /\ splitLocalReplaceNodes' = splitLocalReplaceNodes
    BY <1>1, <2>2, HereKept DEF splitLocalReplaceNodes
  <2>4. CommandTyped'
    BY <1>1, <1>7, <2>2, <2>3 DEF IInv, CommandFits, CommandTyped, Phases
  <2>5. Outcomes(results', here') /\ Drafts(flight', here') /\ SlotsCounted(sem', flight')
    BY <1>7, <2>3 DEF IInv, CommandFits
  <2>6. PhaseFits'
    BY <1>2, <1>7, <2>2, <2>3 DEF PhaseFits, Early, Late
  <2>7. RefusalKept' /\ RunIsBacked'
    BY <1>1, <1>7, <2>2, <2>3 DEF RefusalKept, RunIsBacked, Late, IInv, CommandFits
  <2> QED BY <1>7, <2>1, <2>3, <2>4, <2>5, <2>6, <2>7 DEF IInv, CommandFits
<1>8. \/ Leave /\ UNCHANGED <<records, faults>>
      \/ /\ \/ c \in Replaced /\ Claim(c, replaced) /\ putRecord(replaced, 0)
            \/ /\ c \notin Replaced /\ results[c].err # "none"
               /\ Claim(c, failed) /\ putRecord(failed, 0)
            \/ /\ c \notin Replaced /\ results[c].err = "none"
               /\ Claim(c, results[c].rec) /\ UNCHANGED <<records, faults>>
         /\ NextIndex(splitLocalReplaceNodes, "verify")
         /\ UNCHANGED <<cancelled, queue, flight, sem, results, refused, gap>>
  BY DEF tallyModuleResults, Success
<1> QED BY <1>6, <1>7, <1>8

(* A run is completed only if every claim was read back.                   *)
LEMMA VerifyFits == IInv /\ verifyRecordsPersisted => IInv'
<1> SUFFICES ASSUME IInv, verifyRecordsPersisted PROVE IInv'
  OBVIOUS
<1>1. StoreIsTrue' /\ UNCHANGED store /\ pc = "verify"
  BY StoreKept DEF verifyRecordsPersisted, IInv
<1>2. CASE Leave
  BY <1>1, <1>2, LeaveFits DEF IInv
<1>3. CASE /\ \A c \in scannedNodes : c \in DOMAIN claims /\ claims[c] \in records
           /\ pc' = "complete"
           /\ UNCHANGED <<job, cancelled, queue, flight, sem, results, refused, gap, claims>>
  <2>1. /\ here' = here /\ scannedNodes' = scannedNodes
        /\ UNCHANGED <<shape, attempt, runs, records>>
    BY <1>1, <1>3, HereKept DEF store
  <2>2. CommandTyped'
    BY <1>1, <1>3, <2>1 DEF IInv, CommandFits, CommandTyped, Phases
  <2>3. /\ Outcomes(results', here') /\ Drafts(flight', here') /\ SlotsCounted(sem', flight')
        /\ Claims(claims', results', scannedNodes', here')
    BY <1>3, <2>1 DEF IInv, CommandFits
  <2>4. PhaseFits'
    BY <1>1, <1>3 DEF PhaseFits, Early, Late, IInv, CommandFits
  <2>5. DOMAIN claims = scannedNodes
    BY <1>3 DEF IInv, CommandFits, Claims
  <2>6. RefusalKept' /\ RunIsBacked'
    BY <1>1, <1>3, <2>1, <2>5 DEF RefusalKept, RunIsBacked, Late, IInv, CommandFits
  <2> QED BY <1>1, <2>2, <2>3, <2>4, <2>6 DEF IInv, CommandFits
<1> QED BY <1>2, <1>3 DEF verifyRecordsPersisted, HasVulnerabilityRecord

(* What completeRun makes of the claims is a true run.                     *)
LEMMA CompletedIsTrue ==
    ASSUME IInv, pc = "complete"
    PROVE  RunIsTrue(completedRun, records, scannedNodes) /\ completedRun.id = attempt
<1> DEFINE nodes == scannedNodes
           hit == {c \in nodes : claims[c].found}
           lost == {c \in nodes : claims[c].cov = "failed"}
           blind == {c \in nodes : claims[c].cov = "unscannable"}
<1>1. /\ DOMAIN claims = nodes /\ \A c \in nodes : claims[c] \in records
      /\ claims \in [nodes -> RecordType] /\ \A c \in nodes : Mine(c, claims[c], here)
      /\ job \in JobType /\ attempt \in 1..MaxScans
  BY DEF IInv, StoreIsTrue, CommandFits, CommandTyped, RunIsBacked, Claims
<1>2. IsFiniteSet(nodes)
  BY ShapeTyped DEF IInv, StoreIsTrue
<1>3. /\ Cardinality(hit) \in 0..Cardinality(nodes)
      /\ Cardinality(hit) = 0 => hit = {}
  <2>1. IsFiniteSet(hit) /\ Cardinality(hit) <= Cardinality(nodes)
    BY <1>2, FS_Subset
  <2> QED BY <1>2, <2>1, FS_CardinalityType, FS_EmptySet
<1>4. /\ Cardinality(lost) \in Nat /\ Cardinality(blind) \in Nat
      /\ Cardinality(lost) = 0 => lost = {}
      /\ Cardinality(blind) = 0 => blind = {}
  <2>1. IsFiniteSet(lost) /\ IsFiniteSet(blind)
    BY <1>2, FS_Subset
  <2> QED BY <2>1, FS_CardinalityType, FS_EmptySet
<1> DEFINE cover == DetermineCoverageStatus(Cardinality(lost), Cardinality(blind),
                                            Cardinality(nodes))
           word == DetermineFindingsStatus(Cardinality(hit))
<1>5. /\ cover \in {"Failed", "Partial", "Complete"}
      /\ cover = "Complete" => \A c \in nodes : claims[c].cov = "analysed"
  <2>1. /\ cover \in {"Failed", "Partial", "Complete"}
        /\ cover = "Complete" => ~(Cardinality(lost) + Cardinality(blind) > 0)
    BY DEF DetermineCoverageStatus
  <2>2. cover = "Complete" => lost = {} /\ blind = {}
    BY <1>4, <2>1
  <2>3. \A c \in nodes : claims[c].cov \in Coverages
    BY <1>1 DEF RecordType
  <2> QED BY <2>1, <2>2, <2>3 DEF Coverages
<1>6. /\ word \in {"Affected", "Clean"}
      /\ word = "Clean" => \A c \in nodes : ~claims[c].found
  <2>1. word \in {"Affected", "Clean"} /\ (word = "Clean" => Cardinality(hit) = 0)
    BY <1>3 DEF DetermineFindingsStatus
  <2> QED BY <1>3, <2>1
<1>7. completedRun = [id |-> attempt, snap |-> job.snap, prepass |-> job.prepass,
                      claims |-> claims, affected |-> Cardinality(hit), findings |-> word,
                      coverage |-> cover]
  BY DEF completedRun, CoverageCount
<1>8. \A c \in nodes : /\ claims[c].coord = c /\ claims[c].snap = job.snap
                       /\ claims[c].cov = "failed" => claims[c].by = attempt
  BY <1>1 DEF Mine, here
<1>9. job.snap \in Generations /\ job.prepass \in BOOLEAN
  BY <1>1 DEF JobType
<1> HIDE DEF nodes, hit, cover, word
<1>10. completedRun \in
         [id : 1..MaxScans, snap : Generations, prepass : BOOLEAN,
          claims : [nodes -> RecordType], affected : 0..Cardinality(nodes),
          findings : {"Affected", "Clean"}, coverage : {"Failed", "Partial", "Complete"}]
  BY <1>1, <1>3, <1>5, <1>6, <1>7, <1>9
<1>11. RunIsTrue(completedRun, records, nodes)
  <2>1. /\ completedRun.claims = claims /\ completedRun.snap = job.snap
        /\ completedRun.id = attempt /\ completedRun.coverage = cover
        /\ completedRun.findings = word
    BY <1>7
  <2>2. ASSUME NEW c \in nodes
        PROVE  /\ claims[c] \in records /\ claims[c].coord = c /\ claims[c].snap = job.snap
               /\ claims[c].cov = "failed" => claims[c].by = attempt
               /\ cover = "Complete" => claims[c].cov = "analysed"
               /\ word = "Clean" => ~claims[c].found
    BY <1>1, <1>5, <1>6, <1>8
  <2>3. ASSUME NEW c \in nodes
        PROVE  /\ completedRun.claims[c] \in records /\ completedRun.claims[c].coord = c
               /\ completedRun.claims[c].snap = completedRun.snap
               /\ completedRun.claims[c].cov = "failed" =>
                     completedRun.claims[c].by = completedRun.id
               /\ completedRun.coverage = "Complete" => completedRun.claims[c].cov = "analysed"
               /\ completedRun.findings = "Clean" => ~completedRun.claims[c].found
    BY <2>1, <2>2
  <2> QED BY <1>10, <2>3 DEF RunIsTrue
<1> QED BY <1>7, <1>11 DEF nodes

(* The run stored is the only one of its number.                           *)
LEMMA CompleteFits == IInv /\ completeRun => IInv'
<1> SUFFICES ASSUME IInv, completeRun PROVE IInv'
  OBVIOUS
<1>1. /\ UNCHANGED <<shape, latest, records, log, attempt, served, faults,
                     job, cancelled, queue, flight, sem, results, refused, gap, claims>>
      /\ pc = "complete" /\ pc' = "audit" /\ runs' = runs \cup {completedRun}
  BY DEF completeRun
<1>2. here' = here /\ scannedNodes' = scannedNodes
  BY <1>1, HereKept
<1>3. completedRun' = completedRun
  BY <1>1, <1>2 DEF completedRun, CoverageCount
<1>4. RunIsTrue(completedRun, records, scannedNodes) /\ completedRun.id = attempt
  BY <1>1, CompletedIsTrue
<1>5. StoreIsTrue'
  <2>1. \A r \in runs' : RunIsTrue(r, records', scannedNodes') /\ r.id <= attempt'
    BY <1>1, <1>2, <1>4 DEF IInv, StoreIsTrue
  <2>2. AuditedRunIsStored'
    BY <1>1 DEF IInv, StoreIsTrue, AuditedRunIsStored
  <2>3. \A s \in served' : s.run \in runs' /\ s.run.coverage = "Complete" /\ s.run.snap = s.asked
    BY <1>1 DEF IInv, StoreIsTrue
  <2> QED BY <1>1, <2>1, <2>2, <2>3 DEF IInv, StoreIsTrue
<1>6. CommandTyped'
  BY <1>1, <1>2 DEF IInv, CommandFits, CommandTyped, Phases
<1>7. /\ Outcomes(results', here') /\ Drafts(flight', here') /\ SlotsCounted(sem', flight')
      /\ Claims(claims', results', scannedNodes', here')
  BY <1>1, <1>2 DEF IInv, CommandFits
<1>8. PhaseFits' /\ RefusalKept'
  BY <1>1, <1>2 DEF PhaseFits, RefusalKept, Early, Late, IInv, CommandFits
<1>9. RunIsBacked'
  <2>1. \A r \in runs : r.id # attempt
    BY <1>1 DEF IInv, CommandFits, RunIsBacked
  <2>2. DOMAIN claims = scannedNodes /\ \A c \in scannedNodes : claims[c] \in records
    BY <1>1 DEF IInv, CommandFits, RunIsBacked
  <2> QED BY <1>1, <1>2, <1>3, <2>1, <2>2 DEF RunIsBacked
<1> QED BY <1>5, <1>6, <1>7, <1>8, <1>9 DEF IInv, CommandFits

(* The findings the event counts are those of the run's claims.            *)
LEMMA AuditFits == IInv /\ emitAuditEvents => IInv'
<1> SUFFICES ASSUME IInv, emitAuditEvents PROVE IInv'
  OBVIOUS
<1> DEFINE hits == {c \in Modules : results[c].err = "none" /\ results[c].rec.found}
           e == [id |-> attempt, affected |-> Cardinality(hits)]
<1>1. /\ UNCHANGED <<shape, latest, records, runs, attempt, served, faults>>
      /\ pc = "audit" /\ log' = log \cup {e} /\ Leave
  BY DEF emitAuditEvents
<1>2. completedRun \in runs /\ DOMAIN claims = scannedNodes
      /\ Claims(claims, results, scannedNodes, here)
  BY <1>1 DEF IInv, CommandFits, RunIsBacked
<1>3. {c \in scannedNodes : claims[c].found} = hits
  <2>1. \A c \in scannedNodes :
           IF c \in Modules /\ results[c].err = "none" THEN claims[c] = results[c].rec
           ELSE ~claims[c].found
    BY <1>2 DEF Claims
  <2>2. Modules \subseteq scannedNodes
    BY DEF scannedNodes
  <2> QED BY <2>1, <2>2
<1>4. completedRun.id = e.id /\ completedRun.affected = e.affected
  BY <1>3 DEF completedRun
<1>5. AuditedRunIsStored'
  <2>1. \A x \in log' : \E r \in runs : r.id = x.id /\ r.affected = x.affected
    BY <1>1, <1>2, <1>4 DEF IInv, StoreIsTrue, AuditedRunIsStored
  <2> QED BY <1>1, <2>1 DEF AuditedRunIsStored
<1>6. StoreIsTrue'
  <2>1. scannedNodes' = scannedNodes
    BY <1>1 DEF scannedNodes
  <2> QED BY <1>1, <1>5, <2>1 DEF IInv, StoreIsTrue
<1> QED BY <1>1, <1>6, LeaveFits DEF IInv

(* Other processes touch nothing of the command's memory.                  *)
LEMMA ProcessKept ==
    ASSUME IInv, pc \notin {"complete", "audit"}, UNCHANGED <<shape, attempt, runs, process>>
    PROVE  CommandFits'
<1>1. here' = here /\ scannedNodes' = scannedNodes
      /\ UNCHANGED <<pc, job, cancelled, queue, flight, sem, results, refused, gap, claims>>
  BY HereKept DEF process
<1>2. splitLocalReplaceNodes' = splitLocalReplaceNodes
  BY DEF splitLocalReplaceNodes
<1>3. CommandTyped'
  BY <1>1 DEF IInv, CommandFits, CommandTyped
<1>4. /\ Outcomes(results', here') /\ Drafts(flight', here') /\ SlotsCounted(sem', flight')
      /\ Claims(claims', results', scannedNodes', here')
  BY <1>1 DEF IInv, CommandFits
<1>5. PhaseFits' /\ RefusalKept' /\ RunIsBacked'
  BY <1>1, <1>2 DEF PhaseFits, RefusalKept, RunIsBacked, IInv, CommandFits
<1> QED BY <1>3, <1>4, <1>5 DEF CommandFits

(* Another process moves the newest generation on.                         *)
LEMMA OtherRefreshFits == IInv /\ OtherRefresh => IInv'
<1> SUFFICES ASSUME IInv, OtherRefresh PROVE IInv'
  OBVIOUS
<1>1. latest' \in Generations
  BY DEF OtherRefresh, IInv, StoreIsTrue, Generations
<1>2. StoreIsTrue'
  BY <1>1, StoreGrows DEF OtherRefresh, IInv, StoreIsTrue
<1> QED BY <1>2, ProcessKept DEF OtherRefresh, IInv

(* Another walk's record is honest.                                        *)
LEMMA OtherScanFits == IInv /\ OtherScan => IInv'
<1> SUFFICES ASSUME IInv, OtherScan PROVE IInv'
  OBVIOUS
<1>1. PICK c \in Modules : records' = records \cup
              {[coord |-> c, snap |-> latest, found |-> c \in shape.advised[latest],
                cov |-> IF shape.nature[c] = "plain" THEN "analysed" ELSE "unscannable",
                frame |-> "isolated", mode |-> "none", by |-> 0, stopped |-> FALSE]}
  BY DEF OtherScan
<1> DEFINE r == [coord |-> c, snap |-> latest, found |-> c \in shape.advised[latest],
                 cov |-> IF shape.nature[c] = "plain" THEN "analysed" ELSE "unscannable",
                 frame |-> "isolated", mode |-> "none", by |-> 0, stopped |-> FALSE]
<1>2. Honest(r, shape.advised)
  <2>1. latest \in Generations /\ 0 \in 0..MaxScans
    BY ScanWalkAssumption DEF IInv, StoreIsTrue
  <2>2. (IF shape.nature[c] = "plain" THEN "analysed" ELSE "unscannable") \in Coverages
    BY DEF Coverages
  <2>3. (c \in shape.advised[latest]) \in BOOLEAN
    OBVIOUS
  <2>4. r \in RecordType
    BY <2>1, <2>2, <2>3, Zenon DEF RecordType
  <2>5. /\ r.coord = c /\ r.snap = latest /\ ~r.stopped
        /\ r.found <=> c \in shape.advised[latest]
    OBVIOUS
  <2> HIDE DEF r
  <2> QED BY <2>4, <2>5 DEF Honest
<1>3. StoreIsTrue'
  BY <1>1, <1>2, StoreGrows DEF OtherScan, IInv, StoreIsTrue
<1> QED BY <1>3, ProcessKept DEF OtherScan, IInv

(* The cancellation is only noted.                                         *)
LEMMA CancelFits == IInv /\ Cancel => IInv'
<1> SUFFICES ASSUME IInv, Cancel PROVE IInv'
  OBVIOUS
<1>1. StoreIsTrue'
  BY StoreKept DEF Cancel, IInv
<1>2. CommandFits'
  BY <1>1, PoolKnows, PoolStep DEF Cancel, store
<1> QED BY <1>1, <1>2 DEF IInv

(* A stopped command leaves the store as it is.                            *)
LEMMA StopFits == IInv /\ Stop => IInv'
  BY StoreKept, LeaveFits DEF Stop, IInv

(* Every step keeps the invariant.                                         *)
LEMMA StepFits == IInv /\ [Next]_vars => IInv'
<1> SUFFICES ASSUME IInv, [Next]_vars PROVE IInv'
  OBVIOUS
<1>1. CASE Begin \/ Stop \/ Cancel \/ OtherRefresh \/ OtherScan
  BY <1>1, BeginFits, StopFits, CancelFits, OtherRefreshFits, OtherScanFits
<1>2. CASE Work
  <2>1. CASE \/ ReusableRun \/ resolveSnapshot \/ preExtractVulnDB
             \/ scanTargetRooted \/ dispatchModuleScans \/ recordRootedAnswer
    BY <2>1, ReusableRunFits, ResolveFits, PreExtractFits, TargetRootedFits, DispatchFits,
       RootedAnswerFits
  <2>2. CASE TakeModule \/ CollectResults
    BY <2>2, TakeFits, CollectFits
  <2>3. ASSUME NEW c \in Modules, \/ ScanModule(c) \/ AcquireCallGraphSem(c)
                                  \/ SpawnCallGraph(c) \/ sealAndPut(c)
        PROVE  IInv'
    BY <2>3, ScanModuleFits, AcquireFits, SpawnFits, SealFits
  <2>4. CASE \/ ApplyFrameGaps \/ tallyModuleResults \/ verifyRecordsPersisted
             \/ completeRun \/ emitAuditEvents
    BY <2>4, GapsFit, TallyFits, VerifyFits, CompleteFits, AuditFits
  <2> QED BY <1>2, <2>1, <2>2, <2>3, <2>4 DEF Work
<1>3. CASE UNCHANGED vars
  <2>1. StoreIsTrue'
    BY <1>3, StoreKept DEF IInv, vars
  <2>2. CASE pc \notin {"complete", "audit"}
    BY <1>3, <2>1, <2>2, ProcessKept DEF vars, store, IInv
  <2>3. CASE pc \in {"complete", "audit"}
    <3>1. IInv' <=> IInv
      BY <1>3 DEF vars, store, process, IInv, StoreIsTrue, CommandFits, CommandTyped, PhaseFits,
           RefusalKept, RunIsBacked, here, scannedNodes, splitLocalReplaceNodes, completedRun,
           CoverageCount, AuditedRunIsStored
    <3> QED BY <3>1
  <2> QED BY <2>2, <2>3
<1> QED BY <1>1, <1>2, <1>3 DEF Next

(* The invariant holds of every behaviour of the scan                      *)
(* (ScanWalkUseCase.Scan and the processes beside it).                     *)
THEOREM ScanInvariant == Spec => []IInv
<1>1. Init => IInv
  BY InitFits
<1>2. IInv /\ [Next]_vars => IInv'
  BY StepFits
<1> QED BY <1>1, <1>2, PTL DEF Spec

-----------------------------------------------------------------------------
(* The invariant says what the runs check.                                 *)

(* The invariant has the types of TypeOK.                                  *)
LEMMA TypesFollow == IInv => TypeOK
<1> SUFFICES ASSUME IInv PROVE TypeOK
  OBVIOUS
<1>1. /\ shape \in Shapes /\ latest \in Generations /\ attempt \in 0..MaxScans
      /\ faults \in 0..MaxFaults /\ \A r \in records : r \in RecordType
  BY DEF IInv, StoreIsTrue, Honest
<1>2. \A r \in runs : r \in RunType
  BY DEF IInv, StoreIsTrue, RunIsTrue, RunType
<1>3. pc \in Phases /\ cancelled \in BOOLEAN /\ refused \in BOOLEAN
  BY DEF IInv, CommandFits, CommandTyped
<1>4. sem \in 0..CallGraphWorkers
  <2>1. IsFiniteSet(DOMAIN flight)
    BY FS_Subset, ScanWalkAssumption DEF IInv, CommandFits, Drafts
  <2>2. IsFiniteSet(Building(flight))
    BY <2>1, FS_Subset DEF Building
  <2>3. sem = Cardinality(Building(flight)) /\ sem <= CallGraphWorkers
    BY DEF IInv, CommandFits, SlotsCounted
  <2> QED BY <2>2, <2>3, FS_CardinalityType, ScanWalkAssumption
<1>5. /\ DOMAIN flight \subseteq Modules /\ DOMAIN results \subseteq Modules
      /\ \A c \in DOMAIN results : results[c] \in Results
  BY DEF IInv, CommandFits, Drafts, Outcomes
<1>6. Cardinality(gap) <= 1
  <2>1. gap = {} \/ gap = {GapOf(here)}
    BY DEF IInv, CommandFits, CommandTyped
  <2>2. Cardinality({}) = 0 /\ Cardinality({GapOf(here)}) = 1
    BY FS_EmptySet, FS_Singleton
  <2>3. CASE gap = {}
    BY <2>2, <2>3
  <2>4. CASE gap = {GapOf(here)}
    BY <2>2, <2>4
  <2> QED BY <2>1, <2>3, <2>4
<1> QED BY <1>1, <1>2, <1>3, <1>4, <1>5, <1>6 DEF TypeOK

(* Every stored run is true, so it is backed, analysed and audited.        *)
LEMMA RunsFollow == IInv => StoredRunIsTrue
<1> SUFFICES ASSUME IInv PROVE StoredRunIsTrue
  OBVIOUS
<1>1. \A r \in runs : RunIsTrue(r, records, scannedNodes)
  BY DEF IInv, StoreIsTrue
<1>2. StoredRunIsBacked
  BY <1>1 DEF StoredRunIsBacked, RunIsTrue
<1>3. CompleteIsAnalysed
  BY <1>1 DEF CompleteIsAnalysed, RunIsTrue
<1>4. AuditedRunIsStored
  BY DEF IInv, StoreIsTrue
<1> QED BY <1>2, <1>3, <1>4, TypesFollow DEF StoredRunIsTrue

(* A claim is a record of the store, and those are honest.                 *)
LEMMA AllClearFollows == IInv => NoFalseAllClear
<1> SUFFICES ASSUME IInv, NEW r \in runs, NEW c \in Modules,
                    r.claims[c].cov = "analysed", ~r.claims[c].found
             PROVE  c \notin shape.advised[r.snap]
  BY DEF NoFalseAllClear
<1>1. c \in scannedNodes /\ RunIsTrue(r, records, scannedNodes)
  BY DEF IInv, StoreIsTrue, scannedNodes
<1>2. r.claims[c] \in records /\ r.claims[c].coord = c /\ r.claims[c].snap = r.snap
  BY <1>1 DEF RunIsTrue
<1>3. Honest(r.claims[c], shape.advised)
  BY <1>2 DEF IInv, StoreIsTrue
<1> QED BY <1>2, <1>3 DEF Honest

(* A served run is complete and of the database it was asked about, so its *)
(* all-clear is the all-clear of every module.                             *)
LEMMA ServedFollows == IInv => ServedAnswerIsCurrent
<1> SUFFICES ASSUME IInv, NEW s \in served, s.run.findings = "Clean"
             PROVE  shape.advised[s.asked] = {}
  BY DEF ServedAnswerIsCurrent
<1> DEFINE r == s.run
<1>1. r \in runs /\ r.coverage = "Complete" /\ r.snap = s.asked
  BY DEF IInv, StoreIsTrue
<1>2. RunIsTrue(r, records, scannedNodes) /\ Modules \subseteq scannedNodes
  BY <1>1 DEF IInv, StoreIsTrue, scannedNodes
<1>3. \A c \in Modules : r.claims[c].cov = "analysed" /\ ~r.claims[c].found
  BY <1>1, <1>2 DEF RunIsTrue
<1>4. \A c \in Modules : c \notin shape.advised[r.snap]
  BY <1>1, <1>3, AllClearFollows DEF NoFalseAllClear
<1>5. r.snap \in Generations
  BY <1>2 DEF RunIsTrue
<1>6. shape.advised[r.snap] \subseteq Modules
  BY <1>5, ShapeTyped DEF IInv, StoreIsTrue
<1> QED BY <1>1, <1>4, <1>6

(* A refused command's run exists in its last phase only, and claims the   *)
(* target's gap.                                                           *)
LEMMA UnmeasuredFollows == IInv => UnmeasuredIsNotAnswered
<1> SUFFICES ASSUME IInv PROVE UnmeasuredIsNotAnswered
  OBVIOUS
<1>1. CancelledScanIsNotRecorded
  BY DEF IInv, StoreIsTrue, Honest, CancelledScanIsNotRecorded
<1>2. FailedScanIsRetried
  BY DEF IInv, StoreIsTrue, RunIsTrue, FailedScanIsRetried
<1>3. RefusedInputStoresNoRun
  <2> SUFFICES ASSUME NEW r \in runs, refused, r.id = attempt
               PROVE  r.claims[Target].frame = "rooted" /\ r.claims[Target].cov = "unscannable"
    BY DEF RefusedInputStoresNoRun
  <2>1. pc # "idle"
    BY DEF IInv, CommandFits, PhaseFits, Early
  <2>2. pc = "audit"
    BY <2>1 DEF IInv, CommandFits, RunIsBacked
  <2>3. r = completedRun /\ DOMAIN claims = scannedNodes /\ Target \in scannedNodes
    BY <2>2, ScanWalkAssumption DEF IInv, CommandFits, RunIsBacked, scannedNodes
  <2>4. results[Target] = Success(GapOf(here))
    BY <2>2 DEF IInv, CommandFits, RefusalKept, Late
  <2>5. results[Target].err = "none" /\ results[Target].rec = GapOf(here)
    BY <2>4 DEF Success
  <2>6. claims[Target] = GapOf(here)
    BY <2>3, <2>5, ScanWalkAssumption DEF IInv, CommandFits, Claims
  <2>7. r.claims = claims
    BY <2>3 DEF completedRun
  <2> QED BY <2>6, <2>7 DEF GapOf
<1> QED BY <1>1, <1>2, <1>3 DEF UnmeasuredIsNotAnswered

(* Whatever faults, cancellations, crashes and refreshes met the commands, *)
(* a stored run names records the store holds of its own nodes and         *)
(* snapshot, calls itself complete only if every node was analysed, and is *)
(* the run its completion event counts (completeRun,                       *)
(* verifyRecordsPersisted, emitAuditEvents).                               *)
THEOREM RunsAreTrue == Spec => []StoredRunIsTrue
  BY ScanInvariant, RunsFollow, PTL

(* A module a run calls analysed and clean is named by no advisory of the  *)
(* run's snapshot, whether the rooted analysis, the pool, the metadata     *)
(* filter or a reused record answered (mergeCoordinateFindings,            *)
(* metadataPrefilter, tryReuseCachedRecord).                               *)
THEOREM AllClearsAreReal == Spec => []NoFalseAllClear
  BY ScanInvariant, AllClearFollows, PTL

(* A stored run that ReusableRun serves as clean is no all-clear that the  *)
(* database of the moment contradicts.                                     *)
THEOREM ServedIsCurrent == Spec => []ServedAnswerIsCurrent
  BY ScanInvariant, ServedFollows, PTL

(* A cancelled scan leaves no record, a refused input no run, and a failed *)
(* scan is never taken for an answer by a later command (stoppedScan,      *)
(* firstSnapshotIntegrityFailure, tryReuseCachedRecord).                   *)
THEOREM UnmeasuredStaysOpen == Spec => []UnmeasuredIsNotAnswered
  BY ScanInvariant, UnmeasuredFollows, PTL
=============================================================================
