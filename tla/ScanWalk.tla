------------------------------ MODULE ScanWalk ------------------------------
(***************************************************************************)
(* The vulnerability scan of one walk (src/internal/vuln/application and   *)
(* src/internal/driver/scanwalk.go): a stored run is served when it still  *)
(* answers, else the advisory snapshot is pinned and every node of the     *)
(* walk gets a record, from one analysis rooted at the walk's target or    *)
(* project, or from a pool of workers that scan each module in isolation.  *)
(* The run is tallied, read back, stored and logged.                       *)
(*                                                                         *)
(* One process scans, several times over; it may be cancelled or crash     *)
(* anywhere. Other processes share the store: they refresh the advisory    *)
(* database and store isolated records of the same modules.                *)
(***************************************************************************)
EXTENDS Integers, Sequences, FiniteSets, SequencesExt, Functions

CONSTANTS
    Modules,          \* nodes with an artefact of their own
    Replaced,         \* the local-replace nodes it may have, which have none
    Target,           \* the walk's target, or its local main module
    Reaches,          \* [Modules -> SUBSET Modules]: the module and what it imports
    Shapes,           \* walks and advisory databases the run starts from
    Requests,         \* commands: --force, the binary pre-pass, --reachability
    Workers,          \* size of the scan pool
    CallGraphWorkers, \* size of the call-graph semaphore
    MaxScans,         \* bound: commands the process runs
    MaxOtherRecords,  \* bound: records other walks store
    MaxFaults         \* bound: faults of the store, the scanner and the host

Generations == 1..2
Kinds == {"coordinate", "project"}
Natures == {"plain", "unbuildable", "sourceless"}

ShapeType ==
    [kind : Kinds, nature : [Modules -> Natures], replaced : SUBSET Replaced,
     advised : [Generations -> SUBSET Modules]]

RequestType == [force : BOOLEAN, prepass : BOOLEAN, reach : BOOLEAN]

ASSUME ScanWalkAssumption ==
    /\ IsFiniteSet(Modules) /\ IsFiniteSet(Replaced)
    /\ Modules \cap Replaced = {} /\ Target \in Modules
    /\ Reaches \in [Modules -> SUBSET Modules]
    /\ \A c \in Modules : c \in Reaches[c]
    /\ Shapes \subseteq ShapeType /\ Requests \subseteq RequestType
    /\ Workers \in Nat \ {0} /\ CallGraphWorkers \in Nat \ {0}
    /\ MaxScans \in Nat /\ MaxFaults \in Nat /\ MaxOtherRecords \in Nat

Coverages == {"analysed", "unscannable", "failed"}

(***************************************************************************)
(* A record carries the coverage axis, whether it reports an advisory, the *)
(* frame and mode it was measured in and the command that measured it (0:  *)
(* another walk's). stopped is what no record may be: the outcome of a     *)
(* child the run's own cancellation killed.                                *)
(***************************************************************************)
RecordType ==
    [coord : Modules \cup Replaced, snap : Generations, cov : Coverages, found : BOOLEAN,
     frame : {"isolated", "rooted", "unrecorded"},
     mode : {"source", "binary", "none"}, by : 0..MaxScans, stopped : BOOLEAN]

NoRecord == [coord |-> Target, snap |-> 1, cov |-> "failed", found |-> FALSE,
             frame |-> "unrecorded", mode |-> "none", by |-> 0, stopped |-> TRUE]

Errors == {"none", "fault", "cancelled", "refused"}
Results == [err : Errors, rec : RecordType]
Failure(e) == [err |-> e, rec |-> NoRecord]
Success(r) == [err |-> "none", rec |-> r]

Phases == {"idle", "reuse", "resolve", "prepare", "root", "fill", "pool",
           "gaps", "tally", "verify", "complete", "audit"}
Fills == {"answers", "diverged", "unscannable", "failed"}

VARIABLES
    shape,      \* the walk and the two generations of the database
    latest,     \* newest generation in the store
    records,    \* the record ledger
    runs,       \* stored runs
    log,        \* completion events of the assurance log
    attempt,    \* commands run so far
    served,     \* the runs served, with the generation they were asked about
    faults,     \* faults met
    pc,         \* phase of the running command
    job,        \* its parameters and local values
    cancelled,  \* its context
    queue,      \* the pool's input channel
    flight,     \* modules being scanned, with the draft of their record
    sem,        \* slots of the call-graph semaphore in use
    results,    \* finalResults
    refused,    \* whether a scan of it refused the snapshot or an artefact
    gap,        \* frameGaps, for the target: at most one record
    claims      \* run.PerModuleResults

store == <<shape, latest, records, runs, log, attempt, served, faults>>
process == <<pc, job, cancelled, queue, flight, sem, results, refused, gap, claims>>
vars == <<store, process>>

NoJob == [force |-> FALSE, prepass |-> FALSE, reach |-> FALSE, snap |-> 1,
          shared |-> TRUE, mode |-> "source", fill |-> "answers", idx |-> 1]

scannedNodes == Modules \cup shape.replaced

(***************************************************************************)
(* splitLocalReplaceNodes: the coordinates that are scanned, in the walk's *)
(* order, and the local-replace nodes after them.                          *)
(***************************************************************************)
allCoords == SetToSeq(Modules)
splitLocalReplaceNodes == allCoords \o SetToSeq(shape.replaced)

(* A Go map with the value v assigned to the key k.                        *)
Entered(f, k, v) == [x \in DOMAIN f \cup {k} |-> IF x = k THEN v ELSE f[x]]

Draft(c, cov, found, frame, mode) ==
    [coord |-> c, snap |-> job.snap, cov |-> cov, found |-> found,
     frame |-> frame, mode |-> mode, by |-> attempt, stopped |-> FALSE]

-----------------------------------------------------------------------------
(***************************************************************************)
(* Leaving the command: everything it held in memory is gone.              *)
(***************************************************************************)
Leave ==
    /\ pc' = "idle" /\ job' = NoJob /\ cancelled' = FALSE
    /\ queue' = <<>> /\ flight' = <<>> /\ sem' = 0
    /\ results' = <<>> /\ refused' = FALSE /\ gap' = {} /\ claims' = <<>>

Init ==
    /\ shape \in Shapes
    /\ latest = 1 /\ records = {} /\ runs = {} /\ log = {}
    /\ attempt = 0 /\ served = {} /\ faults = 0
    /\ pc = "idle" /\ job = NoJob /\ cancelled = FALSE
    /\ queue = <<>> /\ flight = <<>> /\ sem = 0
    /\ results = <<>> /\ refused = FALSE /\ gap = {} /\ claims = <<>>

(***************************************************************************)
(* Faults are counted, so that a bound names how many a behaviour may      *)
(* meet.                                                                   *)
(***************************************************************************)
Spend(n) == faults + n <= MaxFaults /\ faults' = faults + n

(***************************************************************************)
(* putRecord keeps the record; or, the case verifyRecordsPersisted exists  *)
(* for, it reports success and keeps nothing. cost counts the faults that  *)
(* led to this record.                                                     *)
(***************************************************************************)
putRecord(r, cost) ==
    \/ records' = records \cup {r} /\ Spend(cost)
    \/ records' = records /\ Spend(cost + 1)

(***************************************************************************)
(* The process is killed, or a step returns an error that ends the run: a  *)
(* refused write, an unreadable record, a corrupt or empty database, the   *)
(* cancellation. Each leaves the store as it is and returns no run.        *)
(***************************************************************************)
Stop == pc # "idle" /\ Leave /\ UNCHANGED store

(***************************************************************************)
(* The cancellation reaches the pool's workers one by one; in any other    *)
(* phase it is an error that ends the run.                                 *)
(***************************************************************************)
Cancel ==
    /\ pc = "pool" /\ ~cancelled
    /\ cancelled' = TRUE
    /\ UNCHANGED <<store, pc, job, queue, flight, sem, results, refused, gap, claims>>

-----------------------------------------------------------------------------
(***************************************************************************)
(* driver.ScanWalk and ReusableRun: unless forced, the newest complete run *)
(* of this walk judged against the newest stored database is served. A     *)
(* project directory that moved on refuses it.                             *)
(***************************************************************************)
Begin ==
    /\ pc = "idle" /\ attempt < MaxScans
    /\ attempt' = attempt + 1
    /\ \E q \in Requests :
         /\ job' = [NoJob EXCEPT !.force = q.force, !.prepass = q.prepass, !.reach = q.reach]
         /\ pc' = IF q.force THEN "resolve" ELSE "reuse"
    /\ UNCHANGED <<shape, latest, records, runs, log, served, faults,
                   cancelled, queue, flight, sem, results, refused, gap, claims>>

(* Mutant: any database up to the current one will do.                     *)
sameAdvisoryDatabase_any(run) == run.snap <= latest
sameAdvisoryDatabase(run) == run.snap = latest

Reusable == {r \in runs : r.coverage = "Complete" /\ sameAdvisoryDatabase(r)}

ReusableRun ==
    /\ pc = "reuse"
    /\ \/ /\ \E r \in Reusable :
               /\ \A q \in Reusable : q.id <= r.id
               /\ served' = served \cup {[run |-> r, asked |-> latest]}
          /\ Leave
       \/ /\ Reusable = {} \/ shape.kind = "project"
          /\ pc' = "resolve"
          /\ UNCHANGED <<served, job, cancelled, queue, flight, sem, results, refused, gap, claims>>
    /\ UNCHANGED <<shape, latest, records, runs, log, attempt, faults>>

(***************************************************************************)
(* resolveSnapshot pins the newest stored generation for the whole run;    *)
(* preExtractVulnDB shares one extraction of it. When that fails for want  *)
(* of the blob, the disk or a temporary directory, each module scan        *)
(* prepares the pinned snapshot for itself.                                *)
(***************************************************************************)
resolveSnapshot ==
    /\ pc = "resolve"
    /\ job' = [job EXCEPT !.snap = latest]
    /\ pc' = "prepare"
    /\ UNCHANGED <<store, cancelled, queue, flight, sem, results, refused, gap, claims>>

preExtractVulnDB ==
    /\ pc = "prepare"
    /\ \E shared \in BOOLEAN :
         /\ job' = [job EXCEPT !.shared = shared]
         /\ Spend(IF shared THEN 0 ELSE 1)
    /\ pc' = "root"
    /\ UNCHANGED <<shape, latest, records, runs, log, attempt, served,
                   cancelled, queue, flight, sem, results, refused, gap, claims>>

-----------------------------------------------------------------------------
StartPool ==
    /\ pc' = "pool" /\ queue' = allCoords
    /\ job' = [job EXCEPT !.mode = IF job.prepass THEN "binary" ELSE "source"]

StartFill(f) ==
    /\ pc' = "fill" /\ UNCHANGED queue
    /\ job' = [job EXCEPT !.fill = f]

(***************************************************************************)
(* scanTargetRooted: one analysis rooted at the target's own zip. With no  *)
(* zip, or when it cannot be read or scanned, the pool answers instead; a  *)
(* target the toolchain could not load also leaves a record of that in the *)
(* run's frame (recordTargetFrameGap), to be counted in the pool's place.  *)
(***************************************************************************)
recordTargetFrameGap(cost) ==
    LET r == Draft(Target, "unscannable", FALSE, "rooted", "none") IN
    /\ putRecord(r, cost)
    /\ gap' = {r}

scanTargetRooted ==
    /\ pc = "root" /\ shape.kind = "coordinate"
    /\ \/ /\ StartPool
          /\ Spend(IF shape.nature[Target] = "sourceless" THEN 0 ELSE 1)
          /\ UNCHANGED <<records, gap>>
       \/ /\ StartPool
          /\ shape.nature[Target] # "sourceless"
          /\ recordTargetFrameGap(IF shape.nature[Target] = "unbuildable" THEN 0 ELSE 1)
       \/ /\ StartFill("answers")
          /\ shape.nature[Target] = "plain"
          /\ UNCHANGED <<records, gap, faults>>
    /\ UNCHANGED <<shape, latest, runs, log, attempt, served,
                   cancelled, flight, sem, results, refused, claims>>

(***************************************************************************)
(* dispatchModuleScans for a project walk: one analysis of the live tree,  *)
(* a fault of it recorded for every module, a coordinate match alone when  *)
(* the directory moved on from the walk, and the pool when it is gone.     *)
(***************************************************************************)
dispatchModuleScans ==
    /\ pc = "root" /\ shape.kind = "project"
    /\ \/ StartFill("answers") /\ Spend(0)
       \/ StartFill("diverged") /\ Spend(0)
       \/ \E f \in {"unscannable", "failed"} : StartFill(f) /\ Spend(1)
       \/ StartPool /\ Spend(0)
    /\ UNCHANGED <<shape, latest, records, runs, log, attempt, served,
                   cancelled, flight, sem, results, refused, gap, claims>>

(***************************************************************************)
(* recordTargetRootedAnswers, scanProjectRooted, scanProjectDiverged and   *)
(* fillProjectFault: one record per coordinate in the rooted frame. The    *)
(* coordinate is matched against the snapshot whatever the analysis said;  *)
(* a match that cannot be made is a failed scan, never a clean one, and a  *)
(* module the vendored tree does not hold is a gap.                        *)
(***************************************************************************)
(* Mutant: the target's advisories by coordinate are left to the analysis. *)
mergeCoordinateFindings_analysis(c) == c \in shape.advised[job.snap] /\ c # Target
mergeCoordinateFindings(c) == c \in shape.advised[job.snap]

rootedAnswers(c) ==
    LET found == mergeCoordinateFindings(c)
        Rooted(cov, f) == Draft(c, cov, f, "rooted", IF cov = "analysed" THEN "source" ELSE "none")
        matched == IF job.fill = "answers" THEN "analysed" ELSE "unscannable"
    IN (IF job.fill \in {"unscannable", "failed"}
        THEN {<<Rooted(job.fill, FALSE), 0>>}
        ELSE {<<Rooted(matched, found), 0>>, <<Rooted("failed", FALSE), 1>>})
       \cup (IF shape.kind = "project" /\ job.fill # "diverged" /\ c # Target
             THEN {<<Rooted("unscannable", FALSE), 1>>} ELSE {})

NextIndex(seq, then) ==
    IF job.idx = Len(seq)
    THEN pc' = then /\ job' = [job EXCEPT !.idx = 1]
    ELSE pc' = pc /\ job' = [job EXCEPT !.idx = @ + 1]

recordRootedAnswer ==
    /\ pc = "fill"
    /\ LET c == allCoords[job.idx] IN
       \E a \in rootedAnswers(c) :
          /\ putRecord(a[1], a[2])
          /\ results' = Entered(results, c, Success(a[1]))
    /\ NextIndex(allCoords, "gaps")
    /\ UNCHANGED <<shape, latest, runs, log, attempt, served,
                   cancelled, queue, flight, sem, refused, gap, claims>>

-----------------------------------------------------------------------------
(***************************************************************************)
(* runScanPool: a worker takes the next coordinate. tryReuseCachedRecord   *)
(* answers from an isolated record the ledger serves for the coordinate    *)
(* and snapshot: one reporting an advisory first, then an analysed one     *)
(* (servesBefore; what orders the rest is not kept, so any of them may be  *)
(* served). A failed one is retried, a lookup that fails is a miss, and    *)
(* the local main module is never answered from the store.                 *)
(***************************************************************************)
servesBefore(a, b) ==
    \/ a.found /\ ~b.found
    \/ a.found = b.found /\ a.cov = "analysed" /\ b.cov # "analysed"

composed(c) ==
    LET held == {r \in records : r.coord = c /\ r.snap = job.snap /\ r.frame = "isolated"}
    IN {r \in held : \A q \in held : ~servesBefore(q, r)}

tryReuseCachedRecord(c) ==
    IF job.force \/ (shape.kind = "project" /\ c = Target)
    THEN {} ELSE {r \in composed(c) : r.cov # "failed"}

TakeModule ==
    /\ pc = "pool" /\ queue # <<>>
    /\ Cardinality(DOMAIN flight) < Workers
    /\ LET c == Head(queue) IN
       \/ /\ \E r \in tryReuseCachedRecord(c) : results' = Entered(results, c, Success(r))
          /\ UNCHANGED <<flight, faults>>
       \/ /\ Spend(IF composed(c) = tryReuseCachedRecord(c) /\ composed(c) # {} THEN 1 ELSE 0)
          /\ flight' = Entered(flight, c, [at |-> "scan", rec |-> NoRecord])
          /\ UNCHANGED results
    /\ queue' = Tail(queue)
    /\ UNCHANGED <<shape, latest, records, runs, log, attempt, served,
                   pc, job, cancelled, sem, refused, gap, claims>>

(***************************************************************************)
(* ScanModuleUseCase.Scan up to its record: coordinate matching alone      *)
(* (scanMetadataOnly) without a zip, or when the source does not build; an *)
(* all-clear from metadataPrefilter when no advisory names the module or   *)
(* anything it reaches; else the analysis, its findings completed by       *)
(* coordinate. A scanner that fails is a failed record.                    *)
(***************************************************************************)
checkVulnerabilities(c) == Reaches[c] \cap shape.advised[job.snap] # {}

measurements(c) ==
    LET found == mergeCoordinateFindings(c)
        Isolated(cov, f, m) == Draft(c, cov, f, "isolated", m)
        metadataOnly == Isolated("unscannable", found, "none")
    IN IF shape.nature[c] = "sourceless" THEN {<<metadataOnly, 0>>}
       ELSE IF ~job.force /\ ~checkVulnerabilities(c)
            THEN {<<Isolated("analysed", FALSE, "none"), 0>>}
            ELSE {<<Isolated("failed", FALSE, "none"), 1>>, <<metadataOnly, 1>>}
                 \cup IF shape.nature[c] = "unbuildable" THEN {<<metadataOnly, 0>>}
                      ELSE {<<Isolated("analysed", found, job.mode), 0>>}

(***************************************************************************)
(* stoppedScan: a child the cancellation killed is an error of the run and *)
(* no record. Classified, the kill reads as out of memory, a gap.          *)
(***************************************************************************)
(* Mutant: the kill is classified before the context is asked.             *)
stoppedScan_classified(c) ==
    {Success([Draft(c, "unscannable", FALSE, "isolated", "none") EXCEPT !.stopped = TRUE])}
stoppedScan(c) == {Failure("cancelled")}

Answered(c, outcome) ==
    /\ results' = Entered(results, c, outcome)
    /\ flight' = Restrict(flight, DOMAIN flight \ {c})

Drafted(c, r) ==
    /\ flight' = [flight EXCEPT ![c] =
         [at |-> IF job.reach /\ r.found THEN "graph" ELSE "put", rec |-> r]]
    /\ UNCHANGED results

ScanModule(c) ==
    /\ pc = "pool" /\ c \in DOMAIN flight /\ flight[c].at = "scan"
    /\ \/ \E m \in measurements(c) : Drafted(c, m[1]) /\ Spend(m[2]) /\ UNCHANGED refused
       \/ Answered(c, Failure("fault")) /\ Spend(1) /\ UNCHANGED refused
       \/ /\ Answered(c, Failure("refused"))
          /\ Spend(IF job.shared THEN 1 ELSE 0)
          /\ refused' = TRUE
       \/ /\ cancelled /\ UNCHANGED <<faults, refused>>
          /\ \E o \in stoppedScan(c) : IF o.err = "none" THEN Drafted(c, o.rec) ELSE Answered(c, o)
    /\ UNCHANGED <<shape, latest, records, runs, log, attempt, served,
                   pc, job, cancelled, queue, sem, gap, claims>>

(***************************************************************************)
(* maybeEnsureCallGraph: a finding's module without a stored call graph    *)
(* is given one by a child process, one of CallGraphWorkers at a time; a   *)
(* cancelled wait for the slot goes on without it.                         *)
(***************************************************************************)
SlotFree == sem < CallGraphWorkers

AcquireCallGraphSem(c) ==
    /\ pc = "pool" /\ c \in DOMAIN flight /\ flight[c].at = "graph"
    /\ \/ /\ SlotFree /\ sem' = sem + 1
          /\ flight' = [flight EXCEPT ![c].at = "build"]
       \/ /\ cancelled /\ UNCHANGED sem
          /\ flight' = [flight EXCEPT ![c].at = "put"]
    /\ UNCHANGED <<store, pc, job, cancelled, queue, results, refused, gap, claims>>

(* Mutant: the slot is given back on one way out only.                     *)
ReleaseCallGraphSem_onSuccess == sem' = IF cancelled THEN sem - 1 ELSE sem
ReleaseCallGraphSem == sem' = sem - 1

SpawnCallGraph(c) ==
    /\ pc = "pool" /\ c \in DOMAIN flight /\ flight[c].at = "build"
    /\ ReleaseCallGraphSem
    /\ flight' = [flight EXCEPT ![c].at = "put"]
    /\ UNCHANGED <<store, pc, job, cancelled, queue, results, refused, gap, claims>>

sealAndPut(c) ==
    /\ pc = "pool" /\ c \in DOMAIN flight /\ flight[c].at = "put"
    /\ \/ Answered(c, Success(flight[c].rec)) /\ putRecord(flight[c].rec, 0)
       \/ Answered(c, Failure("fault")) /\ Spend(1) /\ UNCHANGED records
       \/ cancelled /\ Answered(c, Failure("cancelled")) /\ UNCHANGED <<records, faults>>
    /\ UNCHANGED <<shape, latest, runs, log, attempt, served,
                   pc, job, cancelled, queue, sem, refused, gap, claims>>

(***************************************************************************)
(* The pool has drained. After a binary pre-pass the modules that report a *)
(* finding go through the pool again in source mode, in some order.        *)
(***************************************************************************)
CollectResults ==
    /\ pc = "pool" /\ queue = <<>> /\ DOMAIN flight = {}
    /\ LET flagged(c) == results[c].err = "none" /\ results[c].rec.found
           again == SetToSeq({c \in Modules : flagged(c)})
       IN IF job.mode = "binary" /\ again # <<>>
          THEN /\ queue' = again
               /\ results' = Restrict(results, Modules \ Range(again))
               /\ job' = [job EXCEPT !.mode = "source"]
               /\ UNCHANGED pc
          ELSE pc' = "gaps" /\ UNCHANGED <<queue, results, job>>
    /\ UNCHANGED <<store, cancelled, flight, sem, refused, gap, claims>>

-----------------------------------------------------------------------------
(***************************************************************************)
(* applyFrameGaps, then firstSnapshotIntegrityFailure: a scan that refused *)
(* the snapshot or an artefact ends the run.                               *)
(***************************************************************************)
applyFrameGaps ==
    IF gap = {} THEN results
    ELSE [results EXCEPT ![Target] = Success(CHOOSE g \in gap : TRUE)]

firstSnapshotIntegrityFailure(res) == \E c \in DOMAIN res : res[c].err = "refused"

ApplyFrameGaps ==
    /\ pc = "gaps"
    /\ IF firstSnapshotIntegrityFailure(applyFrameGaps)
       THEN Leave
       ELSE /\ pc' = "tally" /\ results' = applyFrameGaps
            /\ UNCHANGED <<job, cancelled, queue, flight, sem, refused, gap, claims>>
    /\ UNCHANGED store

(***************************************************************************)
(* tallyModuleResults and recordLocalReplaceUnscannable, one node a step:  *)
(* a stopped scan ends the run, a failed worker is recorded as a failed    *)
(* scan, a local-replace node as unscannable, any other record claimed.    *)
(***************************************************************************)
Claim(c, r) == claims' = Entered(claims, c, r)

tallyModuleResults ==
    /\ pc = "tally"
    /\ LET c == splitLocalReplaceNodes[job.idx]
           outcome == IF c \in Replaced
                      THEN Success(Draft(c, "unscannable", FALSE, "unrecorded", "none"))
                      ELSE results[c]
           failed == Draft(c, "failed", FALSE, "isolated", "none")
       IN IF outcome.err = "cancelled"
          THEN Leave /\ UNCHANGED <<records, faults>>
          ELSE /\ IF c \in Replaced THEN Claim(c, outcome.rec) /\ putRecord(outcome.rec, 0)
                  ELSE IF outcome.err # "none" THEN Claim(c, failed) /\ putRecord(failed, 0)
                  ELSE Claim(c, outcome.rec) /\ UNCHANGED <<records, faults>>
               /\ NextIndex(splitLocalReplaceNodes, "verify")
               /\ UNCHANGED <<cancelled, queue, flight, sem, results, refused, gap>>
    /\ UNCHANGED <<shape, latest, runs, log, attempt, served>>

(***************************************************************************)
(* verifyRecordsPersisted reads every claim back by its content hash.      *)
(***************************************************************************)
(* Mutant: any record of the coordinate will do.                           *)
HasVulnerabilityRecord_coordinate(c) ==
    \E r \in records : r.coord = c /\ r.snap = job.snap
HasVulnerabilityRecord(c) == claims[c] \in records

verifyRecordsPersisted ==
    /\ pc = "verify"
    /\ IF \A c \in scannedNodes : c \in DOMAIN claims /\ HasVulnerabilityRecord(c)
       THEN /\ pc' = "complete"
            /\ UNCHANGED <<job, cancelled, queue, flight, sem, results, refused, gap, claims>>
       ELSE Leave
    /\ UNCHANGED store

(***************************************************************************)
(* completeRun: the counts, the two axes and the stored run.               *)
(***************************************************************************)
CoverageCount(cov) == Cardinality({c \in scannedNodes : claims[c].cov = cov})

DetermineCoverageStatus(failed, unscannable, total) ==
    CASE failed = total -> "Failed"
      [] failed # total /\ failed + unscannable > 0 -> "Partial"
      [] OTHER -> "Complete"

DetermineFindingsStatus(affected) == IF affected > 0 THEN "Affected" ELSE "Clean"

completedRun ==
    LET affected == Cardinality({c \in scannedNodes : claims[c].found}) IN
    [id |-> attempt, snap |-> job.snap, prepass |-> job.prepass, claims |-> claims,
     affected |-> affected,
     findings |-> DetermineFindingsStatus(affected),
     coverage |-> DetermineCoverageStatus(CoverageCount("failed"),
                    CoverageCount("unscannable"), Cardinality(scannedNodes))]

completeRun ==
    /\ pc = "complete"
    /\ runs' = runs \cup {completedRun}
    /\ pc' = "audit"
    /\ UNCHANGED <<shape, latest, records, log, attempt, served, faults,
                   job, cancelled, queue, flight, sem, results, refused, gap, claims>>

(***************************************************************************)
(* emitAuditEvents: the findings' events, counted here from the results    *)
(* that carry one, then the completion event of the stored run. A refused  *)
(* event leaves the run stored and unlogged.                               *)
(***************************************************************************)
emitAuditEvents ==
    /\ pc = "audit"
    /\ log' = log \cup {[id |-> attempt,
           affected |-> Cardinality({c \in Modules : results[c].err = "none" /\ results[c].rec.found})]}
    /\ Leave
    /\ UNCHANGED <<shape, latest, records, runs, attempt, served, faults>>

-----------------------------------------------------------------------------
(***************************************************************************)
(* Other processes: a refresh of the database, and isolated scans of the   *)
(* same modules for other walks. They are taken in the phases that read    *)
(* what they write; in any other they commute with the command's steps.    *)
(***************************************************************************)
OtherRefresh ==
    /\ pc \in {"idle", "reuse", "resolve"}
    /\ latest < 2 /\ latest' = latest + 1
    /\ UNCHANGED <<shape, records, runs, log, attempt, served, faults, process>>

OtherScan ==
    /\ pc \in {"idle", "pool"}
    /\ Cardinality({q \in records : q.by = 0}) < MaxOtherRecords
    /\ \E c \in Modules :
         /\ ~(shape.kind = "project" /\ c = Target)
         /\ records' = records \cup
              {[coord |-> c, snap |-> latest, found |-> c \in shape.advised[latest],
                cov |-> IF shape.nature[c] = "plain" THEN "analysed" ELSE "unscannable",
                frame |-> "isolated", mode |-> "none", by |-> 0, stopped |-> FALSE]}
    /\ UNCHANGED <<shape, latest, runs, log, attempt, served, faults, process>>

Work ==
    \/ ReusableRun \/ resolveSnapshot \/ preExtractVulnDB
    \/ scanTargetRooted \/ dispatchModuleScans \/ recordRootedAnswer
    \/ TakeModule \/ CollectResults
    \/ \E c \in Modules : \/ ScanModule(c) \/ AcquireCallGraphSem(c)
                           \/ SpawnCallGraph(c) \/ sealAndPut(c)
    \/ ApplyFrameGaps \/ tallyModuleResults \/ verifyRecordsPersisted
    \/ completeRun \/ emitAuditEvents

Next == Begin \/ Work \/ Stop \/ Cancel \/ OtherRefresh \/ OtherScan

(***************************************************************************)
(* Every goroutine of a running command keeps taking steps.                *)
(***************************************************************************)
Spec == Init /\ [][Next]_vars /\ WF_vars(Work)
-----------------------------------------------------------------------------
RunType ==
    [id : 1..MaxScans, snap : Generations, prepass : BOOLEAN,
     claims : [scannedNodes -> RecordType], affected : 0..Cardinality(scannedNodes),
     findings : {"Affected", "Clean"}, coverage : {"Failed", "Partial", "Complete"}]

TypeOK ==
    /\ shape \in Shapes /\ latest \in Generations
    /\ \A r \in records : r \in RecordType
    /\ \A r \in runs : r \in RunType
    /\ attempt \in 0..MaxScans /\ faults \in 0..MaxFaults
    /\ pc \in Phases /\ cancelled \in BOOLEAN /\ refused \in BOOLEAN
    /\ sem \in 0..CallGraphWorkers
    /\ DOMAIN flight \subseteq Modules /\ DOMAIN results \subseteq Modules
    /\ \A c \in DOMAIN results : results[c] \in Results
    /\ Cardinality(gap) <= 1

(***************************************************************************)
(* A stored run names, for every node of the walk, a record of that node   *)
(* and of the run's own snapshot that the store holds: no write a store    *)
(* lost, and no record of another database, is claimed.                    *)
(***************************************************************************)
StoredRunIsBacked ==
    \A r \in runs : \A c \in scannedNodes :
        /\ r.claims[c] \in records
        /\ r.claims[c].coord = c /\ r.claims[c].snap = r.snap

(***************************************************************************)
(* Complete coverage means that every node was analysed, whatever word the *)
(* findings put on its record.                                             *)
(***************************************************************************)
CompleteIsAnalysed ==
    \A r \in runs : r.coverage = "Complete" =>
        \A c \in scannedNodes : r.claims[c].cov = "analysed"

(***************************************************************************)
(* A module that a run calls analysed and clean is a real all-clear: no    *)
(* advisory of the run's snapshot names it, whichever of the rooted        *)
(* analysis, the pool, the metadata filter or a reused record answered.    *)
(***************************************************************************)
NoFalseAllClear ==
    \A r \in runs : \A c \in Modules :
        r.claims[c].cov = "analysed" /\ ~r.claims[c].found
            => c \notin shape.advised[r.snap]

(***************************************************************************)
(* A stored run served for the newest database is not an all-clear that    *)
(* this database contradicts, though it was refreshed since the run.       *)
(***************************************************************************)
ServedAnswerIsCurrent ==
    \A s \in served : s.run.findings = "Clean" => shape.advised[s.asked] = {}

(***************************************************************************)
(* A scan the run's own cancellation stopped leaves no record: neither a   *)
(* failed scan nor the out-of-memory gap its kill would be classified as.  *)
(***************************************************************************)
CancelledScanIsNotRecorded == \A r \in records : ~r.stopped

(***************************************************************************)
(* A command in which a scan found the snapshot corrupt or an artefact     *)
(* altered stores no run, except where the refusal was the target's and    *)
(* the run counts its own frame gap for the target.                        *)
(***************************************************************************)
RefusedInputStoresNoRun ==
    \A r \in runs : refused /\ r.id = attempt =>
        r.claims[Target].frame = "rooted" /\ r.claims[Target].cov = "unscannable"

(***************************************************************************)
(* A failed scan is retried by the next command, never served from store.  *)
(***************************************************************************)
FailedScanIsRetried ==
    \A r \in runs : \A c \in scannedNodes :
        r.claims[c].cov = "failed" => r.claims[c].by = r.id

(***************************************************************************)
(* A completion event of the assurance log is about a stored run, and the  *)
(* findings logged with it are those of the records the run names.         *)
(***************************************************************************)
AuditedRunIsStored ==
    \A e \in log : \E r \in runs : r.id = e.id /\ r.affected = e.affected

(***************************************************************************)
(* What a stored run says is so: its records are in the store, its         *)
(* coverage is theirs, and its events are about it (completeRun,           *)
(* verifyRecordsPersisted, emitAuditEvents).                               *)
(***************************************************************************)
StoredRunIsTrue ==
    TypeOK /\ StoredRunIsBacked /\ CompleteIsAnalysed /\ AuditedRunIsStored

(***************************************************************************)
(* A scan that did not measure leaves no measurement behind: not one the   *)
(* run cancelled, not one that met a refused input, and a failed one is    *)
(* never taken for an answer by a later command.                           *)
(***************************************************************************)
UnmeasuredIsNotAnswered ==
    CancelledScanIsNotRecorded /\ RefusedInputStoresNoRun /\ FailedScanIsRetried

(***************************************************************************)
(* A command that starts ends, with the pool drained and no worker left    *)
(* waiting for a call-graph slot.                                          *)
(***************************************************************************)
ScanEnds == (pc # "idle") ~> (pc = "idle")
=============================================================================
