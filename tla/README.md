# Kanonarion: models, checks and proofs

Kanonarion measures Go modules and keeps what it measured. A *walk* resolves the
dependency graph of a target and fetches every module in it; each fetch is
verified and recorded in an append-only ledger; an *extraction run* analyses the
fetched modules stage by stage; everything downstream (vulnerability scans,
licences, SBOMs) is keyed on those records. What has to be right is the evidence:
a record must say what was really measured, stay what it was, and be the one a
later run finds, whatever overlaps, fails, is cancelled or is killed meanwhile.

The project models the parts that carry this promise. Paths below are relative to
the repository; line numbers of every definition are in `PROJECT.json`.

## 1. Inventory

| Component | State it keeps | Operations | Interacts with |
|---|---|---|---|
| **Fetch pipeline and fact ledger** (`internal/fetch`, `internal/adapters/factstore/sqlite`) | rows per coordinate, blobs, audit log | fetch by proxy, module cache or private route; verify by checksum database, go.sum and git; compose rows; inherit legs; append; mirror to the log | called by every walk; several processes share the store |
| **Walk** (`internal/walk/application`) | graph, per-node results, recorder's maps | resolve level by level, fetch each coordinate once, classify nodes, conclude a status | calls fetch through the recording fetcher |
| **Walk store** (`executewalk.go`, `walks/sqlite`) | one row per walk id | serve from cache, resume an unfinished walk, recognise an identical one, upsert, log | shared by processes; read by everything downstream |
| **Extraction run** (`internal/extract/application`) | jobs channel, result slots, flags, checkpoint goroutine, run row | run stages over modules, checkpoint, seal, store, log | reads a walk, starts call-graph children |
| **Call-graph admission** (`internal/extract/adapters/extractor/local`) | semaphore, running count, memory sizing | take a slot, wait for headroom, start, release | gates children of the extraction pool |
| **Resolver** (`walk/application/resolver.go`) | levels, selected versions, nodes, edges | breadth-first fetch of go.mod files, version selection, replaces, pruning, scope | fetches through the recording fetcher, feeds the walk's finding |
| **Blob store** (`adapters/blobstore/localfs`) | files by hash, verdict cache, temp files | put (temp file and rename, or hard link), open, verify, adopt, sweep | used by fetch and extraction, shared by processes |
| **Bounded children** (`adapters/childproc`) | progress clock, kill flag, deadline | run, watch for silence, kill at a ceiling, classify the end | started behind the call-graph gate |
| **Vulnerability records** (`internal/vuln/domain`, `vuln/adapters/store/sqlite`) | generations of a record, findings index, run membership | append, reconcile the index, compose an answer, list by advisory | written by every scan, read by reports |
| **Vulnerability scan** (`internal/vuln/application`, `driver/scanwalk.go`) | pool, results, call-graph semaphore, the run | reuse a stored run, pin the database, scan rooted or in a pool, tally, read back, store, log | reads walks, writes records and runs |
| Store lock (`adapters/sqlitestore/busy.go`) | retry counter | retry a write that lost the lock, up to a budget | wraps record writes |
| Staleness, licence, interface, SBOM, native, vendor and the other scanners | one record per module | sequential analysis | read walks and blobs |
| Command line, driver, composition, public API | none | wiring, flags, signals | everything |

What is hard in this code, in the order the models address it:

* many goroutines that want the same fetch at once, panics included
  (`recording_fetcher.go`);
* processes that read a composed record and append a row resting on it, while
  others append (`persistrecord.go`);
* records written in two places (row, then log) with a crash in between;
* a checkpoint goroutine and a seal that write the same row (`extract`);
* admission by two counters and a memory reading that is stale when used;
* a walk that takes minutes between reading the latest walk and writing over it;
* cancellation, which ends the context that the last write needs;
* a version raised after another version of the same module was already fetched and
  followed, while a level is fetched by a pool (`resolver.go`);
* a child's own exit, its stall detector, its deadline and the caller's cancellation, all
  deciding how the child ended (`bounded.go`);
* a cached verdict about a file that is renamed over, hard-linked, half-written or edited
  (`localfs.go`);
* records of scans that arrive out of the order they were made in, under different
  databases, toolchains and frames, composed into one answer (`compose.go`);
* a scan whose database is refreshed, whose records other walks write and whose workers
  are cancelled before its run is stored (`scan_walk.go`).

`PROJECT.json` lists the hazards, each at its line, with the property that would
catch it. Two have none, each with the reason.

## 2. Modules

| Module | Models | A step is |
|---|---|---|
| `RecordingFetcher` | `recording_fetcher.go`: single flight per walk | one critical section under `r.mu`, or the code between two |
| `FetchOnce` | what the walk promises its resolver about fetching (abstract) | ask, decide, tell, give up |
| `Resolver` | `resolver.go`: selection level by level, and the toolchain's module list | seeding, one fetch, folding a level, ending |
| `WalkLedger` | `ExecuteWalkUseCase.Execute`, the verdict of `Walker.Walk`, the walks table and the log | the code between two accesses to the store |
| `FactLedger` | the fetch pipeline of one coordinate, the rows, their composition, blobs' presence and the log | the code between two accesses to what processes share |
| `BlobStore` | `localfs`: one artefact identity on the file system | one system call, or one access to the verdict map |
| `ExtractRun` | `ExtractUseCase.Execute`: caller, worker pool, checkpoint goroutine | one channel, atomic, slot or store operation |
| `CallgraphGate` | sizing and admission of call-graph children | one operation on semaphore, count or memory reading |
| `BoundedChild` | extends `CallgraphGate`: `RunBounded` and the classification of its end | an exit, a flag, a signal, a wait, a return |
| `VulnLedger` | vulnerability records of one module version, their composition and index | one SQLite transaction |
| `ScanWalk` | the scan command over one walk | the code between two accesses to channels, semaphore or store |
| `ResolutionProofs` (of `RecordingFetcher` and `Resolver`), `FactLedgerProofs`, `WalkLedgerProofs`, `ExtractRunProofs`, `BlobStoreProofs`, `CallgraphGateProofs`, `VulnLedgerProofs`, `ScanWalkProofs` | theorems (section 4) | |
| `MC*` | constants for TLC | |

How state and actions correspond to the code:

* **RecordingFetcher.** `outcomes` and `inflight` are the maps of that name;
  a lead is the `inflightFetch` value, numbered; `closed` is the set of closed `done`
  channels. `ReturnRecorded`, `JoinInflight` and `BecomeLead` are the three ways out
  of the first critical section; `Settle` and `CloseDone` the deferred ones, which also
  run when a panic escapes. The inner fetcher answers anything, panics included, and
  need not answer the same twice. A caller's locals are dropped when its call returns.
* **Resolver.** A *world* is everything the resolver reads: the target's requirements,
  replaces and excludes, the go.mod of every coordinate, the policy, the toolchain's list and
  the scope. `st` is `resolveState`. `StartWave` is `partitionWave` (replaces applied, the
  superseded dropped), `FetchModule(i)` one pool worker's fetch and parse in any order,
  `FoldLevel` the single-threaded fold in queue order, `EndWaves` the re-pinning of edges and
  `drainNodes`. `ResolveShallow`, `resolveFromBuildList` and `resolveProjectFallback` are the
  other entrances. Version 0 is the local identity of a module read from disk.
* **WalkLedger.** One target and scope. What a walk finds is the environment's choice
  (`Findings`), and `WalkStatus` is the code's verdict on it. `project` says whether the
  target is the local main module, whose tree `Edit` may change. `IdentityHash` leaves out
  what the code leaves out: id and times.
* **FactLedger.** A row is a fact record reduced to its hashes, its verification
  status and its two validation legs (checksum database, git). `ServesBefore` and
  `Served` are the composition order; `InheritFrom` and `LegsOf` the inheritance of
  legs; `Weakens` the strength guard. Each process is a sequence of runs:
  cache check, download, blob writes, verification, inheritance, guard, append, mirror,
  re-read. `Stop` ends a run anywhere; `Evict` removes a blob.
* **BlobStore.** A file is an inode with bytes and a version (its size and modification
  time, the two things a cached verdict is compared by); what a path names and what an open
  handle reads are kept apart. A `Put` that copies is `CreateTemp`, `CopyTemp`, `Rename`,
  `Forget`; one that links the module cache's file is `TakeLink`. A read is `Open`,
  `VerifyHash`, `Observe`, `StoreVerdict`, or a cached verdict that stands. `Adopt*` moves a
  file from the old address; `CleanOrphanedTemps` is the sweep at open; `Damage`, `Remove`,
  `CleanModcache` and `Kill` are the environment.
* **ExtractRun.** Workers are records of place, job, stage and the module's result;
  `next` is the head of the jobs channel. `Tick`/`CheckpointWritten` split a checkpoint
  at the moment the snapshot is taken; `Conclude` waits for the checkpoint goroutine.
  `Cancel` and `Kill` may come between any two steps, and the store may refuse a write.
* **CallgraphGate.** `BoundWorkers` and `deriveCeiling` size the gate from one reading;
  `TakeSlot`, `Claim`, `ReadHost`, `StartBeside`, `WaitForRoom`, `PollAgain`, `Finish`
  and `ReleaseSlot` are the gate. Memory is counted in units of half a budget.
* **BoundedChild.** A composition: the gate's steps are `CallgraphGate`'s own, and the
  gate's `Finish` of a *watched* worker is the return of its `RunBounded` call. `SeeSilence`
  sets the stall flag and `KillSilent` cancels the context, two steps as in the code;
  `PassCeiling` is the deadline; `killGroup` delivers the signal, to a living child or to one
  that has just exited; `RunBounded(w)` and `errorDetail` read the flags in the code's order.
  That analyses end is an assumption of `CallgraphGate` and follows here for the watched
  child, which need not end by itself. Its memory stays counted until `Finish`.
* **VulnLedger.** A record is a shape (coverage, advisories, completeness rung, database
  snapshot, toolchain, frame), a time stamp and a content hash whose order means nothing.
  `servesBefore` is the code's ladder of preferences, `Compose` what a group of candidates
  answers, `compositionRefusal` the two conflicts; `atRooting`, `indexGroup` and `inFrame`
  are the candidates of `ComposeAt`, `ComposeForIndex` and `ComposeInFrame`.
  `PutVulnerabilityRecord` appends, anchors the first scan and reconciles the index of its
  frame. `member` is the scan-run membership: a row names the record its run reported, or, in
  a migrated store, none, and then reaches every record of its key.
  `ListVulnerabilityRecordsByFindingID` is the read by advisory across the store (`NoWalk`)
  or in one walk: it fails when any frame's composition is refused, and `onePerCoordinate`
  keeps the record that ranks first.
* **ScanWalk.** `pc` is the phase of the command, `flight` the modules the workers hold,
  `results` the collector's map, `sem` the call-graph semaphore. `ReusableRun` serves a
  stored run, `resolveSnapshot` pins the database, `scanTargetRooted` and
  `recordRootedAnswer` are the rooted analysis, `TakeModule` to `CollectResults` the pool,
  `ApplyFrameGaps` to `emitAuditEvents` the conclusion. `OtherRefresh` and `OtherScan` are
  other processes; they act in the phases that read what they write and commute with the
  others. `Cancel` is the interrupt inside the pool, where it races the workers; elsewhere an
  interrupt is `Stop`, which also stands for a crash.

## 3. Runs

Every passing run terminates and explores its whole state space. A property that gathers
several is listed with its parts.

| Run | Instance | Shows |
|---|---|---|
| `recording_fetcher` | 3 callers, 2 coordinates | `SingleFlight` (`FetchedAtMostOnce`, `CallersAgree`, `ClosedMeansRecorded`, `TotalsAreDistinct`); it implements `FetchOnce`; `NobodyStranded`, even when a leader's goroutine is unwound |
| `fact_ledger` | 2 overlapping processes and 2 measurements, or 1 process, every route and 3 measurements while the zip may vanish; 2 zips | `LedgerIsAccountedFor` (`AuditMatchesLedger`, `DowngradesAreExplained`), `ServedNeverWeakens`, `ClaimsAreGrounded` (`InheritanceIsGrounded`, `SumDBEvidenceIsReal`), `DivergedLedgerIsClosed`, `ReturnedIsReadable` |
| `extract_run` | 2 workers, 3 modules (one unfetchable), 2 stages, 2 refused writes | `StoredRunIsHonest` (modules complete, verdict theirs, row before work, log about stored rows), `RefusalIsReported`, `RowIsNeverUndone` (`SealedRowIsFinal`, `RowOnlyGrows`), `ExecuteReturns` |
| `callgraph_gate` | 2 workers, one of them watched, 3 analyses, hosts without a budget to four, bound given or derived | `CountsAreExact`, `ShortHostRunsOne`, `ReserveIsKept`, `EndIsTrue`, `AllAnalysesEnd` |
| `walk_ledger` | 1 process at a time, 3 walks, every finding and kind of request, 2 trees, 2 builds | `ServedWalksFit` (`SucceededIsWhole`, `CachedAnswerFits`), `AuditedWalkIsHeld`, `IdentityIsKept` (`OneWalkPerAnalysis`, `ReusedIsSameAnalysis`) |
| `blob_store` | 2 goroutines, of one process or of two, 4 calls, one outside edit or removal | `VerdictsAreTrue` (`ReadsAreIntact`, `RefusalsAreTrue`, `RefusalsAreAudited`), `PutMeansHeld`, `TempsAreOwned` |
| `vuln_ledger` | 3 generations out of 9 shapes, 2 time stamps, 2 databases, 2 toolchains, 3 frames and rows of older builds, 2 membership rows of a walk, naming a record or none | `LedgerIsSound` (`NoAppendIsRefused`, `FirstSeenIsOnePerKey`), `IndexMatchesLedger`, `ServedAdvisoryIsListed`, `WalkAdvisoryIsListed`, `FindingNeverDecays` |
| `scan_walk` | 2 commands over a coordinate, a broken or a project walk, 2 workers, 1 call-graph slot, 1 fault, 1 foreign record, 1 refresh | `StoredRunIsTrue` (`StoredRunIsBacked`, `CompleteIsAnalysed`, `AuditedRunIsStored`), `NoFalseAllClear`, `ServedAnswerIsCurrent`, `UnmeasuredIsNotAnswered` (`CancelledScanIsNotRecorded`, `RefusedInputStoresNoRun`, `FailedScanIsRetried`), `ScanEnds` |
| `resolver` | 5 paths, 2 versions, about two thousand worlds in five families, 2 fetches at once, 1 fault | `GraphIsSelected` (`NodesAreFetched`, `NodesFollowSelection`, `SelectedIsTheMaximum`), `EdgesEndAtNodes`, `PathsAreFollowed` (`RootsAreFollowed`, `WorthyPathsAreFollowed`), `ScopeIsFetched`, `ResolutionEnds` |
| `ledger_vcs_evidence`, `resolver_target` | small | section 6 |
| `walk_overlap` | 2 processes, 3 walks, one tree | `AuditedWalksStand` fails: section 6 |

**Why the bounds are enough.** Three callers are a leader, a waiter and a late caller,
and leave two when one is unwound; two coordinates let two leads be open at once, and one
record suffices because outcomes differ by success and failure. Two
measurements are what one stale read needs (one lands between the read and the append of
the other); a single process takes three, which are a check, a copy of it and a copy of the copy. Two workers and three
modules let one worker take two jobs while the other is inside one, with an unfetchable
module first; two refused writes cover the opening record, a checkpoint and the seal in
pairs. Two gate workers and three analyses let one wait for the other and come back; the
second child is left to the gate's own `Finish`, as two watched ones share nothing but the
gate. Three walks are an original, a change and a return to the original, which is what the
identity rules are about. Four files are the module cache's, the legacy one and two temp
files of two racing puts; four calls let a verdict be stored, made false, and read by the
same and by another process. Three generations are a finding, an all-clear and a third that
decides between them; the shapes were chosen so that both conflicts, every frame rule and
all rungs but the database's version, which its age decides first, are decided somewhere.
Two membership rows let a walk name two records that disagree, or one beside an old row
that names none. Two commands are a run and the one that may be served it, with one refresh
between. The resolver's families are: levels with cycles and late raises,
replaces, bounds and excludes, listed projects, and targets that their dependencies require.
`MaxMeasurements`, `MaxWalks`, `MaxAnalyses`, `MaxRefusals`, `MaxHeld`, `MaxFiles`,
`MaxCalls`, `MaxHarm`, `MaxRows`, `MaxTime`, `MaxGeneration`, `MaxRuns`, `MaxScans`,
`MaxOtherRecords` and `MaxFaults` are the bounds on otherwise unbounded quantities. Deadlock is
checked except where the system may stop: `recording_fetcher` (every caller may have been
unwound by a panic), `walk_ledger`, `blob_store` and `scan_walk` (nothing left within the
bound). Symmetry is used only in runs of safety properties, over model values no definition
tells apart.

**Fairness.** `RecordingFetcher` assumes that a goroutine that can run is scheduled and that
an inner fetch returns (its transports carry timeouts); nothing obliges a caller to ask or a
panic to happen. `ExtractRun` assumes weak fairness of caller, workers and writes, and
strong fairness of the checkpoint goroutine's stop: Go's `select` picks among ready cases at
random, so a case ready again and again is taken. `BoundedChild` assumes that goroutines are
scheduled and timers fire (`Proceed`, `Supervise`), and that the child it does not watch
ends; a watched child is never obliged to end, report or fall silent, and `AllAnalysesEnd`
holds because the deadline passes. `ScanWalk` assumes that a running command takes steps
(`WF(Work)`), `Resolver` the same of its own steps, written out as what weak fairness means
there. No fairness is assumed of cancellation, of faults, of other processes or of memory
becoming free.

## 4. Proofs

TLAPS checks, for every value of the constants:

* **`ResolutionProofs`, of `RecordingFetcher`** (any set of callers, any finite set of coordinates):
  `TypeCorrect`, `FetchedOnce`, `Agreement`, `WaitersFindOutcome`, `Finality`,
  `Refinement` (`Spec => ImplementsFetchOnce`) and `SingleFlightHolds`. All follow from one
  inductive invariant `IInv`. `FetchedAtMostOnce` alone is not inductive: a second call is
  excluded because a leader that has not called yet owns the coordinate's only in-flight
  entry (`LeadersOwn`, `LeadsAreUnique`), and because a coordinate with neither outcome nor
  lead was never fetched (`UnfetchedIsUncalled`). `CallersAgree` needs that a leader past
  `Settle` recorded what it returns (`LeadersRecorded`); `ClosedMeansRecorded` needs that a
  waiter's lead is the in-flight entry until the outcome exists (`WaitersFollow`) and that an
  entry is never closed while in flight (`LeadsAreOpen`). `TotalsAreDistinct` needs that a
  total handed out is at most the number of outcomes recorded (`TotalsAreTaken`), a
  cardinality argument on `Settle`.
* **`ResolutionProofs`, of `Resolver`** (any worlds, number of paths and versions, pool size
  and number of failures, a cancellation anywhere): `ResolverTyped`, `TheGraphIsSelected`,
  `TheEdgesEndAtNodes`, `ThePathsAreFollowed` and `TheScopeIsFetched`, all from
  `ResolverInductive`. No property of the returned graph is inductive: each is about the
  end of a resolution and follows from what every level hands to the next. The *level
  invariant* `Inv(s, F, X, D)` says, with F being fetched, X to be expanded and D being
  expanded: nodes stand where their selected version and the replaces put them (`Placed`); an
  edge asks for no more than is selected and what is selected was asked for (`Asked`); a
  queued item will be coerced to the node of its path (`InLine`); what claims to be resolved
  was, is being or will be fetched, or is a fork whose failure the graph states
  (`Fetched`); roots, and requirements of expanded pre-pruning modules, are expanded, about
  to be or queued to be (`Followed`); nothing is taken up twice (`Fresh`). One requirement
  is handled in one of four ways (`Handled`: excluded, known, given a node that is not
  fetched, raised), and each keeps the invariant (`HandledKeeps`); so do the start of a
  level, one result, one expansion. The other invariants are of the phases: a listed
  project has a node for each listed module and tasks for those the scope retains
  (`Listing`), a shallow graph's edges end at what was required (`FinalShallow`), and a
  finished graph was drained from one of the three kinds of final state (`Final`).
  The model's folds are taken through their traces: a function that folds exists for every
  sequence (`FoldExists`), and passes through one state per element (`FoldTrace`); a fact
  is carried along a trace by looking at the least position at which it would fail
  (`LeastNat`, `CountUp`), so no induction theorem is instantiated. `WorldsAreWorlds` is
  what a well-formed world is (`IsWorld`): that requirements name published versions, that
  the toolchain lists a path once and apart from the main module, and that `go mod graph`
  draws its edges to what `go list -m all` lists (the resolver skips the `go@` and
  `toolchain@` pseudo-modules, `resolver.go:652`).
* **`CallgraphGateProofs`** (any finite set of workers, any host, budget and sizing):
  `GateCountsExact`, `ShortHostIsSerial`, `TypeCorrect`, `ReserveStays`. The counting argument is three
  lemmas, `OneMore`, `OneLess` and `SameNumber`, on the number of workers at a set of
  places; every action moves one worker. `ShortHostIsSerial` adds that whoever is about to
  decide holds a reading the host could not exceed (`OneAtATime`), so only the
  compare-and-swap from zero can start an analysis.
  `ReserveStays` is about a sum over all workers (`InUse`, a fold). The fold is the value of a
  function defined by recursion on sets; `SumExists` shows that there is one and
  `SumIsBounded` what it comes to, both by way of the smallest set for which they would
  fail, so no induction theorem is instantiated. The invariant `Reserve` adds that memory is
  held only while running, under the ceiling, and that the slots' ceilings leave one budget
  (`SharesFit`).
  The same module proves of `BoundedChild` (watched or not) that it implements the gate,
  `ChildImplementsGate` (`ChildSpec => Spec`): every step of the supervision is a step of the
  gate or leaves its state alone, so `GateHoldsWithChildren` follows. `EndReported` is about
  the classification of a child's end, which reads flags after the process is gone: the
  invariant `Sound` says that a kill of our own leaves a trace that outlasts it, since a
  delivered signal implies a stall flag, a passed deadline or a cancelled context, none of
  which is ever cleared during the call. `ClassifyIsTrue` goes through the code's cases in
  their order.
* **`VulnLedgerProofs`** (any advisories, toolchains, frames, databases and walks, any order
  of appends): `TypeCorrect`, `AppendsAreKept`, `OneFirstSeenPerKey`, `LedgerSound`,
  `IndexIsTrue`, `ServedIsListed`, `WalkAdvisoriesListed` and `FindingsStand`. The argument
  has four layers. Every non-empty set of numbered records has a least part for each rung
  (`LeastValue`, `Refine`), so the ladder `servesBefore` always names one record
  (`SomeRecordServes`, `OrderIsStrict`, `BestOfSubset`). The index of a frame depends on the
  rows of that frame only and its composition is never refused (`FrameIsItsRows`,
  `OneToolchainAgrees`, `IndexOfFrame`). `IInv` then carries the index along every append.
  For the reads, a record that is served with an advisory in an indexed frame is listed or
  yields to one that ranks before it, because the second order, `byFindingRanksBefore`,
  also has a first (`SomeRecordRanksFirst`, `CarryingIsNotLost`). In a walk the question is asked
  in the very frame the walk answers from (`WalkFrameIsAsked`), and records the walk does not
  reach leave its advisories in the index as long as they say the same of the same question
  (`SameAnswerSameIndex`).

* **`FactLedgerProofs`** (any number of processes, zips, go.mod files, requests, answers and
  measurements): `AccountedFor`, `ClosedOnDivergence`, `ReturnsReadable`, `AnswersNeverWeaken`
  and `Grounded`. A measurement bears a time nobody else's has, and is a row once stored
  (`RowsAreTimed`, `MeasurementsAreOwn`), so an append is of a new row. The order of serving
  is total on rows of distinct times (`ServesOrder`), so an answer exists and an append either
  leaves it or puts a row that serves before it in its place (`AnswerExists`). Bytes of what
  is in hand were stored or went missing meanwhile (`BytesAreHeld`), and rows that disagree
  go on disagreeing (`DivergenceStays`). `Grounded` needs a second invariant, `ChainsEnd`: from
  every inherited leg there is a chain of copies, shorter than the number of rows, that ends
  at a row which is no copy. `EstablishedFacts` then shows that the code's bounded loop walks
  this chain to its end and stays there.
* **`WalkLedgerProofs`** (any number of processes, walks, findings, requests, trees, builds):
  `SuccessIsWhole` and `AuditIsHeld` for runs that overlap in any way; `ServedFit` and
  `IdentityKept` under `[]NoOverlap`, one run at a time. Without that hypothesis they are
  false for the reason `walk_overlap` shows: two runs may resume one partial walk, and the
  second writes over what the first completed and logged (section 6). The invariant says that only the latest walk can be
  unfinished (`UnfinishedIsLatest`), that the id a run writes under is that walk's or nobody's
  (`IdIsFree`; a fresh id exists by a pigeonhole argument, `FreshIdFacts`), and what a run
  knows at each place (`Running`, `Measured`).
* **`ExtractRunProofs`** (any number of modules, stages, workers and refused writes):
  `HonestRun`, `RefusalReported` and `RowNeverUndone`. The invariant follows a module from the
  channel (`JobsAreHeld`) through its stages (`StagesInOrder`) into its slot (`NothingIsLost`,
  `LiveIsComplete`), says what the flags mean (`PartialIsFailure`), and what the row is while
  the checkpoint goroutine and the seal may write it (`RowIsPrefix`, `CountIsRows`,
  `OpenedFirst`, `RunIsOutcomes`). That a skipped checkpoint had nothing new to say is a
  cardinality argument: a part of the slots with as many members is all of them.
* **`BlobStoreProofs`** (any number of processes, goroutines, files, calls and outside edits):
  `TrueVerdicts`, `PutIsHeld` and `TempsOwned`. What was said of a file at a version is so
  while it has that version (`Told`), for readers in the middle of a read and for cached
  verdicts alike; it survives a step because the bytes of a file somebody measured change only
  with its version (`DiskMoves`, `Seen`). A writer's temp file is its own (`FilesAreOwned`),
  and only an unfinished file is not the artefact before any outside edit
  (`UntouchedIsWhole`). The attempt corrected the model: a `Put` whose verified
  file a failed adoption had removed, while another adoption's half-written file took its
  place, had been counted as a promise about that later file, which four goroutines can
  break; it now promises only if the path still names the file it verified.
* **`ScanWalkProofs`** (any modules, replaced nodes, walks, database generations, workers,
  call-graph slots, and any number of commands, faults and records of other walks):
  `RunsAreTrue`, `AllClearsAreReal`, `ServedIsCurrent` and `UnmeasuredStaysOpen`. None of the
  four is inductive. A record is true because the draft it was written from was: the
  invariant carries `Honest` (no stopped child's record, no all-clear an advisory contradicts)
  and `Mine` (of this command's snapshot, failed only if this command saw it fail) along
  the whole way of a record, from the module in flight (`Drafts`) through the outcome
  (`Outcomes`) to the claim (`Claims`). In the pool every module waits, is being scanned or
  has its outcome, and only one of these (`Partitioned`), so each node of the walk has its claim
  when the run is tallied. `SlotsCounted` ties the semaphore to the modules that build a
  graph; `RefusalKept` says where a refused snapshot is until the run ends by it or the
  target's own gap has taken its place; `RunIsBacked` says what verification established at
  the moment the run and its event are written. Later records, refreshes and commands leave
  a stored run true because rows are only ever added (`StoreIsTrue`).

Assumptions are the named `ASSUME`s of the modules: finiteness of workers, processes and
coordinates, at least one extraction worker, stages that are pairwise distinct,
natural-number bounds and sizes, a positive budget, well-formed worlds, a zero record that is not a record,
well-formed shapes, requests and findings, a target among the modules scanned and no
replaced module among them, and that every module reaches itself.

Only model-checked: the liveness properties, since fairness and `ENABLED` are outside the
proof system used. Every safety invariant and action property of the passing runs is
proved, two of `WalkLedger` for one run at a time as said above.

## 5. What is not modelled, and what the models leave out

* **FactLedger**: rows of other pipeline versions, `@local` coordinates, set-aside rows,
  the detail-text test for old builds, artefact limits. One coordinate at a time: the code
  shares nothing between coordinates but the lock.
* **BlobStore**: one identity at a time, for the same reason. It is assumed that no two
  files share size and modification time; a verdict cannot tell them apart if they do.
* **ExtractRun**: progress reporting, listing, set-aside rows; what a stage computes.
* **CallgraphGate**: the operator's own ceiling; memory used by anything but the analyses.
* **BoundedChild**: a grandchild that keeps stderr open (`WaitDelay`), scratch directories,
  the non-Unix kill; what a progress line says (silence is the detector's choice).
* **WalkLedger**: policies and stage depths, operator attribution, unreadable rows. 
  `walk_ledger` runs one process at a time: with two, the cache's answer may be overwritten
  between its summary and its reading, by the overwriting that `walk_overlap` shows.
* **Resolver**: standard-library and TinyGo nodes, retraction, digests, go.sum verification,
  the bytes of go.mod files. Fetching is `FetchOnce`'s promise: one outcome per coordinate.
* **VulnLedger**: one module version at one pipeline version; aliases, drifted and
  unreadable rows. A walk with runs that do not cover the module counts as never scanned.
* **ScanWalk**: preparation of the module cache, the TinyGo partition, withdrawn and
  inconclusive findings, reachability's own answers, rescans.
* Lock retry, staleness, local ingest and the serving of stored facts: not modelled yet
  (section 7). Call-graph construction, interface extraction, licence texts, SBOM output,
  archives and hashes are computations on data no small model represents.

## 6. Where code and text disagree

Kept as runs that must fail:

* `ledger_vcs_evidence`: an *unavailable* git leg is inherited like an established one and
  becomes evidence nobody established (`persistrecord.go:162`: "Inheritance must not launder
  evidence").
* `resolver_target`: a dependency that requires the target above its own version turns the
  target's root node into an ordinary one at that version (`graph.go:71`: "ResolutionTarget
  marks the root of the graph").
* `walk_overlap`: two processes resume one unfinished walk, because each reads the id of the
  latest one before it walks and writes under that id when it is done; the second overwrites
  what the first completed and logged with its content hash (`executewalk.go:324`;
  `walk/domain/walkrecord.go:59`: "once written it is immutable").

Met while modelling, not kept as runs:

* *Fetch.* Routine fetches alone can make two rows of a coordinate disagree
  (`persistrecord.go:105`), which `fetch/domain/divergence.go:24` says only `--force` can do.
  A full record replaces a stronger go.mod-only one without a downgrade event
  (`persistrecord.go:84`, `docs/ARCHITECTURE.md:470`). A full fetch whose lookup failed returns
  an earlier go.mod-only record (`fetch/domain/composite.go:250`).
* *Walks.* A cancelled walk is written with the cancelled context and so never stored
  (`executewalk.go:174`; `docs/ARCHITECTURE.md:113`: "still persisted"); a cancelled
  extraction run is lost the same way (`extract/application/usecase.go:317`,
  `docs/cli/extract.md:390`). A resumed walk recognised
  as an older one leaves the partial row as the latest (`executewalk.go:157` against the
  comment at line 80).
* *Resolver.* The proofs settled what its properties can say. A replace of one version only
  is looked up at the version asked for, not at the one selected (`resolver.go:1046`), so a
  node can stand elsewhere than selection and replaces say; and a replace of the target's
  path, or a fork put there, takes the anchor's place: hence `ordinaryReplaces`. A
  coordinate two nodes share is fetched for one of them, and only that node shows a failure;
  when it is raised later, nothing but the graph's reason is left of it: hence the second
  case of `NodesAreFetched`. Which of two nodes replaced by one fork survives `drainNodes`
  depends on map order, so a scope that names one of the two may keep neither: hence
  `forksDiffer`. The scope filter matches edges by path and nodes by coordinate, so an edge
  to another version of a fork's path, or to the path the fork replaces, is kept without its
  node (`scope.go:34`): hence the second case of `EdgesEndAtNodes`. A shallow graph is not
  repinned (`resolver.go:1170`), so a path the target requires twice leaves an edge to the
  lower version: hence `requiredOnce`. A path followed at one version and then raised by a
  path that does not qualify is not followed at the new version (`resolver.go:42`). An
  edge's origin keeps a superseded version.
* *Blobs.* The sweep at open removes a temp file that another process is still writing
  (`localfs.go:398` against line 374); a failed adoption can remove a good blob that a put has
  just made; an observer that is late reports a refusal after the repair.
* *Children.* A signal delivered between a child's clean exit and its wait still makes the
  run an error, which the comment at `bounded.go:106` means to exclude: hence "before any
  signal reached it" in `EndIsTrue`. When memory decides the bound, the analyses may use the
  reserve too (`concurrency.go:152` against line 133). The lock's retry budget is eight
  attempts, its comment says five (`sqlitestore/busy.go:34`).
* *Scans.* The by-advisory read of one walk looks the advisory up in the index of the whole
  store, so it answers "not affected" about a record the walk's run named and serves once a
  record of the same key and frame from elsewhere, under another toolchain say, is indexed in
  its place (`findingsbyid.go:350`, `docs/cli/vuln.md:1850`): hence `SaidOtherwise`, the one
  exception of `WalkAdvisoryIsListed`. The comment at `sqlite.go:1165` says that the walk's
  join is by coordinate and that narrowing it by hash would be wrong; line 1226 narrows it. A second scan after the binary pre-pass may be served its own
  pre-pass record (`scan_walk.go:609`, `docs/cli/vuln.md:351`). A target gap is recorded only for
  unscannable and failed outcomes, so a target that fell back to the isolated scan counts as
  complete (`scan_walk.go:370`), and a gap applied before the search for a refused snapshot
  hides the target's own refusal: hence the exception in `RefusedInputStoresNoRun`. A stored
  run is served whatever `--reachability` asks.

## 7. Plan

1. `BusyRetry`: writers on one lock, the retry budget, counts handed to parents; migrations
   under the same lock.
2. Local ingest: the two reads of a working tree around a walk.
3. `StalenessRounds`: rounds of retries against the proxy.
4. Serving stored facts, on `FactLedger`'s composition.
