----------------------------- MODULE ExtractRun -----------------------------
(***************************************************************************)
(* One extraction run over a stored walk                                   *)
(* (internal/extract/application/usecase.go, Execute): a pool of workers   *)
(* takes the walk's modules from a channel and runs the requested stages   *)
(* over each, while a checkpoint goroutine re-states the unfinished run in *)
(* the store, and the caller seals, stores and logs the run once the pool  *)
(* is done.  The operator may cancel the context and the operating system  *)
(* may end the process between any two steps.                              *)
(*                                                                         *)
(* A write (PutExtractionRun, an upsert on the run's id) takes effect in   *)
(* one step, after the record it writes was put together in an earlier     *)
(* one; the store may refuse it.  What a stage extracts is abstracted to   *)
(* whether it succeeded, failed, or was refused because the stored         *)
(* artefact was altered (ErrBlobTampered).                                 *)
(***************************************************************************)
EXTENDS Naturals, Integers, Sequences, FiniteSets

CONSTANTS NumModules,   \* modules in the walk's graph, in graph order
          Unfetchable,  \* the modules with no artefact to extract from
          Stages,       \* the requested stages, in the registry's order
          Workers,      \* goroutines of the pool (resolveWorkers)
          MaxRefusals   \* bound: writes the store refuses in one behaviour

Modules == 1 .. NumModules
StageSet == {Stages[i] : i \in DOMAIN Stages}

ASSUME NumModulesAssumption == NumModules \in Nat \ {0}
ASSUME UnfetchableAssumption == Unfetchable \subseteq Modules
ASSUME StagesAssumption ==
    /\ Stages \in Seq(STRING) /\ Len(Stages) > 0
    /\ \A i, j \in DOMAIN Stages : Stages[i] = Stages[j] => i = j
ASSUME WorkersAssumption == Workers # {}
ASSUME MaxRefusalsAssumption == MaxRefusals \in Nat

VARIABLES pc,          \* where the goroutine running Execute is
          ctx,         \* the context: live or cancelled
          next,        \* the head of the jobs channel; NumModules + 1: drained
          worker,      \* per worker: where it is, its job, its stage, modRes
          outcomes,    \* the workers' slots
          partial,     \* the atomic flag partial
          cancelled,   \* the atomic flag cancelled
          refused,     \* firstError holds a refusal
          ticker,      \* the checkpoint goroutine
          snapshot,    \* the record the checkpoint goroutine is writing
          lastWritten, \* checkpointRun's count of the results last written
          run,         \* the finished run Execute is sealing
          row,         \* the run's row in extraction_runs
          events,      \* the extraction_run_completed events in the log
          ret,         \* what Execute returned
          refusals     \* writes the store refused so far

vars == <<pc, ctx, next, worker, outcomes, partial, cancelled, refused,
          ticker, snapshot, lastWritten, run, row, events, ret, refusals>>
pool == <<next, worker, outcomes, partial, cancelled, refused>>
checkpoints == <<ticker, snapshot, lastWritten>>
ending == <<run, events, ret>>

Status == {"Succeeded", "Partial", "Cancelled", "InProgress"}
StageStatus == {"Succeeded", "Failed", "Skipped"}

(* "Unrun" is a stage absent from a module's Stages map; Unset is a slot   *)
(* no worker filled.                                                       *)
ModRes == [StageSet -> StageStatus \cup {"Unrun"}]
Unset == [s \in StageSet |-> "Unset"]
NoStages == [s \in StageSet |-> "Unrun"]
AllSkipped == [s \in StageSet |-> "Skipped"]

Results == [Modules -> ModRes \cup {Unset}]
NoResults == [m \in Modules |-> Unset]

(* collectResults: the filled slots, as the run's per-module map; a module *)
(* that is not in the map is Unset.                                        *)
collectResults(slots) == slots
SetIn(results) == {m \in Modules : results[m] # Unset}

Record == [status : Status, results : Results]
NoRecord == [status |-> "None", results |-> NoResults]
Checkpoint(slots) == [status |-> "InProgress", results |-> collectResults(slots)]

NoJob == 0
Idle == [at |-> "idle", job |-> NoJob, stage |-> 1, modRes |-> NoStages]

TypeOK ==
    /\ pc \in {"start", "open", "working", "stopping", "sealing", "emitting",
               "returned", "killed"}
    /\ ctx \in {"live", "cancelled"}
    /\ next \in 1 .. NumModules + 1
    /\ worker \in [Workers -> [at : {"idle", "stage", "extracting", "slot", "done"},
                               job : Modules \cup {NoJob},
                               stage : 1 .. Len(Stages) + 1,
                               modRes : ModRes]]
    /\ outcomes \in Results
    /\ partial \in BOOLEAN /\ cancelled \in BOOLEAN /\ refused \in BOOLEAN
    /\ ticker \in {"off", "waiting", "writing", "stopped"}
    /\ snapshot \in Record \cup {NoRecord}
    /\ lastWritten \in -1 .. NumModules
    /\ run \in Record \cup {NoRecord}
    /\ row \in Record \cup {NoRecord}
    /\ events \in Seq(Record)
    /\ ret \in [err : {"pending", "nil", "rejected", "persisting", "unlogged"},
                refused : BOOLEAN, status : Status \cup {"None"}]
    /\ refusals \in 0 .. MaxRefusals

Init ==
    /\ pc = "start"
    /\ ctx = "live"
    /\ next = 1
    /\ worker = [w \in Workers |-> Idle]
    /\ outcomes = NoResults
    /\ partial = FALSE /\ cancelled = FALSE /\ refused = FALSE
    /\ ticker = "off" /\ snapshot = NoRecord /\ lastWritten = -1
    /\ run = NoRecord /\ row = NoRecord
    /\ events = <<>>
    /\ ret = [err |-> "pending", refused |-> FALSE, status |-> "None"]
    /\ refusals = 0

(* PutExtractionRun(ctx, rec): no write starts on a cancelled context, and *)
(* the store may refuse one on a live context (RetryOnBusy gave up, disk). *)
PutLands(rec) ==
    /\ ctx = "live"
    /\ row' = rec
    /\ UNCHANGED refusals

PutFails ==
    /\ \/ ctx = "cancelled" /\ UNCHANGED refusals
       \/ ctx = "live" /\ refusals < MaxRefusals /\ refusals' = refusals + 1
    /\ UNCHANGED row

Return(err, status) ==
    /\ pc' = "returned"
    /\ ret' = [err |-> err, refused |-> refused, status |-> status]

Alive == pc \notin {"returned", "killed"}

-----------------------------------------------------------------------------
(* The goroutine running Execute.                                          *)

(* The walk is missing or empty, no stage was requested, or one requested  *)
(* is not in the registry: Execute returns before there is a run.          *)
Reject ==
    /\ pc = "start"
    /\ Return("rejected", "None")
    /\ UNCHANGED <<ctx, pool, checkpoints, run, events, row, refusals>>

Execute ==
    /\ pc = "start"
    /\ pc' = "open"
    /\ UNCHANGED <<ctx, pool, checkpoints, ending, row, refusals>>

(* checkpointRun's opening write(): lastWritten is -1, so the record that  *)
(* names no module is written too.  The goroutine starts either way.       *)
OpenCheckpoint ==
    /\ pc = "open"
    /\ \/ PutLands(Checkpoint(outcomes)) /\ lastWritten' = Cardinality(SetIn(outcomes))
       \/ PutFails /\ UNCHANGED lastWritten
    /\ ticker' = "waiting"
    /\ pc' = "working"
    /\ UNCHANGED <<ctx, pool, snapshot, ending>>

(* wg.Wait() returns and stopCheckpoints closes done.                      *)
AwaitWorkers ==
    /\ pc = "working"
    /\ \A w \in Workers : worker[w].at = "done"
    /\ pc' = "stopping"
    /\ UNCHANGED <<ctx, pool, checkpoints, ending, row, refusals>>

(* The run's verdict, once the goroutine that checkpoints it has stopped.  *)
OverallStatus ==
    IF cancelled \/ ctx = "cancelled" THEN "Cancelled"
    ELSE IF partial THEN "Partial" ELSE "Succeeded"

(* Mutant: the checkpoint goroutine is told to stop and not waited for.    *)
Conclude_NoWait ==
    /\ pc = "stopping"
    /\ run' = [status |-> OverallStatus, results |-> collectResults(outcomes)]
    /\ pc' = "sealing"
    /\ UNCHANGED <<ctx, pool, checkpoints, events, ret, row, refusals>>

Conclude ==
    /\ pc = "stopping"
    /\ ticker = "stopped"
    /\ run' = [status |-> OverallStatus, results |-> collectResults(outcomes)]
    /\ pc' = "sealing"
    /\ UNCHANGED <<ctx, pool, checkpoints, events, ret, row, refusals>>

(* sealAndPersist: write, then log; a write that fails is not logged.      *)
Persist ==
    /\ pc = "sealing"
    /\ \/ PutLands(run) /\ pc' = "emitting" /\ UNCHANGED ret
       \/ PutFails /\ Return("persisting", "None")
    /\ UNCHANGED <<ctx, pool, checkpoints, run, events>>

(* emitRunCompleted: appended with no context, and the append may fail.    *)
Emit ==
    /\ pc = "emitting"
    /\ \/ events' = Append(events, run) /\ Return("nil", run.status)
       \/ UNCHANGED events /\ Return("unlogged", "None")
    /\ UNCHANGED <<ctx, pool, checkpoints, run, row, refusals>>

-----------------------------------------------------------------------------
(* A worker.                                                               *)

(* The next job, on a live context: every stage of an unfetchable module   *)
(* is skipped with a reason, any other starts at its first stage.          *)
TakeJob(w) ==
    /\ pc = "working"
    /\ worker[w].at = "idle"
    /\ next \in Modules
    /\ ctx = "live"
    /\ next' = next + 1
    /\ worker' = [worker EXCEPT ![w] =
                    IF next \in Unfetchable
                    THEN [Idle EXCEPT !.at = "slot", !.job = next, !.modRes = AllSkipped]
                    ELSE [Idle EXCEPT !.at = "stage", !.job = next]]
    /\ UNCHANGED <<pc, ctx, outcomes, partial, cancelled, refused, checkpoints,
                   ending, row, refusals>>

(* The next job, on a cancelled context: drained and left unset.           *)
DropJob(w) ==
    /\ pc = "working"
    /\ worker[w].at = "idle"
    /\ next \in Modules
    /\ ctx = "cancelled"
    /\ next' = next + 1
    /\ cancelled' = TRUE
    /\ UNCHANGED <<pc, ctx, worker, outcomes, partial, refused, checkpoints,
                   ending, row, refusals>>

(* runModuleStages' loop head: no stage left, cancelled, or the next stage *)
(* is started.                                                             *)
NextStage(w) ==
    /\ pc = "working"
    /\ worker[w].at = "stage"
    /\ IF worker[w].stage > Len(Stages)
       THEN /\ worker' = [worker EXCEPT ![w].at = "slot"]
            /\ UNCHANGED cancelled
       ELSE IF ctx = "cancelled"
       THEN /\ cancelled' = TRUE
            /\ worker' = [worker EXCEPT ![w].at = "slot"]
       ELSE /\ worker' = [worker EXCEPT ![w].at = "extracting"]
            /\ UNCHANGED cancelled
    /\ UNCHANGED <<pc, ctx, next, outcomes, partial, refused, checkpoints,
                   ending, row, refusals>>

(* Extract returned: the stage's status goes on modRes.                    *)
StageEnds(w, status) ==
    LET stage == Stages[worker[w].stage]
    IN /\ pc = "working"
       /\ worker[w].at = "extracting"
       /\ worker' = [worker EXCEPT ![w].at = "stage", ![w].stage = @ + 1,
                                   ![w].modRes = [@ EXCEPT ![stage] = status]]
       /\ partial' = (partial \/ status = "Failed")
       /\ UNCHANGED <<pc, ctx, next, outcomes, cancelled, refused, checkpoints,
                      ending, row, refusals>>

(* Mutant: the refusal returns before the failed stage marks the run.      *)
StageRefused_Unmarked(w) ==
    /\ pc = "working"
    /\ worker[w].at = "extracting"
    /\ worker' = [worker EXCEPT ![w].at = "slot",
                    ![w].modRes = [s \in StageSet |-> "Failed"]]
    /\ refused' = TRUE
    /\ UNCHANGED <<pc, ctx, next, outcomes, partial, cancelled, checkpoints,
                   ending, row, refusals>>

(* Extract refused the stored artefact as altered: the stage failed, and   *)
(* the module's remaining stages fail unrun.                               *)
StageRefused(w) ==
    LET later == {Stages[i] : i \in worker[w].stage .. Len(Stages)}
    IN /\ pc = "working"
       /\ worker[w].at = "extracting"
       /\ worker' = [worker EXCEPT ![w].at = "slot",
                                   ![w].modRes = [s \in StageSet |->
                                       IF s \in later THEN "Failed" ELSE @[s]]]
       /\ partial' = TRUE
       /\ refused' = TRUE
       /\ UNCHANGED <<pc, ctx, next, outcomes, cancelled, checkpoints, ending,
                      row, refusals>>

(* The slot, written once under outMu.                                     *)
FillSlot(w) ==
    /\ pc = "working"
    /\ worker[w].at = "slot"
    /\ outcomes' = [outcomes EXCEPT ![worker[w].job] = worker[w].modRes]
    /\ worker' = [worker EXCEPT ![w] = Idle]
    /\ UNCHANGED <<pc, ctx, next, partial, cancelled, refused, checkpoints,
                   ending, row, refusals>>

WorkerEnds(w) ==
    /\ pc = "working"
    /\ worker[w].at = "idle"
    /\ next \notin Modules
    /\ worker' = [worker EXCEPT ![w].at = "done"]
    /\ UNCHANGED <<pc, ctx, next, outcomes, partial, cancelled, refused,
                   checkpoints, ending, row, refusals>>

-----------------------------------------------------------------------------
(* The checkpoint goroutine.  select takes any case that is ready, so a    *)
(* tick may still be served after done is closed or the context cancelled. *)

(* A tick: write() reads the slots under outMu and returns at once when    *)
(* there are as many results as it last wrote.                             *)
Tick ==
    /\ pc \in {"working", "stopping"}
    /\ ticker = "waiting"
    /\ Cardinality(SetIn(outcomes)) # lastWritten
    /\ ticker' = "writing"
    /\ snapshot' = Checkpoint(outcomes)
    /\ UNCHANGED <<pc, ctx, pool, lastWritten, ending, row, refusals>>

(* Mutant: a write the store refused counts as made.                       *)
CheckpointWritten_AlwaysAdvances ==
    /\ ticker = "writing" /\ Alive
    /\ PutLands(snapshot) \/ PutFails
    /\ lastWritten' = Cardinality(SetIn(snapshot.results))
    /\ ticker' = "waiting"
    /\ snapshot' = NoRecord
    /\ UNCHANGED <<pc, ctx, pool, ending>>

(* The upsert of the snapshot; lastWritten advances on success only.       *)
CheckpointWritten ==
    /\ ticker = "writing" /\ Alive
    /\ \/ PutLands(snapshot) /\ lastWritten' = Cardinality(SetIn(snapshot.results))
       \/ PutFails /\ UNCHANGED lastWritten
    /\ ticker' = "waiting"
    /\ snapshot' = NoRecord
    /\ UNCHANGED <<pc, ctx, pool, ending>>

(* Mutant: the goroutine watches the context and not done.                 *)
TickerStops_OnCancelOnly ==
    /\ pc \in {"working", "stopping"}
    /\ ticker = "waiting"
    /\ ctx = "cancelled"
    /\ ticker' = "stopped"
    /\ UNCHANGED <<pc, ctx, pool, snapshot, lastWritten, ending, row, refusals>>

TickerStops ==
    /\ pc \in {"working", "stopping"}
    /\ ticker = "waiting"
    /\ pc = "stopping" \/ ctx = "cancelled"
    /\ ticker' = "stopped"
    /\ UNCHANGED <<pc, ctx, pool, snapshot, lastWritten, ending, row, refusals>>

-----------------------------------------------------------------------------
(* The environment.                                                        *)

(* The operator interrupts the run (signal.NotifyContext).                 *)
Cancel ==
    /\ Alive
    /\ ctx = "live"
    /\ ctx' = "cancelled"
    /\ UNCHANGED <<pc, pool, checkpoints, ending, row, refusals>>

(* The operating system ends the process: only row and events outlive it.  *)
Kill ==
    /\ Alive
    /\ pc' = "killed"
    /\ UNCHANGED <<ctx, pool, checkpoints, ending, row, refusals>>

WorkerStep(w) ==
    \/ TakeJob(w) \/ DropJob(w) \/ NextStage(w) \/ StageRefused(w)
    \/ \E status \in {"Succeeded", "Failed"} : StageEnds(w, status)
    \/ FillSlot(w) \/ WorkerEnds(w)

CallerStep == Reject \/ Execute \/ OpenCheckpoint \/ AwaitWorkers \/ Conclude
              \/ Persist \/ Emit

(* The process is over: Execute returned or the operating system ended it. *)
Over == ~Alive /\ UNCHANGED vars

Next ==
    \/ CallerStep
    \/ \E w \in Workers : WorkerStep(w)
    \/ Tick \/ CheckpointWritten \/ TickerStops
    \/ Cancel \/ Kill
    \/ Over

Spec == Init /\ [][Next]_vars

(* Goroutines that can run are scheduled and every stage and every write   *)
(* comes back; select picks uniformly among the cases that are ready, so a *)
(* stop that is ready again and again is taken.                            *)
Fairness ==
    /\ WF_vars(CallerStep)
    /\ \A w \in Workers : WF_vars(WorkerStep(w))
    /\ WF_vars(CheckpointWritten)
    /\ SF_vars(TickerStops)

LiveSpec == Spec /\ Fairness

-----------------------------------------------------------------------------
(* Properties.                                                             *)

Final(rec) == rec.status \in {"Succeeded", "Partial", "Cancelled"}
Complete(modRes) == \A s \in StageSet : modRes[s] \in StageStatus
Clean(modRes) == \A s \in StageSet : modRes[s] # "Failed"

(* The seal and the checkpoint goroutine do not race: once the store holds *)
(* the finished run, no checkpoint taken earlier overwrites it with an     *)
(* unfinished one ("stop it and then seal without racing its own record"). *)
SealedRowIsFinal == [][Final(row) => row' = row]_vars

(* The row only ever gains modules: a checkpoint or the seal never drops a *)
(* module an earlier write already stated, nor restates it differently.    *)
RowOnlyGrows ==
    [][\A m \in SetIn(row.results) : row'.results[m] = row.results[m]]_vars

(* Whatever instant the process dies at, a module named by the stored row  *)
(* is one every requested stage of which has a verdict, and the verdict is *)
(* the one its worker reached: no module is reported half extracted.       *)
StoredModulesAreComplete ==
    \A m \in SetIn(row.results) :
        /\ Complete(row.results[m])
        /\ row.results[m] = outcomes[m]

(* A row that says Succeeded or Partial covers every module of the walk,   *)
(* and says Succeeded exactly when no stage of any module failed, whatever *)
(* was cancelled, refused or still in flight when it was concluded.        *)
VerdictMatchesModules ==
    row.status \in {"Succeeded", "Partial"} =>
        /\ SetIn(row.results) = Modules
        /\ (row.status = "Succeeded") <=> (\A m \in Modules : Clean(row.results[m]))

(* A checkpoint skipped because the number of results has not changed      *)
(* would have said exactly what the row already says: the count stands for *)
(* the content, and a write the store refused is not taken for one made.   *)
SkippedCheckpointSaysNothingNew ==
    pc = "working" /\ Cardinality(SetIn(outcomes)) = lastWritten
        => row.results = outcomes

(* No module is worked on before the run is in the store, unless the store *)
(* refused the opening record: a process the system ends mid-run has       *)
(* always left its run behind.                                             *)
RunStoredBeforeWork ==
    (refusals = 0 /\ \E w \in Workers : worker[w].job # NoJob) => row # NoRecord

(* The log never runs ahead of the store: an extraction_run_completed      *)
(* event describes the finished run the row holds, and there is one.       *)
LoggedRunIsStored ==
    /\ Len(events) <= 1
    /\ \A i \in DOMAIN events : events[i] = row

(* A stored artefact refused as altered is never passed over: the finished *)
(* run that met one is neither stored nor returned as a success, and the   *)
(* refusal is part of Execute's error even when the write failed too.      *)
RefusalIsReported ==
    refused => /\ row.status # "Succeeded"
               /\ pc = "returned" => ret.refused /\ ret.status # "Succeeded"

(* Execute comes back: pool, checkpoint goroutine and caller never wait    *)
(* for each other for ever.                                                *)
ExecuteReturns == <>(pc \in {"returned", "killed"})

(* The stored run can be believed at every instant the process may die:    *)
(* its modules are complete, its verdict is theirs, no checkpoint was      *)
(* skipped that had something to say, and the log does not run ahead.      *)
StoredRunIsHonest ==
    /\ TypeOK /\ StoredModulesAreComplete /\ VerdictMatchesModules
    /\ SkippedCheckpointSaysNothingNew /\ RunStoredBeforeWork /\ LoggedRunIsStored

(* No write takes back what an earlier one stated, and none follows the    *)
(* seal (checkpointRun against sealAndPersist).                            *)
RowIsNeverUndone == SealedRowIsFinal /\ RowOnlyGrows
=============================================================================
