-------------------------- MODULE ExtractRunProofs --------------------------
(***************************************************************************)
(* Proofs about ExtractRun: for any number of modules, stages, workers and *)
(* refused writes, the stored run can be believed at every instant, a      *)
(* refused artefact is reported, and no write takes back an earlier one.   *)
(***************************************************************************)
EXTENDS ExtractRun, FiniteSetTheorems, TLAPS

-----------------------------------------------------------------------------
(* The inductive invariant.                                                *)

Busy == {"stage", "extracting", "slot"}

\* Everything a says of a module, b says too.
Within(a, b) == \A k \in SetIn(a) : b[k] = a[k]

\* A module taken from the channel is one worker's, and its slot is empty
\* until that worker fills it.
JobsAreHeld ==
    /\ \A w \in Workers :
         /\ worker[w].at \in Busy => /\ worker[w].job \in Modules /\ worker[w].job < next
                                     /\ outcomes[worker[w].job] = Unset
         /\ worker[w].at \notin Busy => worker[w].job = NoJob
         /\ worker[w].at = "done" => next = NumModules + 1
    /\ \A v, w \in Workers :
         worker[v].at \in Busy /\ worker[w].at \in Busy /\ worker[v].job = worker[w].job => v = w
    /\ \A k \in Modules : k >= next => outcomes[k] = Unset

\* Stages before a worker's have a verdict, the others none.
StagesInOrder ==
    \A w \in Workers :
        /\ worker[w].at \in {"stage", "extracting"} =>
             /\ \A i \in 1 .. Len(Stages) :
                  IF i < worker[w].stage THEN worker[w].modRes[Stages[i]] \in StageStatus
                  ELSE worker[w].modRes[Stages[i]] = "Unrun"
        /\ worker[w].at = "extracting" => worker[w].stage <= Len(Stages)

\* Only a cancelled context leaves a module without all its verdicts.
LiveIsComplete ==
    ctx = "live" => /\ \A k \in SetIn(outcomes) : Complete(outcomes[k])
                    /\ \A w \in Workers : worker[w].at = "slot" => Complete(worker[w].modRes)

\* A module taken and not dropped is in its slot or on its way there.
NothingIsLost ==
    cancelled \/ \A k \in Modules : k < next =>
        outcomes[k] # Unset \/ \E w \in Workers : worker[w].at \in Busy /\ worker[w].job = k

\* The flag partial is raised exactly when a module has a failed stage.
PartialIsFailure ==
    /\ partial <=> \/ \E k \in SetIn(outcomes) : ~Clean(outcomes[k])
                   \/ \E w \in Workers : worker[w].at \in Busy /\ ~Clean(worker[w].modRes)
    /\ refused => partial

\* What is settled in each phase of Execute.
Phases ==
    /\ pc \in {"start", "open"} =>
         /\ \A w \in Workers : worker[w] = Idle
         /\ next = 1 /\ outcomes = NoResults /\ ~partial /\ ~cancelled /\ ~refused
         /\ ticker = "off" /\ lastWritten = -1 /\ row = NoRecord /\ refusals = 0
    /\ pc \in {"stopping", "sealing", "emitting"} => \A w \in Workers : worker[w].at = "done"
    /\ pc \in {"working", "stopping"} => ticker # "off"
    /\ pc \in {"sealing", "emitting"} => ticker = "stopped"

\* The row holds a part of the slots, and the checkpoint on its way holds more.
RowIsPrefix ==
    /\ Within(row.results, outcomes)
    /\ \A k \in SetIn(row.results) : Complete(row.results[k])
    /\ ticker = "writing" => /\ snapshot.status = "InProgress"
                             /\ Within(row.results, snapshot.results)
                             /\ Within(snapshot.results, outcomes)

\* lastWritten counts the row while checkpoints are made.
CountIsRows ==
    pc \in {"start", "open", "working", "stopping"} =>
        /\ row.status \in {"None", "InProgress"}
        /\ lastWritten = -1 => row = NoRecord
        /\ lastWritten # -1 => lastWritten = Cardinality(SetIn(row.results))

\* The opening record precedes the work.
OpenedFirst ==
    refusals = 0 /\ row = NoRecord =>
        /\ pc = "working" => ctx = "cancelled"
        /\ \A w \in Workers : worker[w].at \notin Busy

\* What is being sealed is what the slots say.
RunIsOutcomes ==
    /\ pc \in {"sealing", "emitting"} =>
         /\ Final(run) /\ run.results = outcomes
         /\ run.status \in {"Succeeded", "Partial"} =>
              /\ SetIn(outcomes) = Modules
              /\ (run.status = "Succeeded") <=> ~partial
    /\ pc = "sealing" => row.status \in {"None", "InProgress"}
    /\ pc = "emitting" => row = run

\* The row of a finished run, its event and what was returned.
Ending ==
    /\ Final(row) => pc \in {"emitting", "returned", "killed"}
    /\ row.status = "Succeeded" => ~refused
    /\ events = <<>> \/ (pc = "returned" /\ events = <<row>>)
    /\ pc = "returned" => /\ ret.refused = refused
                          /\ ret.status = "Succeeded" => ~refused

IInv ==
    /\ TypeOK /\ JobsAreHeld /\ StagesInOrder /\ LiveIsComplete /\ NothingIsLost
    /\ PartialIsFailure /\ Phases /\ RowIsPrefix /\ CountIsRows /\ OpenedFirst
    /\ RunIsOutcomes /\ Ending /\ VerdictMatchesModules

-----------------------------------------------------------------------------
(* Results.                                                                *)

(* A module's result is never the empty slot, and the results a worker     *)
(* starts from are results.                                                *)
LEMMA ResultFacts ==
    /\ Unset \notin ModRes
    /\ NoStages \in ModRes /\ AllSkipped \in ModRes
    /\ Complete(AllSkipped) /\ Clean(AllSkipped) /\ Clean(NoStages)
    /\ NoResults \in Results /\ SetIn(NoResults) = {}
<1>1. Stages[1] \in StageSet
  BY StagesAssumption DEF StageSet
<1>2. Unset \notin ModRes
  BY <1>1 DEF Unset, ModRes, StageStatus
<1>3. NoStages \in ModRes /\ AllSkipped \in ModRes
  BY DEF NoStages, AllSkipped, ModRes, StageStatus
<1>4. Complete(AllSkipped) /\ Clean(AllSkipped) /\ Clean(NoStages)
  BY DEF Complete, Clean, AllSkipped, NoStages, StageStatus
<1>5. NoResults \in Results /\ SetIn(NoResults) = {}
  BY DEF NoResults, Results, SetIn
<1> QED BY <1>2, <1>3, <1>4, <1>5

(* The modules with a result are finitely many.                            *)
LEMMA CountFacts ==
    ASSUME NEW r \in Results
    PROVE  /\ IsFiniteSet(SetIn(r)) /\ Cardinality(SetIn(r)) \in 0 .. NumModules
<1>1. IsFiniteSet(Modules) /\ Cardinality(Modules) = NumModules
  BY FS_Interval, NumModulesAssumption DEF Modules
<1>2. SetIn(r) \in SUBSET Modules
  BY DEF SetIn
<1>3. IsFiniteSet(SetIn(r)) /\ Cardinality(SetIn(r)) <= NumModules
  BY <1>1, <1>2, FS_Subset
<1>4. Cardinality(SetIn(r)) \in Nat
  BY <1>3, FS_CardinalityType
<1> QED BY <1>3, <1>4, NumModulesAssumption

(* A checkpoint is a record of an unfinished run.                          *)
LEMMA CheckpointFacts ==
    ASSUME NEW r \in Results
    PROVE  /\ Checkpoint(r) \in Record /\ Checkpoint(r) # NoRecord
           /\ Checkpoint(r).status = "InProgress" /\ Checkpoint(r).results = r
  BY DEF Checkpoint, Record, Status, NoRecord, collectResults

-----------------------------------------------------------------------------
(* Who changes what.                                                       *)

Others == CallerStep \/ Tick \/ CheckpointWritten \/ TickerStops \/ Cancel \/ Kill \/ Over

(* Only workers touch the pool's state.                                    *)
LEMMA PoolFrame == Others => UNCHANGED pool
  BY DEF Others, CallerStep, Reject, Execute, OpenCheckpoint, AwaitWorkers, Conclude, Persist,
         Emit, Tick, CheckpointWritten, TickerStops, Cancel, Kill, Over, Return, vars, pool

(* A worker touches nothing else.                                          *)
LEMMA WorkerFrame ==
    ASSUME NEW w \in Workers, WorkerStep(w)
    PROVE  pc = "working" /\ UNCHANGED <<pc, ctx, checkpoints, ending, row, refusals>>
  BY DEF WorkerStep, TakeJob, DropJob, NextStage, StageRefused, StageEnds, FillSlot, WorkerEnds

(* A step is a worker's, one of the others, or none.                       *)
LEMMA Steps ==
    ASSUME [Next]_vars
    PROVE  (\E w \in Workers : WorkerStep(w)) \/ Others \/ UNCHANGED vars
  BY DEF Next, Others

-----------------------------------------------------------------------------
(* Types.                                                                  *)

WorkerType ==
    [at : {"idle", "stage", "extracting", "slot", "done"}, job : Modules \cup {NoJob},
     stage : 1 .. Len(Stages) + 1, modRes : ModRes]

PoolTypes ==
    /\ next \in 1 .. NumModules + 1 /\ worker \in [Workers -> WorkerType] /\ outcomes \in Results
    /\ partial \in BOOLEAN /\ cancelled \in BOOLEAN /\ refused \in BOOLEAN

(* A worker between two jobs is typed.                                     *)
LEMMA IdleFacts ==
    /\ Idle \in WorkerType /\ Idle.at = "idle" /\ Idle.job = NoJob
    /\ Idle.stage = 1 /\ Idle.modRes = NoStages
  BY ResultFacts, StagesAssumption DEF Idle, WorkerType

(* The initial state is typed.                                             *)
LEMMA TypeInit == Init => TypeOK
<1> SUFFICES ASSUME Init PROVE TypeOK
  OBVIOUS
<1>1. worker \in [Workers -> WorkerType]
  BY IdleFacts DEF Init
<1>2. events \in Seq(Record)
  BY DEF Init
<1>3. outcomes \in Results
  BY ResultFacts DEF Init
<1>4. /\ next \in 1 .. NumModules + 1 /\ lastWritten \in -1 .. NumModules
      /\ refusals \in 0 .. MaxRefusals
  BY NumModulesAssumption, MaxRefusalsAssumption DEF Init
<1>5. ret \in [err : {"pending", "nil", "rejected", "persisting", "unlogged"},
                refused : BOOLEAN, status : Status \cup {"None"}]
  BY DEF Init
<1> QED BY <1>1, <1>2, <1>3, <1>4, <1>5 DEF Init, TypeOK, WorkerType

(* A worker's step keeps the pool's types.                                 *)
LEMMA WorkerTypes ==
    ASSUME IInv, NEW w \in Workers, WorkerStep(w)
    PROVE  TypeOK'
<1> USE DEF PoolTypes
<1>1. PoolTypes
  BY DEF IInv, TypeOK, WorkerType
<1>2. /\ worker[w].at \in Busy => worker[w].job \in Modules
      /\ worker[w].at = "extracting" => worker[w].stage \in 1 .. Len(Stages)
      /\ worker[w] \in WorkerType
  BY <1>1, StagesAssumption DEF IInv, JobsAreHeld, StagesInOrder, WorkerType
<1>3. PoolTypes'
  <2>1. CASE TakeJob(w)
    <3>1. [Idle EXCEPT !.at = "slot", !.job = next, !.modRes = AllSkipped] \in WorkerType
      BY <2>1, IdleFacts, ResultFacts DEF TakeJob, WorkerType
    <3>2. [Idle EXCEPT !.at = "stage", !.job = next] \in WorkerType
      BY <2>1, IdleFacts DEF TakeJob, WorkerType
    <3> QED BY <1>1, <2>1, <3>1, <3>2, NumModulesAssumption DEF TakeJob, Modules
  <2>2. CASE DropJob(w)
    BY <1>1, <2>2, NumModulesAssumption DEF DropJob, Modules
  <2>3. CASE NextStage(w)
    <3>1. \A place \in {"slot", "extracting"} : [worker[w] EXCEPT !.at = place] \in WorkerType
      BY <1>2 DEF WorkerType
    <3> QED BY <1>1, <2>3, <3>1 DEF NextStage
  <2>4. CASE StageRefused(w)
    <3> DEFINE later == {Stages[i] : i \in worker[w].stage .. Len(Stages)}
               res == [s \in StageSet |-> IF s \in later THEN "Failed" ELSE worker[w].modRes[s]]
    <3>1. res \in ModRes
      BY <1>2 DEF WorkerType, ModRes, StageStatus
    <3>2. [worker[w] EXCEPT !.at = "slot", !.modRes = res] \in WorkerType
      BY <1>2, <3>1 DEF WorkerType
    <3>3. worker' = [worker EXCEPT ![w] = [worker[w] EXCEPT !.at = "slot", !.modRes = res]]
      BY <1>1, <2>4 DEF StageRefused
    <3> QED BY <1>1, <2>4, <3>2, <3>3 DEF StageRefused
  <2>5. ASSUME NEW status \in {"Succeeded", "Failed"}, StageEnds(w, status)
        PROVE  PoolTypes'
    <3> DEFINE res == [worker[w].modRes EXCEPT ![Stages[worker[w].stage]] = status]
               new == [worker[w] EXCEPT !.at = "stage", !.stage = worker[w].stage + 1, !.modRes = res]
    <3>1. worker[w].stage \in 1 .. Len(Stages)
      BY <1>2, <2>5 DEF StageEnds
    <3>2. res \in ModRes
      BY <1>2 DEF WorkerType, ModRes, StageStatus
    <3>a. Len(Stages) \in Nat /\ worker[w].stage + 1 \in 1 .. Len(Stages) + 1
      BY <3>1, StagesAssumption
    <3>3. new \in WorkerType
      <4> HIDE DEF res
      <4> QED BY <1>2, <3>a, <3>2 DEF WorkerType
    <3>4. worker' = [worker EXCEPT ![w] = new]
      BY <1>1, <2>5 DEF StageEnds
    <3> QED BY <1>1, <2>5, <3>3, <3>4 DEF StageEnds
  <2>6. CASE FillSlot(w)
    <3>1. worker[w].job \in Modules /\ worker[w].modRes \in ModRes
      BY <1>2, <2>6 DEF FillSlot, Busy, WorkerType
    <3> QED BY <1>1, <2>6, <3>1, IdleFacts DEF FillSlot, Results
  <2>7. CASE WorkerEnds(w)
    <3>1. [worker[w] EXCEPT !.at = "done"] \in WorkerType
      BY <1>2 DEF WorkerType
    <3> QED BY <1>1, <2>7, <3>1 DEF WorkerEnds
  <2> QED BY <2>1, <2>2, <2>3, <2>4, <2>5, <2>6, <2>7 DEF WorkerStep
<1>4. UNCHANGED <<pc, ctx, checkpoints, ending, row, refusals>>
  BY WorkerFrame
<1> QED BY <1>3, <1>4 DEF IInv, TypeOK, WorkerType, checkpoints, ending

(* The caller's, the checkpoint goroutine's and the environment's steps    *)
(* keep the types.                                                         *)
LEMMA OtherTypes ==
    ASSUME IInv, Others
    PROVE  TypeOK'
<1>1. UNCHANGED pool
  BY PoolFrame
<1>2. TypeOK
  BY DEF IInv
<1> SUFFICES /\ pc' \in {"start", "open", "working", "stopping", "sealing", "emitting",
                          "returned", "killed"}
             /\ ctx' \in {"live", "cancelled"}
             /\ ticker' \in {"off", "waiting", "writing", "stopped"}
             /\ snapshot' \in Record \cup {NoRecord}
             /\ lastWritten' \in -1 .. NumModules
             /\ run' \in Record \cup {NoRecord}
             /\ row' \in Record \cup {NoRecord}
             /\ events' \in Seq(Record)
             /\ ret' \in [err : {"pending", "nil", "rejected", "persisting", "unlogged"},
                           refused : BOOLEAN, status : Status \cup {"None"}]
             /\ refusals' \in 0 .. MaxRefusals
  BY <1>1, <1>2 DEF TypeOK, pool
<1>3. CASE Reject
  BY <1>2, <1>3 DEF Reject, Return, TypeOK, checkpoints
<1>4. CASE Execute
  BY <1>2, <1>4 DEF Execute, TypeOK, checkpoints, ending
<1>5. CASE OpenCheckpoint
  <2>1. Checkpoint(outcomes) \in Record /\ Cardinality(SetIn(outcomes)) \in 0 .. NumModules
    BY <1>2, CheckpointFacts, CountFacts DEF TypeOK
  <2> QED BY <1>2, <1>5, <2>1, NumModulesAssumption, MaxRefusalsAssumption
          DEF OpenCheckpoint, PutLands, PutFails, TypeOK, ending
<1>6. CASE AwaitWorkers
  BY <1>2, <1>6 DEF AwaitWorkers, TypeOK, checkpoints, ending
<1>7. CASE Conclude
  <2>1. [status |-> OverallStatus, results |-> collectResults(outcomes)] \in Record
    BY <1>2 DEF OverallStatus, collectResults, Record, Status, TypeOK
  <2> QED BY <1>2, <1>7, <2>1 DEF Conclude, TypeOK, checkpoints
<1>8. CASE Persist
  BY <1>2, <1>8, MaxRefusalsAssumption
     DEF Persist, PutLands, PutFails, Return, TypeOK, checkpoints, ending
<1>9. CASE Emit
  <2>1. run \in Record
    BY <1>2, <1>9 DEF Emit, IInv, RunIsOutcomes, Final, TypeOK, NoRecord
  <2>2. run.status \in Status
    BY <2>1 DEF Record
  <2>3. events' \in Seq(Record)
    BY <1>2, <1>9, <2>1 DEF Emit, TypeOK
  <2> QED BY <1>2, <1>9, <2>2, <2>3 DEF Emit, Return, TypeOK, checkpoints
<1>10. CASE Tick
  <2>1. Checkpoint(outcomes) \in Record
    BY <1>2, CheckpointFacts DEF TypeOK
  <2> QED BY <1>2, <1>10, <2>1 DEF Tick, TypeOK, ending
<1>11. CASE CheckpointWritten
  <2>1. snapshot.results \in Results
    BY <1>2, ResultFacts DEF TypeOK, Record, NoRecord
  <2>2. Cardinality(SetIn(snapshot.results)) \in 0 .. NumModules
    BY <2>1, CountFacts
  <2> QED BY <1>2, <1>11, <2>2, NumModulesAssumption, MaxRefusalsAssumption
          DEF CheckpointWritten, PutLands, PutFails, TypeOK, ending
<1>12. CASE TickerStops
  BY <1>2, <1>12 DEF TickerStops, TypeOK, ending
<1>13. CASE Cancel \/ Kill \/ Over
  BY <1>2, <1>13 DEF Cancel, Kill, Over, TypeOK, checkpoints, ending, vars
<1> QED BY <1>3, <1>4, <1>5, <1>6, <1>7, <1>8, <1>9, <1>10, <1>11, <1>12, <1>13
        DEF Others, CallerStep

-----------------------------------------------------------------------------
(* The pool.                                                               *)

PoolInv == JobsAreHeld /\ StagesInOrder /\ LiveIsComplete /\ NothingIsLost /\ PartialIsFailure

(* Taking a job.                                                           *)
LEMMA TakeJobKeeps ==
    ASSUME IInv, NEW w \in Workers, TakeJob(w)
    PROVE  PoolInv'
<1> DEFINE skip == next \in Unfetchable
<1>1. TypeOK /\ worker \in [Workers -> WorkerType] /\ next \in Modules /\ ctx = "live"
  BY DEF IInv, TypeOK, WorkerType, TakeJob
<1>2. /\ next' = next + 1
      /\ UNCHANGED <<pc, ctx, outcomes, partial, cancelled, refused>>
  BY DEF TakeJob
<1>3. /\ \A v \in Workers \ {w} : worker'[v] = worker[v]
      /\ worker[w].at = "idle"
      /\ worker'[w].at = (IF skip THEN "slot" ELSE "stage")
      /\ worker'[w].job = next /\ worker'[w].stage = 1
      /\ worker'[w].modRes = (IF skip THEN AllSkipped ELSE NoStages)
  BY <1>1, IdleFacts DEF TakeJob, WorkerType
<1> HIDE DEF skip
<1>4. JobsAreHeld'
  <2>1. next \in Nat /\ next # NumModules + 1
    BY <1>1, NumModulesAssumption DEF Modules
  <2>2. outcomes[next] = Unset
    BY <1>1, <2>1 DEF IInv, JobsAreHeld
  <2>3. \A v \in Workers \ {w} : worker[v].at \in Busy => worker[v].job \in Nat /\ worker[v].job < next
    BY DEF IInv, JobsAreHeld, Modules
  <2> QED BY <1>1, <1>2, <1>3, <2>1, <2>2, <2>3 DEF IInv, JobsAreHeld, Busy, Modules
<1>5. StagesInOrder'
  <2>1. \A i \in 1 .. Len(Stages) : NoStages[Stages[i]] = "Unrun"
    BY DEF NoStages, StageSet
  <2> QED BY <1>3, <2>1 DEF IInv, StagesInOrder
<1>6. LiveIsComplete'
  BY <1>2, <1>3, ResultFacts DEF IInv, LiveIsComplete
<1>7. NothingIsLost'
  <2>1. \A k \in Modules : k < next + 1 => k < next \/ k = next
    BY <1>1 DEF Modules
  <2> QED BY <1>1, <1>2, <1>3, <2>1 DEF IInv, NothingIsLost, Busy
<1>8. PartialIsFailure'
  BY <1>2, <1>3, ResultFacts DEF IInv, PartialIsFailure, Busy
<1> QED BY <1>4, <1>5, <1>6, <1>7, <1>8 DEF PoolInv

(* Draining a job on a cancelled context.                                  *)
LEMMA DropJobKeeps ==
    ASSUME IInv, NEW w \in Workers, DropJob(w)
    PROVE  PoolInv'
<1>1. /\ next \in Modules /\ next' = next + 1 /\ cancelled' /\ next \in Nat
      /\ UNCHANGED <<worker, ctx, outcomes, partial, refused>>
  BY DEF DropJob, Modules
<1>2. JobsAreHeld'
  <2>1. \A v \in Workers : worker[v].at # "done"
    BY <1>1, NumModulesAssumption DEF IInv, JobsAreHeld, Modules
  <2> QED BY <1>1, <2>1 DEF IInv, JobsAreHeld, Modules
<1>3. StagesInOrder' /\ LiveIsComplete' /\ NothingIsLost' /\ PartialIsFailure'
  BY <1>1 DEF IInv, StagesInOrder, LiveIsComplete, NothingIsLost, PartialIsFailure
<1> QED BY <1>2, <1>3 DEF PoolInv

(* The loop head of a module's stages.                                     *)
LEMMA NextStageKeeps ==
    ASSUME IInv, NEW w \in Workers, NextStage(w)
    PROVE  PoolInv'
<1>1. TypeOK /\ worker \in [Workers -> WorkerType]
  BY DEF IInv, TypeOK, WorkerType
<1>2. /\ worker[w].at = "stage"
      /\ UNCHANGED <<next, ctx, outcomes, partial, refused>>
      /\ cancelled => cancelled'
  BY DEF NextStage
<1>3. /\ \A v \in Workers \ {w} : worker'[v] = worker[v]
      /\ worker'[w].at \in {"slot", "extracting"}
      /\ worker'[w].at = "extracting" => worker[w].stage <= Len(Stages)
      /\ worker'[w].at = "slot" => worker[w].stage > Len(Stages) \/ ctx = "cancelled"
      /\ worker'[w].job = worker[w].job /\ worker'[w].stage = worker[w].stage
      /\ worker'[w].modRes = worker[w].modRes
      /\ worker[w].stage \in 1 .. Len(Stages) + 1
  BY <1>1, StagesAssumption DEF NextStage, WorkerType
<1>4. JobsAreHeld'
  BY <1>2, <1>3 DEF IInv, JobsAreHeld, Busy
<1>5. StagesInOrder'
  BY <1>2, <1>3 DEF IInv, StagesInOrder
<1>6. LiveIsComplete'
  <2>1. worker[w].stage > Len(Stages) => Complete(worker[w].modRes)
    <3> SUFFICES ASSUME worker[w].stage > Len(Stages), NEW s \in StageSet
                 PROVE  worker[w].modRes[s] \in StageStatus
      BY DEF Complete
    <3>1. PICK i \in 1 .. Len(Stages) : s = Stages[i]
      BY StagesAssumption DEF StageSet
    <3> QED BY <1>2, <1>3, <3>1, StagesAssumption DEF IInv, StagesInOrder
  <2> QED BY <1>2, <1>3, <2>1 DEF IInv, LiveIsComplete
<1>7. NothingIsLost'
  BY <1>2, <1>3 DEF IInv, NothingIsLost, Busy
<1>8. PartialIsFailure'
  BY <1>2, <1>3 DEF IInv, PartialIsFailure, Busy
<1> QED BY <1>4, <1>5, <1>6, <1>7, <1>8 DEF PoolInv

(* A stage ends with a verdict.                                            *)
LEMMA StageEndsKeeps ==
    ASSUME IInv, NEW w \in Workers, NEW status \in {"Succeeded", "Failed"}, StageEnds(w, status)
    PROVE  PoolInv'
<1> DEFINE i == worker[w].stage
<1>1. TypeOK /\ worker \in [Workers -> WorkerType] /\ Len(Stages) \in Nat
  BY StagesAssumption DEF IInv, TypeOK, WorkerType
<1>2. /\ worker[w].at = "extracting" /\ i \in 1 .. Len(Stages)
      /\ UNCHANGED <<next, ctx, outcomes, cancelled, refused>>
      /\ partial' = (partial \/ status = "Failed")
  BY <1>1 DEF StageEnds, IInv, StagesInOrder, WorkerType
<1>3. worker[w].modRes \in ModRes /\ Stages[i] \in StageSet
  BY <1>1, <1>2 DEF WorkerType, StageSet
<1>4. /\ \A v \in Workers \ {w} : worker'[v] = worker[v]
      /\ worker'[w].at = "stage" /\ worker'[w].job = worker[w].job
      /\ worker'[w].stage = i + 1
      /\ worker'[w].modRes = [worker[w].modRes EXCEPT ![Stages[i]] = status]
  BY <1>1 DEF StageEnds, WorkerType
<1>5. /\ worker'[w].modRes[Stages[i]] = status
      /\ \A s \in StageSet \ {Stages[i]} : worker'[w].modRes[s] = worker[w].modRes[s]
      /\ worker[w].modRes[Stages[i]] = "Unrun"
  BY <1>2, <1>3, <1>4 DEF ModRes, IInv, StagesInOrder
<1> HIDE DEF i
<1>6. JobsAreHeld'
  BY <1>2, <1>4 DEF IInv, JobsAreHeld, Busy
<1>7. StagesInOrder'
  <2>1. ASSUME NEW j \in 1 .. Len(Stages)
        PROVE  IF j < i + 1 THEN worker'[w].modRes[Stages[j]] \in StageStatus
               ELSE worker'[w].modRes[Stages[j]] = "Unrun"
    <3>1. CASE j = i
      BY <1>2, <1>5, <3>1 DEF StageStatus
    <3>2. CASE j # i
      <4>1. Stages[j] \in StageSet \ {Stages[i]}
        BY <1>2, <3>2, StagesAssumption DEF StageSet
      <4>2. IF j < i THEN worker[w].modRes[Stages[j]] \in StageStatus
            ELSE worker[w].modRes[Stages[j]] = "Unrun"
        BY <1>2 DEF IInv, StagesInOrder, i
      <4> QED BY <1>2, <1>5, <3>2, <4>1, <4>2
    <3> QED BY <3>1, <3>2
  <2>2. \A v \in Workers \ {w} :
          /\ worker'[v].at \in {"stage", "extracting"} =>
               \A j \in 1 .. Len(Stages) :
                  IF j < worker'[v].stage THEN worker'[v].modRes[Stages[j]] \in StageStatus
                  ELSE worker'[v].modRes[Stages[j]] = "Unrun"
          /\ worker'[v].at = "extracting" => worker'[v].stage <= Len(Stages)
    BY <1>4 DEF IInv, StagesInOrder
  <2>3. \A j \in 1 .. Len(Stages) :
          IF j < worker'[w].stage THEN worker'[w].modRes[Stages[j]] \in StageStatus
          ELSE worker'[w].modRes[Stages[j]] = "Unrun"
    BY <1>4, <2>1
  <2>4. worker'[w].at # "extracting"
    BY <1>4
  <2> QED BY <2>2, <2>3, <2>4 DEF StagesInOrder
<1>8. LiveIsComplete' /\ NothingIsLost'
  BY <1>2, <1>4 DEF IInv, LiveIsComplete, NothingIsLost, Busy
<1>9. PartialIsFailure'
  <2>1. Clean(worker'[w].modRes) <=> Clean(worker[w].modRes) /\ status # "Failed"
    BY <1>3, <1>5 DEF Clean
  <2> QED BY <1>2, <1>4, <2>1 DEF IInv, PartialIsFailure, Busy
<1> QED BY <1>6, <1>7, <1>8, <1>9 DEF PoolInv

(* A stage refuses the stored artefact.                                    *)
LEMMA StageRefusedKeeps ==
    ASSUME IInv, NEW w \in Workers, StageRefused(w)
    PROVE  PoolInv'
<1> DEFINE later == {Stages[j] : j \in worker[w].stage .. Len(Stages)}
           res == [s \in StageSet |-> IF s \in later THEN "Failed" ELSE worker[w].modRes[s]]
<1>1. TypeOK /\ worker \in [Workers -> WorkerType] /\ Len(Stages) \in Nat
  BY StagesAssumption DEF IInv, TypeOK, WorkerType
<1>2. /\ worker[w].at = "extracting" /\ worker[w].stage \in 1 .. Len(Stages)
      /\ UNCHANGED <<next, ctx, outcomes, cancelled>>
      /\ partial' /\ refused'
  BY <1>1 DEF StageRefused, IInv, StagesInOrder, WorkerType
<1>3. /\ \A v \in Workers \ {w} : worker'[v] = worker[v]
      /\ worker'[w].at = "slot" /\ worker'[w].job = worker[w].job
      /\ worker'[w].modRes = res
  BY <1>1 DEF StageRefused, WorkerType
<1>4. Complete(res)
  <2> SUFFICES ASSUME NEW s \in StageSet PROVE res[s] \in StageStatus
    BY DEF Complete
  <2>1. PICK j \in 1 .. Len(Stages) : s = Stages[j]
    BY StagesAssumption DEF StageSet
  <2>2. CASE j >= worker[w].stage
    BY <1>2, <2>1, <2>2 DEF StageStatus
  <2>3. CASE j < worker[w].stage
    BY <1>2, <2>1, <2>3 DEF IInv, StagesInOrder, StageStatus
  <2> QED BY <1>2, <2>2, <2>3
<1>5. ~Clean(res)
  <2>1. Stages[worker[w].stage] \in StageSet /\ Stages[worker[w].stage] \in later
    BY <1>1, <1>2 DEF StageSet
  <2> QED BY <2>1 DEF Clean
<1> HIDE DEF later, res
<1>6. JobsAreHeld'
  BY <1>2, <1>3 DEF IInv, JobsAreHeld, Busy
<1>7. StagesInOrder' /\ LiveIsComplete' /\ NothingIsLost'
  BY <1>2, <1>3, <1>4 DEF IInv, StagesInOrder, LiveIsComplete, NothingIsLost, Busy
<1>8. PartialIsFailure'
  BY <1>2, <1>3, <1>5 DEF PartialIsFailure, Busy
<1> QED BY <1>6, <1>7, <1>8 DEF PoolInv

(* A worker fills the slot of its module: it was empty, and stays filled.  *)
LEMMA FillSlotKeeps ==
    ASSUME IInv, NEW w \in Workers, FillSlot(w)
    PROVE  PoolInv' /\ Within(outcomes, outcomes')
<1> DEFINE k == worker[w].job
<1>1. TypeOK /\ worker \in [Workers -> WorkerType] /\ outcomes \in Results
  BY DEF IInv, TypeOK, WorkerType
<1>2. /\ worker[w].at = "slot" /\ worker[w].modRes \in ModRes
      /\ k \in Modules /\ k < next /\ outcomes[k] = Unset
      /\ UNCHANGED <<next, ctx, partial, cancelled, refused>>
  BY <1>1 DEF FillSlot, IInv, JobsAreHeld, Busy, WorkerType
<1>3. /\ \A v \in Workers \ {w} : worker'[v] = worker[v]
      /\ worker'[w].at = "idle" /\ worker'[w].job = NoJob
  BY <1>1, IdleFacts DEF FillSlot
<1>4. /\ outcomes'[k] = worker[w].modRes /\ outcomes'[k] # Unset
      /\ \A j \in Modules \ {k} : outcomes'[j] = outcomes[j]
  BY <1>1, <1>2, ResultFacts DEF FillSlot, Results
<1>5. SetIn(outcomes') = SetIn(outcomes) \cup {k} /\ k \notin SetIn(outcomes)
  BY <1>2, <1>4 DEF SetIn
<1> HIDE DEF k
<1>6. JobsAreHeld'
  <2>1. \A v \in Workers \ {w} : worker[v].at \in Busy => worker[v].job # k
    BY <1>2 DEF IInv, JobsAreHeld, Busy, k
  <2>2. \A j \in Modules : j >= next => j # k
    BY <1>1, <1>2 DEF TypeOK, Modules
  <2> QED BY <1>2, <1>3, <1>4, <2>1, <2>2 DEF IInv, JobsAreHeld, Busy
<1>7. StagesInOrder'
  BY <1>3 DEF IInv, StagesInOrder
<1>8. LiveIsComplete'
  BY <1>2, <1>3, <1>4, <1>5 DEF IInv, LiveIsComplete, SetIn
<1>9. NothingIsLost'
  BY <1>2, <1>3, <1>4 DEF IInv, NothingIsLost, Busy, k
<1>10. PartialIsFailure'
  <2>1. (\E j \in SetIn(outcomes') : ~Clean(outcomes'[j])) <=>
          (\E j \in SetIn(outcomes) : ~Clean(outcomes[j])) \/ ~Clean(worker[w].modRes)
    BY <1>4, <1>5 DEF SetIn
  <2>2. (\E v \in Workers : worker[v].at \in Busy /\ ~Clean(worker[v].modRes)) <=>
          \/ (\E v \in Workers : worker'[v].at \in Busy /\ ~Clean(worker'[v].modRes))
          \/ ~Clean(worker[w].modRes)
    BY <1>2, <1>3 DEF Busy
  <2> QED BY <1>2, <2>1, <2>2 DEF IInv, PartialIsFailure
<1>11. Within(outcomes, outcomes')
  BY <1>4, <1>5 DEF Within, SetIn
<1> QED BY <1>6, <1>7, <1>8, <1>9, <1>10, <1>11 DEF PoolInv

(* A worker finds the channel drained.                                     *)
LEMMA WorkerEndsKeeps ==
    ASSUME IInv, NEW w \in Workers, WorkerEnds(w)
    PROVE  PoolInv'
<1>1. /\ worker \in [Workers -> WorkerType] /\ next = NumModules + 1
      /\ worker[w].at = "idle" /\ worker[w].job = NoJob
      /\ UNCHANGED <<next, ctx, outcomes, partial, cancelled, refused>>
  <2>1. worker \in [Workers -> WorkerType] /\ next \in 1 .. NumModules + 1
    BY DEF IInv, TypeOK, WorkerType
  <2>2. /\ worker[w].at = "idle" /\ next \notin 1 .. NumModules
        /\ UNCHANGED <<next, ctx, outcomes, partial, cancelled, refused>>
    BY DEF WorkerEnds, Modules
  <2>3. worker[w].job = NoJob
    BY <2>2 DEF IInv, JobsAreHeld, Busy
  <2>4. next = NumModules + 1
    BY <2>1, <2>2, NumModulesAssumption
  <2> QED BY <2>1, <2>2, <2>3, <2>4
<1>2. /\ \A v \in Workers \ {w} : worker'[v] = worker[v]
      /\ worker'[w].at = "done" /\ worker'[w].job = NoJob
  BY <1>1 DEF WorkerEnds, WorkerType
<1>3. JobsAreHeld'
  BY <1>1, <1>2 DEF IInv, JobsAreHeld, Busy
<1>4. StagesInOrder' /\ LiveIsComplete' /\ NothingIsLost' /\ PartialIsFailure'
  BY <1>1, <1>2 DEF IInv, StagesInOrder, LiveIsComplete, NothingIsLost, PartialIsFailure, Busy
<1> QED BY <1>3, <1>4 DEF PoolInv

(* Slots are filled and never emptied or rewritten by a worker's step, and *)
(* the pool's part of the invariant is kept.                               *)
LEMMA WorkerKeepsPool ==
    ASSUME IInv, NEW w \in Workers, WorkerStep(w)
    PROVE  PoolInv' /\ Within(outcomes, outcomes')
<1>1. \/ TakeJob(w) \/ DropJob(w) \/ NextStage(w) \/ StageRefused(w)
      \/ \E status \in {"Succeeded", "Failed"} : StageEnds(w, status)
      \/ FillSlot(w) \/ WorkerEnds(w)
  BY DEF WorkerStep
<1>2. FillSlot(w) \/ UNCHANGED outcomes
  BY <1>1 DEF TakeJob, DropJob, NextStage, StageRefused, StageEnds, WorkerEnds
<1>3. PoolInv'
  BY <1>1, TakeJobKeeps, DropJobKeeps, NextStageKeeps, StageRefusedKeeps, StageEndsKeeps,
     FillSlotKeeps, WorkerEndsKeeps
<1>4. Within(outcomes, outcomes')
  BY <1>2, FillSlotKeeps DEF Within
<1> QED BY <1>3, <1>4

(* The other steps keep the pool's part: cancelling only weakens it.       *)
LEMMA OthersKeepPool ==
    ASSUME IInv, Others \/ UNCHANGED vars
    PROVE  PoolInv'
<1>1. UNCHANGED <<next, worker, outcomes, partial, cancelled, refused>>
  BY PoolFrame DEF pool, vars
<1>2. ctx' = "live" => ctx = "live"
  BY DEF Others, CallerStep, Reject, Execute, OpenCheckpoint, AwaitWorkers, Conclude, Persist,
         Emit, Tick, CheckpointWritten, TickerStops, Cancel, Kill, Over, vars
<1>3. JobsAreHeld' /\ StagesInOrder' /\ NothingIsLost' /\ PartialIsFailure'
  BY <1>1 DEF IInv, JobsAreHeld, StagesInOrder, NothingIsLost, PartialIsFailure
<1>4. LiveIsComplete'
  BY <1>1, <1>2 DEF IInv, LiveIsComplete
<1> QED BY <1>3, <1>4 DEF PoolInv

-----------------------------------------------------------------------------
(* The stored run.                                                         *)

RunInv == /\ Phases /\ RowIsPrefix /\ CountIsRows /\ OpenedFirst
          /\ RunIsOutcomes /\ Ending /\ VerdictMatchesModules

(* Saying more is transitive.                                              *)
LEMMA WithinTransitive ==
    ASSUME NEW a, NEW b, NEW c, Within(a, b), Within(b, c)
    PROVE  Within(a, c)
  BY DEF Within, SetIn

(* The absent row states nothing.                                          *)
LEMMA NoRecordFacts ==
    NoRecord.status = "None" /\ NoRecord.results = NoResults /\ ~Final(NoRecord)
  BY DEF NoRecord, Final

(* A worker's step.                                                        *)
LEMMA WorkerKeepsRun ==
    ASSUME IInv, NEW w \in Workers, WorkerStep(w)
    PROVE  RunInv'
<1>1. /\ pc = "working"
      /\ UNCHANGED <<pc, ctx, ticker, snapshot, lastWritten, run, events, ret, row, refusals>>
  BY WorkerFrame DEF checkpoints, ending
<1>2. Within(outcomes, outcomes')
  BY WorkerKeepsPool
<1>3. Phases' /\ CountIsRows' /\ RunIsOutcomes'
  BY <1>1 DEF IInv, Phases, CountIsRows, RunIsOutcomes
<1>4. RowIsPrefix'
  BY <1>1, <1>2, WithinTransitive DEF IInv, RowIsPrefix
<1>5. OpenedFirst'
  <2> SUFFICES ASSUME refusals = 0, row = NoRecord
               PROVE  ctx = "cancelled" /\ \A v \in Workers : worker'[v].at \notin Busy
    BY <1>1 DEF OpenedFirst
  <2>1. ctx = "cancelled" /\ \A v \in Workers : worker[v].at \notin Busy
    BY <1>1 DEF IInv, OpenedFirst
  <2>2. DropJob(w) \/ WorkerEnds(w)
    BY <2>1 DEF WorkerStep, TakeJob, NextStage, StageRefused, StageEnds, FillSlot, Busy
  <2>3. worker \in [Workers -> WorkerType]
    BY DEF IInv, TypeOK, WorkerType
  <2> QED BY <2>1, <2>2, <2>3 DEF DropJob, WorkerEnds, Busy, WorkerType
<1>6. Ending'
  <2>1. ~Final(row)
    BY <1>1 DEF IInv, Ending
  <2> QED BY <1>1, <2>1 DEF IInv, Ending, Final
<1>7. VerdictMatchesModules'
  BY <1>1 DEF IInv, VerdictMatchesModules
<1> QED BY <1>3, <1>4, <1>5, <1>6, <1>7 DEF RunInv

(* Execute's steps that write nothing.                                     *)
LEMMA ExecuteKeepsRun ==
    ASSUME IInv, Reject \/ Execute \/ AwaitWorkers
    PROVE  RunInv'
<1>1. UNCHANGED <<ctx, next, worker, outcomes, partial, cancelled, refused, ticker, snapshot,
                  lastWritten, run, events, row, refusals>>
  BY DEF Reject, Execute, AwaitWorkers, pool, checkpoints, ending
<1>2. CASE Reject
  <2>1. pc = "start" /\ pc' = "returned" /\ ret'.refused = refused /\ ret'.status = "None"
    BY <1>2 DEF Reject, Return
  <2>2. Phases' /\ RowIsPrefix' /\ CountIsRows' /\ OpenedFirst' /\ RunIsOutcomes'
    BY <1>1, <2>1 DEF IInv, Phases, RowIsPrefix, CountIsRows, OpenedFirst, RunIsOutcomes
  <2>3. Ending' /\ VerdictMatchesModules'
    BY <1>1, <2>1 DEF IInv, Ending, VerdictMatchesModules
  <2> QED BY <2>2, <2>3 DEF RunInv
<1>3. CASE Execute
  <2>1. pc = "start" /\ pc' = "open" /\ ret' = ret
    BY <1>3 DEF Execute, ending
  <2>2. Phases' /\ RowIsPrefix' /\ CountIsRows' /\ OpenedFirst' /\ RunIsOutcomes'
    BY <1>1, <2>1 DEF IInv, Phases, RowIsPrefix, CountIsRows, OpenedFirst, RunIsOutcomes
  <2>3. Ending' /\ VerdictMatchesModules'
    BY <1>1, <2>1 DEF IInv, Ending, VerdictMatchesModules
  <2> QED BY <2>2, <2>3 DEF RunInv
<1>4. CASE AwaitWorkers
  <2>1. pc = "working" /\ pc' = "stopping" /\ ret' = ret /\ \A w \in Workers : worker[w].at = "done"
    BY <1>4 DEF AwaitWorkers, ending
  <2>2. Phases' /\ RowIsPrefix' /\ CountIsRows' /\ OpenedFirst' /\ RunIsOutcomes'
    BY <1>1, <2>1 DEF IInv, Phases, RowIsPrefix, CountIsRows, OpenedFirst, RunIsOutcomes
  <2>3. Ending' /\ VerdictMatchesModules'
    BY <1>1, <2>1 DEF IInv, Ending, VerdictMatchesModules
  <2> QED BY <2>2, <2>3 DEF RunInv
<1> QED BY <1>2, <1>3, <1>4

(* The opening record, landed or not.                                      *)
LEMMA OpenKeepsRun ==
    ASSUME IInv, OpenCheckpoint
    PROVE  RunInv'
<1>1. /\ pc = "open" /\ pc' = "working" /\ ticker' = "waiting"
      /\ UNCHANGED <<ctx, next, worker, outcomes, partial, cancelled, refused, run, events, ret>>
  BY DEF OpenCheckpoint, pool, ending
<1>2. /\ outcomes = NoResults /\ lastWritten = -1 /\ row = NoRecord /\ refusals = 0
      /\ \A w \in Workers : worker[w].at = "idle"
  BY <1>1, IdleFacts DEF IInv, Phases
<1>3. \/ /\ row' = Checkpoint(outcomes) /\ lastWritten' = Cardinality(SetIn(outcomes))
      \/ /\ row' = row /\ lastWritten' = lastWritten
         /\ ctx = "cancelled" \/ refusals' # 0
  BY <1>2 DEF OpenCheckpoint, PutLands, PutFails
<1>4. outcomes \in Results /\ Cardinality(SetIn(outcomes)) \in 0 .. NumModules
  BY CountFacts DEF IInv, TypeOK
<1>5. /\ row'.results = NoResults /\ row'.status \in {"None", "InProgress"}
      /\ row' = NoRecord => row' = row /\ lastWritten' = lastWritten
  BY <1>2, <1>3, <1>4, CheckpointFacts, NoRecordFacts
<1>6. SetIn(row'.results) = {}
  BY <1>5, ResultFacts
<1>7. Phases' /\ RunIsOutcomes'
  BY <1>1 DEF IInv, Phases, RunIsOutcomes
<1>8. RowIsPrefix'
  BY <1>1, <1>6 DEF RowIsPrefix, Within
<1>9. CountIsRows'
  BY <1>2, <1>3, <1>4, <1>5, CheckpointFacts DEF CountIsRows
<1>10. OpenedFirst'
  BY <1>1, <1>2, <1>3, <1>4, CheckpointFacts DEF OpenedFirst, Busy
<1>11. Ending' /\ VerdictMatchesModules'
  BY <1>1, <1>5 DEF IInv, Ending, VerdictMatchesModules, Final
<1> QED BY <1>7, <1>8, <1>9, <1>10, <1>11 DEF RunInv

(* The verdict is put together once every worker and the goroutine ended.  *)
LEMMA ConcludeKeepsRun ==
    ASSUME IInv, Conclude
    PROVE  RunInv'
<1>1. /\ pc = "stopping" /\ pc' = "sealing" /\ ticker = "stopped"
      /\ run'.status = OverallStatus /\ run'.results = outcomes
      /\ UNCHANGED <<ctx, next, worker, outcomes, partial, cancelled, refused, ticker, snapshot,
                     lastWritten, events, ret, row, refusals>>
  BY DEF Conclude, collectResults, pool, checkpoints
<1>2. \A w \in Workers : worker[w].at = "done"
  BY <1>1 DEF IInv, Phases
<1>3. ~cancelled => SetIn(outcomes) = Modules
  <2>1. next = NumModules + 1
    BY <1>2, WorkersAssumption DEF IInv, JobsAreHeld
  <2>2. \A k \in Modules : k < next
    BY <2>1, NumModulesAssumption DEF Modules
  <2> QED BY <1>2, <2>2 DEF IInv, NothingIsLost, Busy, SetIn
<1>4. partial \in BOOLEAN
  BY DEF IInv, TypeOK
<1>5. /\ OverallStatus \in {"Cancelled", "Partial", "Succeeded"}
      /\ OverallStatus \in {"Succeeded", "Partial"} =>
           ~cancelled /\ ((OverallStatus = "Succeeded") <=> ~partial)
  BY <1>4 DEF OverallStatus
<1>6. RunIsOutcomes'
  BY <1>1, <1>3, <1>5 DEF IInv, RunIsOutcomes, CountIsRows, Final
<1>7. Phases' /\ RowIsPrefix' /\ CountIsRows' /\ OpenedFirst'
  BY <1>1, <1>2 DEF IInv, Phases, RowIsPrefix, CountIsRows, OpenedFirst
<1>8. Ending' /\ VerdictMatchesModules'
  BY <1>1 DEF IInv, Ending, VerdictMatchesModules, Final
<1> QED BY <1>6, <1>7, <1>8 DEF RunInv

(* The seal, landed or not.                                                *)
LEMMA PersistKeepsRun ==
    ASSUME IInv, Persist
    PROVE  RunInv'
<1>1. /\ pc = "sealing" /\ ticker = "stopped"
      /\ UNCHANGED <<ctx, next, worker, outcomes, partial, cancelled, refused, ticker, snapshot,
                     lastWritten, run, events>>
  BY DEF Persist, pool, checkpoints, IInv, Phases
<1>2. /\ \A w \in Workers : worker[w].at = "done"
      /\ Final(run) /\ run.results = outcomes
      /\ run.status \in {"Succeeded", "Partial"} =>
           SetIn(outcomes) = Modules /\ ((run.status = "Succeeded") <=> ~partial)
      /\ events = <<>>
  BY <1>1 DEF IInv, Phases, RunIsOutcomes, Ending
<1>3. CASE PutLands(run) /\ pc' = "emitting" /\ UNCHANGED ret
  <2>1. ctx = "live" /\ row' = run /\ pc' = "emitting" /\ refusals' = refusals
    BY <1>3 DEF PutLands
  <2>2. row' # NoRecord
    BY <1>2, <2>1, NoRecordFacts
  <2>3. partial <=> \E k \in SetIn(outcomes) : ~Clean(outcomes[k])
    BY <1>2 DEF IInv, PartialIsFailure, Busy
  <2>4. Phases'
    BY <1>1, <1>2, <2>1 DEF Phases
  <2>5. RowIsPrefix'
    <3>1. \A k \in SetIn(outcomes) : Complete(outcomes[k])
      BY <2>1 DEF IInv, LiveIsComplete
    <3> QED BY <1>1, <1>2, <2>1, <3>1 DEF RowIsPrefix, Within
  <2>6. CountIsRows' /\ OpenedFirst'
    BY <2>1, <2>2 DEF CountIsRows, OpenedFirst
  <2>7. RunIsOutcomes'
    BY <1>1, <1>2, <2>1 DEF RunIsOutcomes
  <2>8. Ending'
    BY <1>1, <1>2, <2>1 DEF IInv, Ending, PartialIsFailure
  <2>9. VerdictMatchesModules'
    BY <1>1, <1>2, <2>1, <2>3 DEF VerdictMatchesModules
  <2> QED BY <2>4, <2>5, <2>6, <2>7, <2>8, <2>9 DEF RunInv
<1>4. CASE PutFails /\ Return("persisting", "None")
  <2>1. /\ row' = row /\ pc' = "returned" /\ ret'.refused = refused /\ ret'.status = "None"
    BY <1>4 DEF PutFails, Return
  <2>2. refusals' = 0 => refusals = 0
    BY <1>4 DEF PutFails, IInv, TypeOK
  <2>3. Phases' /\ RowIsPrefix' /\ CountIsRows' /\ RunIsOutcomes'
    BY <1>1, <2>1 DEF IInv, Phases, RowIsPrefix, CountIsRows, RunIsOutcomes
  <2>4. OpenedFirst'
    BY <1>1, <1>2, <2>1 DEF OpenedFirst, Busy
  <2>5. Ending' /\ VerdictMatchesModules'
    BY <1>1, <1>2, <2>1 DEF IInv, Ending, VerdictMatchesModules
  <2> QED BY <2>3, <2>4, <2>5 DEF RunInv
<1> QED BY <1>3, <1>4 DEF Persist

(* The event, appended or not.                                             *)
LEMMA EmitKeepsRun ==
    ASSUME IInv, Emit
    PROVE  RunInv'
<1>1. /\ pc = "emitting" /\ pc' = "returned" /\ ret'.refused = refused
      /\ ret'.status \in {"None", run.status}
      /\ events' = Append(events, run) \/ events' = events
      /\ UNCHANGED <<ctx, next, worker, outcomes, partial, cancelled, refused, ticker, snapshot,
                     lastWritten, run, row, refusals>>
  BY DEF Emit, Return, pool, checkpoints
<1>2. row = run /\ events = <<>>
  BY <1>1 DEF IInv, RunIsOutcomes, Ending
<1>3. events' = <<>> \/ events' = <<row>>
  BY <1>1, <1>2
<1>4. Phases' /\ RowIsPrefix' /\ CountIsRows' /\ RunIsOutcomes' /\ OpenedFirst'
  BY <1>1 DEF IInv, Phases, RowIsPrefix, CountIsRows, RunIsOutcomes, OpenedFirst
<1>5. Ending' /\ VerdictMatchesModules'
  BY <1>1, <1>2, <1>3 DEF IInv, Ending, VerdictMatchesModules
<1> QED BY <1>4, <1>5 DEF RunInv

(* The checkpoint goroutine arms a write, stops, and the context ends.     *)
LEMMA TickKeepsRun ==
    ASSUME IInv, Tick \/ TickerStops \/ Cancel \/ Kill \/ Over \/ UNCHANGED vars
    PROVE  RunInv'
<1>1. CASE Tick
  <2>1. /\ pc \in {"working", "stopping"} /\ ticker' = "writing" /\ snapshot' = Checkpoint(outcomes)
        /\ UNCHANGED <<pc, ctx, next, worker, outcomes, partial, cancelled, refused, lastWritten,
                       run, events, ret, row, refusals>>
    BY <1>1 DEF Tick, pool, ending
  <2>2. snapshot'.status = "InProgress" /\ snapshot'.results = outcomes
    BY <2>1, CheckpointFacts DEF IInv, TypeOK
  <2>3. RowIsPrefix'
    BY <2>1, <2>2 DEF IInv, RowIsPrefix, Within
  <2>4. Phases' /\ CountIsRows' /\ RunIsOutcomes' /\ OpenedFirst' /\ Ending' /\ VerdictMatchesModules'
    BY <2>1 DEF IInv, Phases, CountIsRows, RunIsOutcomes, OpenedFirst, Ending, VerdictMatchesModules
  <2> QED BY <2>3, <2>4 DEF RunInv
<1>2. CASE TickerStops
  <2>1. /\ pc \in {"working", "stopping"} /\ ticker' = "stopped"
        /\ UNCHANGED <<pc, ctx, next, worker, outcomes, partial, cancelled, refused, snapshot,
                       lastWritten, run, events, ret, row, refusals>>
    BY <1>2 DEF TickerStops, pool, ending
  <2>2. Phases' /\ CountIsRows' /\ RunIsOutcomes' /\ OpenedFirst' /\ Ending' /\ VerdictMatchesModules'
    BY <2>1 DEF IInv, Phases, CountIsRows, RunIsOutcomes, OpenedFirst, Ending, VerdictMatchesModules
  <2>3. RowIsPrefix'
    BY <2>1 DEF IInv, RowIsPrefix
  <2> QED BY <2>2, <2>3 DEF RunInv
<1>3. CASE Cancel
  <2>1. /\ ctx' = "cancelled"
        /\ UNCHANGED <<pc, next, worker, outcomes, partial, cancelled, refused, ticker, snapshot,
                       lastWritten, run, events, ret, row, refusals>>
    BY <1>3 DEF Cancel, pool, checkpoints, ending
  <2>2. Phases' /\ CountIsRows' /\ RunIsOutcomes' /\ OpenedFirst' /\ Ending' /\ VerdictMatchesModules'
    BY <2>1 DEF IInv, Phases, CountIsRows, RunIsOutcomes, OpenedFirst, Ending, VerdictMatchesModules
  <2>3. RowIsPrefix'
    BY <2>1 DEF IInv, RowIsPrefix
  <2> QED BY <2>2, <2>3 DEF RunInv
<1>4. CASE Kill
  <2>1. /\ pc \notin {"returned", "killed"} /\ pc' = "killed"
        /\ UNCHANGED <<ctx, next, worker, outcomes, partial, cancelled, refused, ticker, snapshot,
                       lastWritten, run, events, ret, row, refusals>>
    BY <1>4 DEF Kill, Alive, pool, checkpoints, ending
  <2>2. Phases' /\ CountIsRows' /\ RunIsOutcomes' /\ OpenedFirst' /\ Ending' /\ VerdictMatchesModules'
    BY <2>1 DEF IInv, Phases, CountIsRows, RunIsOutcomes, OpenedFirst, Ending, VerdictMatchesModules
  <2>3. RowIsPrefix'
    BY <2>1 DEF IInv, RowIsPrefix
  <2> QED BY <2>2, <2>3 DEF RunInv
<1>5. CASE UNCHANGED vars
  BY <1>5 DEF IInv, RunInv, Phases, CountIsRows, RunIsOutcomes, OpenedFirst, Ending, RowIsPrefix,
          VerdictMatchesModules, vars
<1> QED BY <1>1, <1>2, <1>3, <1>4, <1>5 DEF Over

(* The upsert of a checkpoint, landed or not.                              *)
LEMMA CheckpointKeepsRun ==
    ASSUME IInv, CheckpointWritten
    PROVE  RunInv'
<1>1. /\ ticker = "writing" /\ ticker' = "waiting" /\ pc \notin {"returned", "killed"}
      /\ UNCHANGED <<pc, ctx, next, worker, outcomes, partial, cancelled, refused, run, events, ret>>
  BY DEF CheckpointWritten, Alive, pool, ending
<1>2. pc \in {"working", "stopping"}
  BY <1>1 DEF IInv, TypeOK, Phases
<1>3. /\ snapshot.status = "InProgress" /\ Within(row.results, snapshot.results)
      /\ Within(snapshot.results, outcomes)
  BY <1>1 DEF IInv, RowIsPrefix
<1>4. Phases' /\ RunIsOutcomes'
  BY <1>1, <1>2 DEF IInv, Phases, RunIsOutcomes
<1>5. CASE PutLands(snapshot) /\ lastWritten' = Cardinality(SetIn(snapshot.results))
  <2>1. ctx = "live" /\ row' = snapshot /\ lastWritten' = Cardinality(SetIn(snapshot.results))
    BY <1>5 DEF PutLands
  <2>2. snapshot.results \in Results
    BY ResultFacts DEF IInv, TypeOK, Record, NoRecord
  <2>3. lastWritten' \in Nat
    BY <2>1, <2>2, CountFacts
  <2>4. row' # NoRecord
    BY <1>3, <2>1, NoRecordFacts
  <2>5. RowIsPrefix'
    <3>1. \A k \in SetIn(snapshot.results) : Complete(snapshot.results[k])
      BY <1>3, <2>1 DEF IInv, LiveIsComplete, Within, SetIn
    <3> QED BY <1>1, <1>3, <2>1, <3>1 DEF RowIsPrefix
  <2>6. CountIsRows' /\ OpenedFirst'
    BY <1>3, <2>1, <2>3, <2>4 DEF CountIsRows, OpenedFirst
  <2>7. Ending' /\ VerdictMatchesModules'
    BY <1>1, <1>2, <1>3, <2>1 DEF IInv, Ending, VerdictMatchesModules, Final
  <2> QED BY <1>4, <2>5, <2>6, <2>7 DEF RunInv
<1>6. CASE PutFails /\ UNCHANGED lastWritten
  <2>1. row' = row /\ lastWritten' = lastWritten
    BY <1>6 DEF PutFails
  <2>2. refusals' = 0 => refusals = 0
    BY <1>6 DEF PutFails, IInv, TypeOK
  <2>3. RowIsPrefix' /\ CountIsRows' /\ OpenedFirst'
    BY <1>1, <2>1, <2>2 DEF IInv, RowIsPrefix, CountIsRows, OpenedFirst
  <2>4. Ending' /\ VerdictMatchesModules'
    BY <1>1, <2>1 DEF IInv, Ending, VerdictMatchesModules
  <2> QED BY <1>4, <2>3, <2>4 DEF RunInv
<1> QED BY <1>5, <1>6 DEF CheckpointWritten

-----------------------------------------------------------------------------
(* The invariant.                                                          *)

(* It holds at the start.                                                  *)
LEMMA IInvInit == Init => IInv
<1> SUFFICES ASSUME Init PROVE IInv
  OBVIOUS
<1>1. /\ \A w \in Workers : worker[w] = Idle /\ worker[w].at = "idle" /\ worker[w].job = NoJob
      /\ pc = "start" /\ ctx = "live" /\ next = 1 /\ outcomes = NoResults
      /\ ~partial /\ ~cancelled /\ ~refused /\ ticker = "off" /\ lastWritten = -1
      /\ row = NoRecord /\ events = <<>> /\ refusals = 0
  BY IdleFacts DEF Init
<1>2. \A k \in Modules : outcomes[k] = Unset /\ ~(k < next)
  BY <1>1 DEF NoResults, Modules
<1>3. SetIn(outcomes) = {} /\ SetIn(row.results) = {}
  BY <1>1, ResultFacts, NoRecordFacts
<1>4. JobsAreHeld /\ StagesInOrder /\ LiveIsComplete /\ NothingIsLost /\ PartialIsFailure
  BY <1>1, <1>2, <1>3
     DEF JobsAreHeld, StagesInOrder, LiveIsComplete, NothingIsLost, PartialIsFailure, Busy
<1>5. Phases /\ RowIsPrefix /\ CountIsRows /\ OpenedFirst /\ RunIsOutcomes /\ Ending
      /\ VerdictMatchesModules
  BY <1>1, <1>3, NoRecordFacts DEF Phases, RowIsPrefix, CountIsRows, OpenedFirst, RunIsOutcomes,
     Ending, VerdictMatchesModules, Within, Busy
<1> QED BY <1>4, <1>5, TypeInit DEF IInv

(* Every step keeps it.                                                    *)
LEMMA IInvStep == IInv /\ [Next]_vars => IInv'
<1> SUFFICES ASSUME IInv, [Next]_vars PROVE IInv'
  OBVIOUS
<1>1. (\E w \in Workers : WorkerStep(w)) \/ Others \/ UNCHANGED vars
  BY Steps
<1>2. TypeOK'
  <2>1. CASE UNCHANGED vars
    BY <2>1 DEF IInv, TypeOK, vars
  <2> QED BY <1>1, <2>1, WorkerTypes, OtherTypes
<1>3. PoolInv'
  BY <1>1, WorkerKeepsPool, OthersKeepPool
<1>4. RunInv'
  <2>1. CASE Others
    BY <2>1, ExecuteKeepsRun, OpenKeepsRun, ConcludeKeepsRun, PersistKeepsRun, EmitKeepsRun,
       TickKeepsRun, CheckpointKeepsRun DEF Others, CallerStep
  <2> QED BY <1>1, <2>1, WorkerKeepsRun, TickKeepsRun
<1> QED BY <1>2, <1>3, <1>4 DEF IInv, PoolInv, RunInv

(* The invariant holds in every run.                                       *)
THEOREM Invariance == Spec => []IInv
  BY IInvInit, IInvStep, PTL DEF Spec

-----------------------------------------------------------------------------
(* The properties.                                                         *)

(* At every instant the process may die, the stored run can be believed:   *)
(* its modules are complete, its verdict is theirs, a skipped checkpoint   *)
(* had nothing to say, and the log does not run ahead of the store.        *)
THEOREM HonestRun == Spec => []StoredRunIsHonest
<1>1. IInv => StoredRunIsHonest
  <2> SUFFICES ASSUME IInv PROVE StoredRunIsHonest
    OBVIOUS
  <2>1. StoredModulesAreComplete
    BY DEF IInv, RowIsPrefix, Within, StoredModulesAreComplete
  <2>2. SkippedCheckpointSaysNothingNew
    <3> SUFFICES ASSUME pc = "working", Cardinality(SetIn(outcomes)) = lastWritten
                 PROVE  row.results = outcomes
      BY DEF SkippedCheckpointSaysNothingNew
    <3>1. outcomes \in Results /\ row.results \in Results
      BY ResultFacts DEF IInv, TypeOK, Record, NoRecord
    <3>2. IsFiniteSet(SetIn(outcomes)) /\ lastWritten # -1
      BY <3>1, CountFacts
    <3>3. Cardinality(SetIn(row.results)) = Cardinality(SetIn(outcomes))
      BY <3>2 DEF IInv, CountIsRows
    <3>4. SetIn(row.results) \in SUBSET SetIn(outcomes)
      BY DEF IInv, RowIsPrefix, Within, SetIn
    <3>5. SetIn(row.results) = SetIn(outcomes)
      BY <3>2, <3>3, <3>4, FS_Subset
    <3>6. \A k \in Modules : row.results[k] = outcomes[k]
      BY <3>5 DEF IInv, RowIsPrefix, Within, SetIn
    <3> QED BY <3>1, <3>6 DEF Results
  <2>3. RunStoredBeforeWork
    BY DEF IInv, OpenedFirst, JobsAreHeld, RunStoredBeforeWork
  <2>4. LoggedRunIsStored
    <3>1. events = <<>> \/ events = <<row>>
      BY DEF IInv, Ending
    <3>2. CASE events = <<>>
      BY <3>2 DEF LoggedRunIsStored
    <3>3. CASE events = <<row>>
      BY <3>3 DEF LoggedRunIsStored
    <3> QED BY <3>1, <3>2, <3>3
  <2> QED BY <2>1, <2>2, <2>3, <2>4 DEF IInv, StoredRunIsHonest
<1> QED BY <1>1, Invariance, PTL

(* A stored artefact refused as altered is never passed over.              *)
THEOREM RefusalReported == Spec => []RefusalIsReported
<1>1. IInv => RefusalIsReported
  BY DEF IInv, Ending, RefusalIsReported
<1> QED BY <1>1, Invariance, PTL

(* No write takes back what an earlier one stated, and none follows the    *)
(* seal: the checkpoint goroutine and sealAndPersist do not race.          *)
THEOREM RowNeverUndone == Spec => RowIsNeverUndone
<1>1. IInv /\ [Next]_vars => [Final(row) => row' = row]_vars
  <2> SUFFICES ASSUME IInv, Next, Final(row) PROVE row' = row
    BY DEF vars
  <2>1. pc \in {"emitting", "returned", "killed"}
    BY DEF IInv, Ending
  <2>2. ticker # "writing" \/ ~Alive
    BY <2>1 DEF IInv, Phases, Alive
  <2>3. CASE \E w \in Workers : WorkerStep(w)
    BY <2>1, <2>3, WorkerFrame
  <2>4. CASE Others
    BY <2>1, <2>2, <2>4 DEF Others, CallerStep, Reject, Execute, OpenCheckpoint, AwaitWorkers,
       Conclude, Persist, Emit, Tick, CheckpointWritten, TickerStops, Cancel, Kill, Over, vars
  <2> QED BY <2>3, <2>4 DEF Next, Others
<1>2. IInv /\ [Next]_vars =>
        [\A m \in SetIn(row.results) : row'.results[m] = row.results[m]]_vars
  <2> SUFFICES ASSUME IInv, Next
               PROVE  Within(row.results, row'.results)
    BY DEF Within, vars
  <2>1. Within(row.results, row.results)
    BY DEF Within
  <2>2. CASE \E w \in Workers : WorkerStep(w)
    BY <2>1, <2>2, WorkerFrame
  <2>3. CASE OpenCheckpoint
    <3>1. row = NoRecord
      BY <2>3 DEF OpenCheckpoint, IInv, Phases
    <3> QED BY <3>1, NoRecordFacts, ResultFacts DEF Within
  <2>4. CASE Persist
    <3>1. row' = run \/ row' = row
      BY <2>4 DEF Persist, PutLands, PutFails
    <3> QED BY <2>1, <2>4, <3>1 DEF Persist, IInv, RunIsOutcomes, RowIsPrefix
  <2>5. CASE CheckpointWritten
    <3>1. row' = snapshot \/ row' = row
      BY <2>5 DEF CheckpointWritten, PutLands, PutFails
    <3> QED BY <2>1, <2>5, <3>1 DEF CheckpointWritten, IInv, RowIsPrefix
  <2>6. CASE Others /\ ~OpenCheckpoint /\ ~Persist /\ ~CheckpointWritten
    <3>1. row' = row
      BY <2>6 DEF Others, CallerStep, Reject, Execute, AwaitWorkers, Conclude, Emit, Tick,
         TickerStops, Cancel, Kill, Over, vars
    <3> QED BY <2>1, <3>1
  <2> QED BY <2>2, <2>3, <2>4, <2>5, <2>6 DEF Next, Others
<1>3. Spec => SealedRowIsFinal
  BY <1>1, Invariance, PTL DEF Spec, SealedRowIsFinal
<1>4. Spec => RowOnlyGrows
  BY <1>2, Invariance, PTL DEF Spec, RowOnlyGrows
<1> QED BY <1>3, <1>4 DEF RowIsNeverUndone
=============================================================================
