---------------------------- MODULE BoundedChild ----------------------------
(***************************************************************************)
(* The call-graph subprocess behind the admission gate: RunBounded         *)
(* (internal/adapters/childproc) starts it, a watcher kills it when it     *)
(* falls silent, a deadline kills it when it goes on for too long, the     *)
(* caller's cancellation kills it as well, and whatever ended it is read   *)
(* off flags that keep moving after it has ended.  The gate is             *)
(* CallgraphGate, whose Finish is the return of this call: that analyses   *)
(* end is assumed there and follows here.                                  *)
(***************************************************************************)
EXTENDS CallgraphGate

CONSTANT Watched    \* the workers whose subprocess is followed step by step
ASSUME WatchedAssumption == Watched \subseteq Workers

VARIABLE child    \* per watched worker: the RunBounded call in progress

allVars == <<vars, child>>

(* How a process ends: on its own, or by the SIGKILL of killGroup.  After  *)
(* "clean" and "partial" it has stored its record ("partial" stands for    *)
(* every other exit code that says so); "os" is a kill from outside.       *)
OwnEnds == {"clean", "partial", "fault", "os"}
Ends == OwnEnds \cup {"killed"}

(* What a child that failed may have left on stderr for its parent: the    *)
(* markers of the store lock, of its memory ceiling, of an altered         *)
(* artefact, or none of them.                                              *)
Markers == {"contended", "ceiling", "tampered", "none"}

(* watch: the stall detector has seen nothing yet, has set its flag, or    *)
(* has called kill as well.  late: the deadline of runCtx passed.          *)
(* reached: killGroup's signal was delivered.  stage: what the extraction  *)
(* is told.                                                                *)
NoChild == [proc |-> "none", end |-> "none", watch |-> "watching", late |-> FALSE,
            reached |-> FALSE, stage |-> "none"]

ChildInit == Init /\ child = [w \in Watched |-> NoChild]

-----------------------------------------------------------------------------
(* The gate's own steps.  Memory grows while the process lives; the call   *)
(* of a worker that is not watched ends as the gate has it end.            *)
GateStep(w) == (Proceed(w) \/ AbandonPoll(w)) /\ UNCHANGED child
GrowStep(w) == Grow(w) /\ (w \in Watched => child[w].proc = "alive") /\ UNCHANGED child
FinishStep(w) == w \notin Watched /\ Finish(w) /\ UNCHANGED child

(* cmd.Start refuses a context that is already done, and may fail anyway.  *)
Start(w) ==
    /\ at[w] = "running" /\ child[w].proc = "none"
    /\ \/ ctx = "live" /\ child' = [child EXCEPT ![w].proc = "alive"]
       \/ child' = [child EXCEPT ![w].proc = "waited", ![w].end = "fault"]
    /\ UNCHANGED vars

(* The process ends by itself; its parent has yet to wait for it.          *)
Exit(w) ==
    /\ child[w].proc = "alive"
    /\ \E e \in OwnEnds : child' = [child EXCEPT ![w].proc = "ended", ![w].end = e]
    /\ UNCHANGED vars

(* stopWhenSilent: a tick that finds the stall window past sets killed     *)
(* under the lock, and calls kill after it.  done stops the watcher only   *)
(* once Run has returned.                                                  *)
SeeSilence(w) ==
    /\ child[w].proc \in {"alive", "ended", "waited"} /\ child[w].watch = "watching"
    /\ child' = [child EXCEPT ![w].watch = "decided"]
    /\ UNCHANGED vars

KillSilent(w) ==
    /\ child[w].watch = "decided"
    /\ child' = [child EXCEPT ![w].watch = "fired"]
    /\ UNCHANGED vars

(* The deadline of runCtx, which a cancelled parent context forestalls.    *)
PassCeiling(w) ==
    /\ child[w].proc \in {"alive", "ended", "waited"} /\ ~child[w].late
    /\ ctx = "live"
    /\ child' = [child EXCEPT ![w].late = TRUE]
    /\ UNCHANGED vars

childCtxDone(w) == child[w].watch = "fired" \/ child[w].late \/ ctx = "cancelled"

(* exec's watcher calls Cancel once childCtx is done.  The signal ends a   *)
(* living process; one that has exited and is not yet waited for takes it  *)
(* without effect, and exec cannot tell the two apart.                     *)
killGroup(w) ==
    /\ childCtxDone(w) /\ ~child[w].reached
    /\ \/ /\ child[w].proc = "alive"
          /\ child' = [child EXCEPT ![w].reached = TRUE, ![w].proc = "ended", ![w].end = "killed"]
       \/ child[w].proc = "ended" /\ child' = [child EXCEPT ![w].reached = TRUE]
    /\ UNCHANGED vars

Wait(w) ==
    /\ child[w].proc = "ended"
    /\ child' = [child EXCEPT ![w].proc = "waited"]
    /\ UNCHANGED vars

(* cmd.Run: an error unless the exit was clean and no signal got through.  *)
runFailed(w) == child[w].end # "clean" \/ child[w].reached

(* Mutant: the caller's cancellation is not put on the error.              *)
RunBounded_NoCancelledChild(w) ==
    IF ~runFailed(w) THEN "nil"
    ELSE IF child[w].watch # "watching" THEN "ErrStalled"
    ELSE IF child[w].late /\ ctx = "live" THEN "ErrCeiling"
    ELSE "raw"

(* The error RunBounded returns, read after cmd.Run came back.             *)
RunBounded(w) ==
    IF ~runFailed(w) THEN "nil"
    ELSE IF child[w].watch # "watching" THEN "ErrStalled"
    ELSE IF child[w].late /\ ctx = "live" THEN "ErrCeiling"
    ELSE IF ctx = "cancelled" THEN "cancelledChild"
    ELSE "raw"

(* buildSubprocessErrorDetail: the first that applies of what the child    *)
(* wrote, what RunBounded says and how the process ended.                  *)
errorDetail(w, marker) ==
    IF marker = "contended" THEN "not stored"
    ELSE CASE RunBounded(w) = "ErrStalled" -> "no progress"
           [] RunBounded(w) = "ErrCeiling" -> "too long"
           [] RunBounded(w) = "cancelledChild" -> "cancelled"
           [] OTHER -> IF marker = "ceiling" THEN "memory ceiling"
                       ELSE IF child[w].end \in {"os", "killed"} THEN "ended by the system"
                       ELSE "failed"

(* extractCallgraphSubprocess: a refused artefact stops the run; a clean   *)
(* or a partial exit is answered from the record the child stored.         *)
Classify(w) ==
    /\ child[w].proc = "waited"
    /\ \E marker \in Markers :
        /\ marker # "none" => child[w].end = "fault"
        /\ marker = "ceiling" => ceiling # 0
        /\ child' = [child EXCEPT ![w] = [NoChild EXCEPT
              !.proc = "returned", !.end = child[w].end, !.reached = child[w].reached,
              !.stage = IF marker = "tampered" THEN "refused"
                        ELSE IF RunBounded(w) = "nil" \/ child[w].end = "partial" THEN "record"
                        ELSE errorDetail(w, marker)]]
    /\ UNCHANGED vars

Return(w) ==
    /\ child[w].proc = "returned"
    /\ Finish(w)
    /\ child' = [child EXCEPT ![w] = NoChild]

(* What happens to a running analysis if nothing else does.                *)
Supervise(w) ==
    \/ Start(w) \/ KillSilent(w) \/ PassCeiling(w) \/ killGroup(w)
    \/ Wait(w) \/ Classify(w) \/ Return(w)

ChildNext ==
    \/ \E w \in Workers : GateStep(w) \/ GrowStep(w) \/ FinishStep(w)
    \/ \E w \in Watched : Supervise(w) \/ Exit(w) \/ SeeSilence(w)
    \/ Cancel /\ UNCHANGED child
    \/ Over /\ UNCHANGED child

(* Goroutines are scheduled and timers fire.  Nothing obliges a watched    *)
(* child to end by itself, to report progress, or to fall silent.          *)
ChildSpec ==
    /\ ChildInit /\ [][ChildNext]_allVars
    /\ \A w \in Workers : WF_allVars(Proceed(w) /\ UNCHANGED child) /\ WF_allVars(FinishStep(w))
    /\ \A w \in Watched : WF_allVars(Supervise(w))

-----------------------------------------------------------------------------
ChildType ==
    [proc : {"none", "alive", "ended", "waited", "returned"}, end : Ends \cup {"none"},
     watch : {"watching", "decided", "fired"}, late : BOOLEAN, reached : BOOLEAN,
     stage : {"none", "record", "refused", "not stored", "no progress", "too long",
              "cancelled", "memory ceiling", "ended by the system", "failed"}]

(* What is told of a call that has returned is so.                         *)
ToldTruly(c) ==
    /\ c.stage = "ended by the system" => c.end = "os"
    /\ c.end \in {"clean", "partial"} /\ ~c.reached => c.stage = "record"
    /\ c.stage = "record" => c.end \in {"clean", "partial"}

(* What the extraction is told of a subprocess is what became of it,       *)
(* though its own exit, the stall detector, the deadline and the caller    *)
(* race: an end this program brought about is never blamed on the host's   *)
(* memory, an analysis that finished before any signal reached it is never *)
(* reported lost, and a record is read only where a child stored one.      *)
EndIsTrue ==
    /\ child \in [Watched -> ChildType]
    /\ \A w \in Watched : child[w].proc = "returned" => ToldTruly(child[w])
=============================================================================
