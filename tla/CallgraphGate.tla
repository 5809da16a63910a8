--------------------------- MODULE CallgraphGate ---------------------------
(***************************************************************************)
(* Admission of call-graph subprocesses                                    *)
(* (internal/extract/adapters/extractor/local: concurrency.go, local.go).  *)
(* The bound on concurrent analyses and the memory ceiling of each are     *)
(* sized once, from one reading of the host; each analysis then takes a    *)
(* slot of a semaphore and waits for headroom, re-reading the host, except *)
(* that the first one always starts.                                       *)
(*                                                                         *)
(* Memory is counted in small units.  An analysis starts with nothing and  *)
(* grows, up to the ceiling it enforces on itself; the rest of the host is *)
(* taken to be still.                                                      *)
(***************************************************************************)
EXTENDS Integers, FiniteSets, FiniteSetsExt

CONSTANTS Workers,     \* goroutines of the extraction pool
          Budget,      \* CallgraphBudgetBytes
          CPUCap,      \* min(runtime.NumCPU(), CallgraphCPUCap)
          Hosts,       \* what the first reading may report as available
          Requests,    \* --callgraph-workers values; 0: not given
          MaxAnalyses, \* bound: call-graph stages of the run
          MaxHeld      \* bound: what an analysis with no ceiling may grow to

ASSUME WorkersAssumption == IsFiniteSet(Workers) /\ Workers # {}
ASSUME SizesAssumption ==
    /\ Budget \in Nat \ {0} /\ CPUCap \in Nat \ {0}
    /\ Hosts \subseteq Nat /\ Requests \subseteq Nat
    /\ MaxAnalyses \in Nat /\ MaxHeld \in Nat

VARIABLES meter,     \* the host-memory reporter: none, failing or reliable
          requested, \* the operator's bound
          available, \* what the host could hand out when the run started
          slots,     \* cap(cgSem)
          ceiling,   \* CeilingBytes; 0: none
          sem,       \* len(cgSem)
          running,   \* cgRunning
          at,        \* where each worker is
          reading,   \* the reading a worker took last
          held,      \* what each worker's analysis holds
          left,      \* call-graph stages nobody has taken yet
          ctx        \* the context: live or cancelled

vars == <<meter, requested, available, slots, ceiling, sem, running, at,
          reading, held, left, ctx>>
sizing == <<meter, requested, available, slots, ceiling>>

Unreadable == -1

(* Where a worker holds a slot, and where its analysis is counted.         *)
HasSlot == {"claim", "read", "decide", "poll", "running", "ending"}
Holders == {w \in Workers : at[w] \in HasSlot}
Running == {w \in Workers : at[w] = "running"}

InUse == MapThenSumSet(LAMBDA w : held[w], Workers)
AvailableBytes == IF InUse \in 0 .. available THEN available - InUse ELSE 0

-----------------------------------------------------------------------------
(* Sizing.                                                                 *)

MinOf(a, b) == IF a < b THEN a ELSE b
MaxOf(a, b) == IF a > b THEN a ELSE b

(* Mutant: a host short of one budget is given no slot at all.             *)
BoundWorkers_NoFloor(req, known, avail) ==
    IF req > 0 THEN req
    ELSE IF known THEN MinOf(avail \div Budget, CPUCap)
    ELSE CPUCap

(* ResolveCallgraphBound: the operator's count, or the CPU cap lowered to  *)
(* the number of budgets the host can fund, and never below one.           *)
BoundWorkers(req, known, avail) ==
    IF req > 0 THEN req
    ELSE IF known THEN MaxOf(1, MinOf(avail \div Budget, CPUCap))
    ELSE CPUCap

(* Mutant: the share is taken of everything, nothing is held back.         *)
deriveCeiling_NoReserve(avail, known, workers) ==
    IF ~known \/ workers < 1 THEN 0
    ELSE IF avail <= Budget THEN Budget
    ELSE MaxOf(Budget, avail \div workers)

deriveCeiling(avail, known, workers) ==
    IF ~known \/ workers < 1 THEN 0
    ELSE IF avail <= Budget THEN Budget
    ELSE MaxOf(Budget, (avail - Budget) \div workers)

(* The first reading may fail where a later one succeeds.                  *)
Init ==
    /\ meter \in {"none", "failing", "reliable"}
    /\ requested \in Requests
    /\ available \in Hosts
    /\ \E known \in BOOLEAN :
        /\ known => meter # "none"
        /\ ~known => meter # "reliable"
        /\ slots = BoundWorkers(requested, known, available)
        /\ ceiling = deriveCeiling(available, known, slots)
    /\ sem = 0 /\ running = 0
    /\ at = [w \in Workers |-> "idle"]
    /\ reading = [w \in Workers |-> 0]
    /\ held = [w \in Workers |-> 0]
    /\ left = MaxAnalyses
    /\ ctx = "live"

-----------------------------------------------------------------------------
(* acquireCallgraphSlot, one step per access to what workers share.        *)

Goto(w, place) == at' = [at EXCEPT ![w] = place]

(* A worker reaches the call-graph stage of its module.                    *)
Arrive(w) ==
    /\ at[w] = "idle"
    /\ left > 0
    /\ left' = left - 1
    /\ Goto(w, "queue")
    /\ UNCHANGED <<sizing, sem, running, reading, held, ctx>>

TakeSlot(w) ==
    /\ at[w] = "queue"
    /\ sem < slots
    /\ sem' = sem + 1
    /\ Goto(w, "claim")
    /\ UNCHANGED <<sizing, running, reading, held, left, ctx>>

(* The run ended while waiting for a slot: not admitted.                   *)
AbandonQueue(w) ==
    /\ at[w] = "queue"
    /\ ctx = "cancelled"
    /\ Goto(w, "idle")
    /\ UNCHANGED <<sizing, sem, running, reading, held, left, ctx>>

(* Mutant: the idle test and the claim are two operations.                 *)
Claim_ReadThenAdd(w) ==
    /\ at[w] = "claim"
    /\ IF meter = "none" \/ running = 0
       THEN /\ reading' = [reading EXCEPT ![w] = Unreadable]
            /\ Goto(w, "decide")
       ELSE Goto(w, "read") /\ UNCHANGED reading
    /\ UNCHANGED <<sizing, sem, running, held, left, ctx>>

(* awaitCallgraphHeadroom: with no reporter the analysis starts; otherwise *)
(* CompareAndSwap(0, 1) starts it when none is running.                    *)
Claim(w) ==
    /\ at[w] = "claim"
    /\ IF meter = "none" \/ running = 0
       THEN running' = running + 1 /\ Goto(w, "running")
       ELSE Goto(w, "read") /\ UNCHANGED running
    /\ UNCHANGED <<sizing, sem, reading, held, left, ctx>>

ReadHost(w) ==
    /\ at[w] = "read"
    /\ \/ reading' = [reading EXCEPT ![w] = AvailableBytes]
       \/ meter = "failing" /\ reading' = [reading EXCEPT ![w] = Unreadable]
    /\ Goto(w, "decide")
    /\ UNCHANGED <<sizing, sem, running, held, left, ctx>>

(* An unreadable host is unknown, not empty; a readable one must have a    *)
(* budget free.  The count is added after the reading, not with it.        *)
StartBeside(w) ==
    /\ at[w] = "decide"
    /\ reading[w] = Unreadable \/ reading[w] >= Budget
    /\ running' = running + 1
    /\ Goto(w, "running")
    /\ UNCHANGED <<sizing, sem, reading, held, left, ctx>>

WaitForRoom(w) ==
    /\ at[w] = "decide"
    /\ reading[w] # Unreadable /\ reading[w] < Budget
    /\ Goto(w, "poll")
    /\ UNCHANGED <<sizing, sem, running, reading, held, left, ctx>>

PollAgain(w) ==
    /\ at[w] = "poll"
    /\ Goto(w, "claim")
    /\ UNCHANGED <<sizing, sem, running, reading, held, left, ctx>>

(* Mutant: the slot is not given back when the wait is abandoned.          *)
AbandonPoll_KeepsSlot(w) ==
    /\ at[w] = "poll"
    /\ ctx = "cancelled"
    /\ Goto(w, "idle")
    /\ UNCHANGED <<sizing, sem, running, reading, held, left, ctx>>

(* The run ended while waiting for headroom: the slot is given back.       *)
AbandonPoll(w) ==
    /\ at[w] = "poll"
    /\ ctx = "cancelled"
    /\ sem' = sem - 1
    /\ Goto(w, "idle")
    /\ UNCHANGED <<sizing, running, reading, held, left, ctx>>

(* The subprocess allocates, and stops itself at the ceiling.              *)
Grow(w) ==
    /\ at[w] = "running"
    /\ held[w] < (IF ceiling = 0 THEN MaxHeld ELSE ceiling)
    /\ held' = [held EXCEPT ![w] = @ + 1]
    /\ UNCHANGED <<sizing, sem, running, at, reading, left, ctx>>

(* Mutant: the analysis ends without being uncounted.                      *)
Finish_StillCounted(w) ==
    /\ at[w] = "running"
    /\ held' = [held EXCEPT ![w] = 0]
    /\ Goto(w, "ending")
    /\ UNCHANGED <<sizing, sem, running, reading, left, ctx>>

(* The subprocess is gone, with what it held; release first uncounts it    *)
(* and then frees the slot.                                                *)
Finish(w) ==
    /\ at[w] = "running"
    /\ held' = [held EXCEPT ![w] = 0]
    /\ running' = running - 1
    /\ Goto(w, "ending")
    /\ UNCHANGED <<sizing, sem, reading, left, ctx>>

ReleaseSlot(w) ==
    /\ at[w] = "ending"
    /\ sem' = sem - 1
    /\ Goto(w, "idle")
    /\ UNCHANGED <<sizing, running, reading, held, left, ctx>>

Cancel ==
    /\ ctx = "live"
    /\ ctx' = "cancelled"
    /\ UNCHANGED <<sizing, sem, running, at, reading, held, left>>

(* Steps a worker takes unless it waits for another worker.                *)
Proceed(w) ==
    \/ Arrive(w) \/ TakeSlot(w) \/ AbandonQueue(w) \/ Claim(w) \/ ReadHost(w)
    \/ StartBeside(w) \/ WaitForRoom(w) \/ PollAgain(w) \/ ReleaseSlot(w)

WorkerStep(w) == Proceed(w) \/ AbandonPoll(w) \/ Grow(w) \/ Finish(w)

(* Every call-graph stage of the run has been dealt with.                  *)
AllDone == left = 0 /\ \A w \in Workers : at[w] = "idle"
Over == AllDone /\ UNCHANGED vars

Next == (\E w \in Workers : WorkerStep(w)) \/ Cancel \/ Over

Spec == Init /\ [][Next]_vars

(* Goroutines are scheduled, poll timers fire, and every analysis ends: it *)
(* is killed when it stops reporting progress.                             *)
Fairness == \A w \in Workers : WF_vars(Proceed(w)) /\ WF_vars(Finish(w))

LiveSpec == Spec /\ Fairness

-----------------------------------------------------------------------------
(* Properties.                                                             *)

Place == {"idle", "queue", "claim", "read", "decide", "poll", "running", "ending"}

TypeOK ==
    /\ meter \in {"none", "failing", "reliable"}
    /\ requested \in Nat /\ available \in Nat
    /\ slots \in Nat \ {0} /\ ceiling \in Nat
    /\ sem \in Nat /\ running \in Nat
    /\ at \in [Workers -> Place]
    /\ reading \in [Workers -> Nat \cup {Unreadable}]
    /\ held \in [Workers -> Nat]
    /\ left \in Nat
    /\ ctx \in {"live", "cancelled"}

(* The semaphore and the running count say exactly who holds a slot and    *)
(* whose analysis is under way, on every path out of the gate: a slot or a *)
(* count leaked on one of them would narrow the gate for the whole run.    *)
CountsAreExact ==
    /\ sem = Cardinality(Holders) /\ sem <= slots
    /\ running = Cardinality(Running)

(* On a host whose readings never show one budget free, analyses run one   *)
(* at a time: two workers that find the run idle together do not both      *)
(* start ("the bound this gate exists to hold reappearing one worker       *)
(* later").                                                                *)
ShortHostRunsOne ==
    meter = "reliable" /\ available < Budget => Cardinality(Running) <= 1

(* Where the host could fund one budget more than the bound admits, the    *)
(* analyses cannot use it up however they grow: with all of them at their  *)
(* ceilings one budget is still free.                                      *)
ReserveIsKept ==
    ceiling # 0 /\ available >= (slots + 1) * Budget => AvailableBytes >= Budget

(* A host that cannot fund a single analysis still gets through the run:   *)
(* nobody waits for ever for memory or for a slot.                         *)
AllAnalysesEnd == <>AllDone
=============================================================================
