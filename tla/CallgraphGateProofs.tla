------------------------ MODULE CallgraphGateProofs ------------------------
(***************************************************************************)
(* Proofs about CallgraphGate and BoundedChild: for any number of workers, *)
(* any host and any sizing, the gate's two counters are exact on every way *)
(* through it, and a host that never has a budget free runs one analysis   *)
(* at a time, and a host with a budget to spare keeps it free.  With the   *)
(* subprocesses of BoundedChild in view this still holds, and what the     *)
(* extraction is told of a subprocess is true.                             *)
(***************************************************************************)
EXTENDS BoundedChild, FiniteSetTheorems, WellFoundedInduction, TLAPS

-----------------------------------------------------------------------------
(* Counting the workers at some places.                                    *)

WorkersAt(f, places) == {w \in Workers : f[w] \in places}

(* A worker that goes from outside the places into them adds one.          *)
LEMMA OneMore ==
    ASSUME NEW f \in [Workers -> Place], NEW places, NEW w \in Workers, NEW q \in Place,
           f[w] \notin places, q \in places
    PROVE  Cardinality(WorkersAt([f EXCEPT ![w] = q], places))
             = Cardinality(WorkersAt(f, places)) + 1
<1> DEFINE old == WorkersAt(f, places)
           new == WorkersAt([f EXCEPT ![w] = q], places)
<1>1. IsFiniteSet(old)
  BY FS_Subset, WorkersAssumption DEF WorkersAt
<1>2. new = old \cup {w} /\ w \notin old
  BY DEF WorkersAt
<1>3. Cardinality(old \cup {w}) = Cardinality(old) + 1
  BY <1>1, <1>2, FS_AddElement
<1> QED BY <1>2, <1>3

(* A worker that leaves them takes one away.                               *)
LEMMA OneLess ==
    ASSUME NEW f \in [Workers -> Place], NEW places, NEW w \in Workers, NEW q \in Place,
           f[w] \in places, q \notin places
    PROVE  Cardinality(WorkersAt([f EXCEPT ![w] = q], places))
             = Cardinality(WorkersAt(f, places)) - 1
<1> DEFINE old == WorkersAt(f, places)
           new == WorkersAt([f EXCEPT ![w] = q], places)
<1>1. IsFiniteSet(old)
  BY FS_Subset, WorkersAssumption DEF WorkersAt
<1>2. new = old \ {w} /\ w \in old
  BY DEF WorkersAt
<1>3. Cardinality(old \ {w}) = Cardinality(old) - 1
  BY <1>1, <1>2, FS_RemoveElement
<1> QED BY <1>2, <1>3

(* A worker that moves inside them, or outside them, changes nothing.      *)
LEMMA SameNumber ==
    ASSUME NEW f \in [Workers -> Place], NEW places, NEW w \in Workers, NEW q \in Place,
           f[w] \in places <=> q \in places
    PROVE  WorkersAt([f EXCEPT ![w] = q], places) = WorkersAt(f, places)
BY DEF WorkersAt

-----------------------------------------------------------------------------
(* What the counting argument needs of the types, and the counts.          *)
Counts ==
    /\ at \in [Workers -> Place]
    /\ slots \in Nat
    /\ sem \in Nat /\ sem <= slots
    /\ sem = Cardinality(WorkersAt(at, HasSlot))
    /\ running = Cardinality(WorkersAt(at, {"running"}))

LEMMA CountsAgree == Counts => CountsAreExact
<1>1. WorkersAt(at, HasSlot) = Holders
  BY DEF WorkersAt, Holders
<1>2. WorkersAt(at, {"running"}) = Running
  BY DEF WorkersAt, Running
<1> QED BY <1>1, <1>2 DEF Counts, CountsAreExact

(* The bound is never negative, whatever the host reports.                 *)
LEMMA BoundIsNat ==
    ASSUME NEW r \in Nat, NEW known \in BOOLEAN, NEW a \in Nat
    PROVE  BoundWorkers(r, known, a) \in Nat
<1>1. a \div Budget \in Int
  BY SizesAssumption
<1>2. MaxOf(1, MinOf(a \div Budget, CPUCap)) \in Nat
  BY <1>1, SizesAssumption DEF MaxOf, MinOf
<1> QED BY <1>2, SizesAssumption DEF BoundWorkers

LEMMA CountsInit == Init => Counts
<1> SUFFICES ASSUME Init PROVE Counts
  OBVIOUS
<1>1. slots \in Nat
  BY BoundIsNat, SizesAssumption DEF Init
<1>2. at \in [Workers -> Place]
  BY DEF Init, Place
<1>3. WorkersAt(at, HasSlot) = {} /\ WorkersAt(at, {"running"}) = {}
  BY DEF Init, WorkersAt, HasSlot
<1>4. Cardinality({}) = 0
  BY FS_EmptySet
<1>5. sem = 0 /\ running = 0
  BY DEF Init
<1> QED BY <1>1, <1>2, <1>3, <1>4, <1>5 DEF Counts

LEMMA CountsNext == Counts /\ [Next]_vars => Counts'
<1> SUFFICES ASSUME Counts, [Next]_vars PROVE Counts'
  OBVIOUS
<1> USE DEF Counts, sizing
<1> DEFINE Run == {"running"}
<1>1. ASSUME NEW w \in Workers, Arrive(w) \/ AbandonQueue(w) \/ ReadHost(w)
                                \/ WaitForRoom(w) \/ PollAgain(w)
      PROVE  Counts'
  <2>1. PICK q \in Place : at' = [at EXCEPT ![w] = q]
                           /\ (at[w] \in HasSlot <=> q \in HasSlot)
                           /\ (at[w] \in Run <=> q \in Run)
    BY <1>1 DEF Arrive, AbandonQueue, ReadHost, WaitForRoom, PollAgain, Goto, Place, HasSlot
  <2>2. UNCHANGED <<slots, sem, running>>
    BY <1>1 DEF Arrive, AbandonQueue, ReadHost, WaitForRoom, PollAgain
  <2>3. at' \in [Workers -> Place]
    BY <2>1
  <2>4. WorkersAt(at', HasSlot) = WorkersAt(at, HasSlot) /\ WorkersAt(at', Run) = WorkersAt(at, Run)
    BY <2>1, SameNumber
  <2> QED BY <2>2, <2>3, <2>4
<1>2. ASSUME NEW w \in Workers, TakeSlot(w) PROVE Counts'
  <2>1. at' = [at EXCEPT ![w] = "claim"] /\ at[w] = "queue"
        /\ sem' = sem + 1 /\ sem < slots /\ slots' = slots /\ running' = running
    BY <1>2 DEF TakeSlot, Goto
  <2>2. Cardinality(WorkersAt(at', HasSlot)) = Cardinality(WorkersAt(at, HasSlot)) + 1
    BY <2>1, OneMore DEF HasSlot, Place
  <2>3. WorkersAt(at', Run) = WorkersAt(at, Run)
    BY <2>1, SameNumber DEF Place
  <2>4. at' \in [Workers -> Place]
    BY <2>1 DEF Place
  <2> QED BY <2>1, <2>2, <2>3, <2>4
<1>3. ASSUME NEW w \in Workers, AbandonPoll(w) \/ ReleaseSlot(w) PROVE Counts'
  <2>1. at' = [at EXCEPT ![w] = "idle"] /\ at[w] \in {"poll", "ending"}
        /\ sem' = sem - 1 /\ slots' = slots /\ running' = running
    BY <1>3 DEF AbandonPoll, ReleaseSlot, Goto
  <2>2. Cardinality(WorkersAt(at', HasSlot)) = Cardinality(WorkersAt(at, HasSlot)) - 1
    BY <2>1, OneLess DEF HasSlot, Place
  <2>3. WorkersAt(at', Run) = WorkersAt(at, Run)
    BY <2>1, SameNumber DEF Place
  <2>4. at' \in [Workers -> Place]
    BY <2>1 DEF Place
  <2>5. Cardinality(WorkersAt(at', HasSlot)) \in Nat
    BY FS_Subset, FS_CardinalityType, WorkersAssumption DEF WorkersAt
  <2> QED BY <2>1, <2>2, <2>3, <2>4, <2>5
<1>4. ASSUME NEW w \in Workers, StartBeside(w) \/ Claim(w), at'[w] = "running" PROVE Counts'
  <2>1. at' = [at EXCEPT ![w] = "running"] /\ at[w] \in {"claim", "decide"}
        /\ running' = running + 1 /\ slots' = slots /\ sem' = sem
    BY <1>4 DEF StartBeside, Claim, Goto
  <2>2. WorkersAt(at', HasSlot) = WorkersAt(at, HasSlot)
    BY <2>1, SameNumber DEF HasSlot, Place
  <2>3. Cardinality(WorkersAt(at', Run)) = Cardinality(WorkersAt(at, Run)) + 1
    BY <2>1, OneMore DEF Place
  <2>4. at' \in [Workers -> Place]
    BY <2>1 DEF Place
  <2> QED BY <2>1, <2>2, <2>3, <2>4
<1>5. ASSUME NEW w \in Workers, Claim(w), at'[w] # "running" PROVE Counts'
  <2>1. at' = [at EXCEPT ![w] = "read"] /\ at[w] = "claim"
        /\ running' = running /\ slots' = slots /\ sem' = sem
    BY <1>5 DEF Claim, Goto
  <2>2. WorkersAt(at', HasSlot) = WorkersAt(at, HasSlot) /\ WorkersAt(at', Run) = WorkersAt(at, Run)
    BY <2>1, SameNumber DEF HasSlot, Place
  <2>3. at' \in [Workers -> Place]
    BY <2>1 DEF Place
  <2> QED BY <2>1, <2>2, <2>3
<1>6. ASSUME NEW w \in Workers, Finish(w) PROVE Counts'
  <2>1. at' = [at EXCEPT ![w] = "ending"] /\ at[w] = "running"
        /\ running' = running - 1 /\ slots' = slots /\ sem' = sem
    BY <1>6 DEF Finish, Goto
  <2>2. WorkersAt(at', HasSlot) = WorkersAt(at, HasSlot)
    BY <2>1, SameNumber DEF HasSlot, Place
  <2>3. Cardinality(WorkersAt(at', Run)) = Cardinality(WorkersAt(at, Run)) - 1
    BY <2>1, OneLess DEF Place
  <2>4. at' \in [Workers -> Place]
    BY <2>1 DEF Place
  <2> QED BY <2>1, <2>2, <2>3, <2>4
<1>7. ASSUME UNCHANGED <<at, sem, running, slots>> PROVE Counts'
  BY <1>7 DEF WorkersAt
<1>8. ASSUME NEW w \in Workers, Grow(w) PROVE Counts'
  BY <1>7, <1>8 DEF Grow
<1>9. CASE Cancel \/ Over \/ UNCHANGED vars
  BY <1>7, <1>9 DEF Cancel, Over, vars
<1>10. ASSUME NEW w \in Workers, WorkerStep(w) PROVE Counts'
  <2>1. StartBeside(w) => at'[w] = "running"
    BY DEF StartBeside, Goto
  <2>2. CASE Proceed(w)
    BY <2>1, <2>2, <1>1, <1>2, <1>3, <1>4, <1>5 DEF Proceed
  <2>3. CASE AbandonPoll(w) \/ Grow(w) \/ Finish(w)
    BY <2>3, <1>3, <1>6, <1>8
  <2> QED BY <2>2, <2>3, <1>10 DEF WorkerStep
<1> QED BY <1>9, <1>10 DEF Next

(* The semaphore and the running count are exact in every reachable state, *)
(* for any set of workers, any host and any sizing: acquireCallgraphSlot   *)
(* and its release give back what was taken on each of their ways out.     *)
THEOREM GateCountsExact == Spec => []CountsAreExact
<1>1. Init => Counts
  BY CountsInit
<1>2. Counts /\ [Next]_vars => Counts'
  BY CountsNext
<1>3. Counts => CountsAreExact
  BY CountsAgree
<1> QED BY <1>1, <1>2, <1>3, PTL DEF Spec

-----------------------------------------------------------------------------
(* The host that never has a budget free.                                  *)

(* A reading never shows more than the host had when the run started.      *)
LEMMA ReadingIsBounded ==
    ASSUME available \in Nat
    PROVE  AvailableBytes \in 0 .. available
BY DEF AvailableBytes

(* The strengthening: whoever is about to decide read a host without room. *)
OneAtATime ==
    meter = "reliable" /\ available < Budget =>
        /\ running <= 1
        /\ \A w \in Workers : at[w] = "decide" => reading[w] \in 0 .. available

Short == Counts /\ available \in Nat /\ reading \in [Workers -> Int] /\ OneAtATime

LEMMA ShortInit == Init => Short
<1> SUFFICES ASSUME Init PROVE Short
  OBVIOUS
<1>1. Counts
  BY CountsInit
<1>2. available \in Nat /\ reading \in [Workers -> Int]
  BY SizesAssumption DEF Init
<1>3. OneAtATime
  BY DEF Init, OneAtATime
<1> QED BY <1>1, <1>2, <1>3 DEF Short

LEMMA ShortNext == Short /\ [Next]_vars => Short'
<1> SUFFICES ASSUME Short, [Next]_vars PROVE Short'
  OBVIOUS
<1>1. Counts'
  BY CountsNext DEF Short
<1> USE DEF Short, sizing, OneAtATime
<1>2. running \in Nat
  BY FS_Subset, FS_CardinalityType, WorkersAssumption DEF Counts, WorkersAt
<1>3. at \in [Workers -> Place]
  BY DEF Counts
<1> USE SizesAssumption
<1>4. ASSUME NEW w \in Workers, Arrive(w) \/ TakeSlot(w) \/ AbandonQueue(w) \/ WaitForRoom(w)
                                \/ PollAgain(w) \/ AbandonPoll(w) \/ ReleaseSlot(w)
      PROVE  Short'
  <2>1. PICK q \in Place \ {"decide"} : at' = [at EXCEPT ![w] = q]
    BY <1>4 DEF Arrive, TakeSlot, AbandonQueue, WaitForRoom, PollAgain, AbandonPoll,
                ReleaseSlot, Goto, Place
  <2>2. UNCHANGED <<meter, available, running, reading>>
    BY <1>4 DEF Arrive, TakeSlot, AbandonQueue, WaitForRoom, PollAgain, AbandonPoll, ReleaseSlot
  <2> QED BY <1>1, <1>3, <2>1, <2>2
<1>5. ASSUME NEW w \in Workers, Claim(w) PROVE Short'
  <2>1. UNCHANGED <<meter, available, reading>>
    BY <1>5 DEF Claim
  <2>2. PICK q \in {"running", "read"} : at' = [at EXCEPT ![w] = q]
    BY <1>5 DEF Claim, Goto
  <2>3. meter = "reliable" => running' = running \/ running' = 1
    BY <1>5, <1>2 DEF Claim
  <2> QED BY <1>1, <1>2, <1>3, <2>1, <2>2, <2>3
<1>6. ASSUME NEW w \in Workers, ReadHost(w) PROVE Short'
  <2>1. UNCHANGED <<meter, available, running>> /\ at' = [at EXCEPT ![w] = "decide"]
    BY <1>6 DEF ReadHost, Goto
  <2>2. AvailableBytes \in 0 .. available
    BY ReadingIsBounded
  <2>3. reading' = [reading EXCEPT ![w] = AvailableBytes]
        \/ (meter = "failing" /\ reading' = [reading EXCEPT ![w] = Unreadable])
    BY <1>6 DEF ReadHost
  <2> QED BY <1>1, <1>3, <2>1, <2>2, <2>3 DEF Unreadable
<1>7. ASSUME NEW w \in Workers, StartBeside(w) PROVE Short'
  <2>1. UNCHANGED <<meter, available, reading>> /\ at' = [at EXCEPT ![w] = "running"]
    BY <1>7 DEF StartBeside, Goto
  <2>2. ~(meter = "reliable" /\ available < Budget)
    BY <1>7 DEF StartBeside, Unreadable
  <2> QED BY <1>1, <2>1, <2>2
<1>8. ASSUME NEW w \in Workers, Finish(w) PROVE Short'
  <2>1. UNCHANGED <<meter, available, reading>> /\ at' = [at EXCEPT ![w] = "ending"]
        /\ running' = running - 1
    BY <1>8 DEF Finish, Goto
  <2> QED BY <1>1, <1>2, <1>3, <2>1
<1>9. ASSUME UNCHANGED <<meter, available, running, reading, at>> PROVE Short'
  BY <1>1, <1>9
<1>10. ASSUME NEW w \in Workers, Grow(w) PROVE Short'
  BY <1>9, <1>10 DEF Grow
<1>11. CASE Cancel \/ Over \/ UNCHANGED vars
  BY <1>9, <1>11 DEF Cancel, Over, vars
<1>12. ASSUME NEW w \in Workers, WorkerStep(w) PROVE Short'
  <2>1. CASE Proceed(w)
    BY <2>1, <1>4, <1>5, <1>6, <1>7 DEF Proceed
  <2>2. CASE AbandonPoll(w) \/ Grow(w) \/ Finish(w)
    BY <2>2, <1>4, <1>8, <1>10
  <2> QED BY <2>1, <2>2, <1>12 DEF WorkerStep
<1> QED BY <1>11, <1>12 DEF Next

(* awaitCallgraphHeadroom: where memory is reported reliably and the host  *)
(* never had a budget free, no two analyses run together, however many     *)
(* workers reach the gate at once.                                         *)
THEOREM ShortHostIsSerial == Spec => []ShortHostRunsOne
<1>1. Init => Short
  BY ShortInit
<1>2. Short /\ [Next]_vars => Short'
  BY ShortNext
<1>3. Short => ShortHostRunsOne
  <2>1. WorkersAt(at, {"running"}) = Running
    BY DEF WorkersAt, Running
  <2> QED BY <2>1 DEF Short, OneAtATime, Counts, ShortHostRunsOne
<1> QED BY <1>1, <1>2, <1>3, PTL DEF Spec

-----------------------------------------------------------------------------
(* Types: the counts cannot go below zero because they are counts.         *)

LEMMA SizingTypes ==
    ASSUME Init
    PROVE  slots \in Nat \ {0} /\ ceiling \in Nat
<1>1. PICK known \in BOOLEAN : slots = BoundWorkers(requested, known, available)
                               /\ ceiling = deriveCeiling(available, known, slots)
  BY DEF Init
<1>2. requested \in Nat /\ available \in Nat
  BY SizesAssumption DEF Init
<1>3. available \div Budget \in Int
  BY <1>2, SizesAssumption
<1>4. slots \in Nat \ {0}
  BY <1>1, <1>2, <1>3, SizesAssumption DEF BoundWorkers, MaxOf, MinOf
<1>5. (available - Budget) \div slots \in Int
  BY <1>2, <1>4, SizesAssumption
<1>6. ceiling \in Nat
  BY <1>1, <1>5, SizesAssumption DEF deriveCeiling, MaxOf
<1> QED BY <1>4, <1>6

LEMMA TypeInit == Init => TypeOK
<1> SUFFICES ASSUME Init PROVE TypeOK
  OBVIOUS
<1>1. slots \in Nat \ {0} /\ ceiling \in Nat
  BY SizingTypes
<1>2. at \in [Workers -> Place] /\ reading \in [Workers -> Nat \cup {Unreadable}]
      /\ held \in [Workers -> Nat]
  BY DEF Init, Place
<1>3. meter \in {"none", "failing", "reliable"} /\ ctx \in {"live", "cancelled"}
  BY DEF Init
<1>4. requested \in Nat /\ available \in Nat /\ sem \in Nat /\ running \in Nat /\ left \in Nat
  BY SizesAssumption DEF Init
<1> QED BY <1>1, <1>2, <1>3, <1>4 DEF TypeOK

LEMMA TypeNext == TypeOK /\ Counts /\ [Next]_vars => TypeOK'
<1> SUFFICES ASSUME TypeOK, Counts, [Next]_vars PROVE TypeOK'
  OBVIOUS
<1>1. Counts'
  BY CountsNext
<1>2. at' \in [Workers -> Place] /\ sem' \in Nat
  BY <1>1 DEF Counts
<1>3. running' \in Nat
  BY <1>1, FS_Subset, FS_CardinalityType, WorkersAssumption DEF Counts, WorkersAt
<1>4. UNCHANGED sizing
  BY DEF Next, WorkerStep, Proceed, Arrive, TakeSlot, AbandonQueue, Claim, ReadHost, StartBeside,
         WaitForRoom, PollAgain, ReleaseSlot, AbandonPoll, Grow, Finish, Cancel, Over, vars, sizing
<1>5. left' \in Nat /\ ctx' \in {"live", "cancelled"}
  BY DEF TypeOK, Next, WorkerStep, Proceed, Arrive, TakeSlot, AbandonQueue, Claim, ReadHost,
         StartBeside, WaitForRoom, PollAgain, ReleaseSlot, AbandonPoll, Grow, Finish, Cancel, Over,
         vars
<1>6. held' \in [Workers -> Nat]
  BY DEF TypeOK, Next, WorkerStep, Proceed, Arrive, TakeSlot, AbandonQueue, Claim, ReadHost,
         StartBeside, WaitForRoom, PollAgain, ReleaseSlot, AbandonPoll, Grow, Finish, Cancel, Over,
         vars
<1>7. reading' \in [Workers -> Nat \cup {Unreadable}]
  <2>1. CASE \E w \in Workers : ReadHost(w)
    <3>1. AvailableBytes \in Nat
      BY ReadingIsBounded DEF TypeOK
    <3> QED BY <2>1, <3>1 DEF ReadHost, TypeOK
  <2>2. CASE UNCHANGED reading
    BY <2>2 DEF TypeOK
  <2> QED BY <2>1, <2>2 DEF Next, WorkerStep, Proceed, Arrive, TakeSlot, AbandonQueue, Claim,
         StartBeside, WaitForRoom, PollAgain, ReleaseSlot, AbandonPoll, Grow, Finish, Cancel,
         Over, vars
<1> QED BY <1>2, <1>3, <1>4, <1>5, <1>6, <1>7 DEF TypeOK, sizing

(* The gate's state keeps its types; in particular the semaphore and the   *)
(* running count never go negative and at least one slot always exists.    *)
THEOREM TypeCorrect == Spec => []TypeOK
<1>1. Init => TypeOK /\ Counts
  BY TypeInit, CountsInit
<1>2. TypeOK /\ Counts /\ [Next]_vars => (TypeOK /\ Counts)'
  BY TypeNext, CountsNext
<1> QED BY <1>1, <1>2, PTL DEF Spec

-----------------------------------------------------------------------------
(* What the analyses hold together.  InUse is a fold over the workers; it  *)
(* is reasoned about through the function it is the value of, and through  *)
(* the smallest set of workers for which a claim would fail.               *)

Chosen(s) == CHOOSE x \in s : TRUE

(* The function g sums f over every set of workers, by taking out one      *)
(* worker after the other.                                                 *)
Sums(g, f) ==
    g = [s \in SUBSET Workers |-> IF s = {} THEN 0 ELSE f[Chosen(s)] + g[s \ {Chosen(s)}]]

LEMMA InUseIsSum == InUse = (CHOOSE g : Sums(g, held))[Workers]
  BY DEF InUse, MapThenSumSet, MapThenFoldSet, Sums, Chosen

(* Of a nonempty set of numbers one is the least.                          *)
LEMMA LeastOf ==
    ASSUME NEW T, T \subseteq Nat, T # {}
    PROVE  \E m \in T : \A n \in T : m <= n
<1>1. \E m \in T : \A n \in T : ~(<<n, m>> \in OpToRel(<, Nat))
  BY WFMin, NatLessThanWellFounded
<1>2. PICK m \in T : \A n \in T : ~(n < m)
  BY <1>1 DEF OpToRel
<1>3. \A n \in T : m <= n
  BY <1>2
<1> QED BY <1>3

(* Taking out one worker leaves a smaller set.                             *)
LEMMA OneOut ==
    ASSUME NEW s \in SUBSET Workers, s # {}
    PROVE  /\ Chosen(s) \in s /\ s \ {Chosen(s)} \in SUBSET Workers
           /\ Cardinality(s) \in Nat /\ Cardinality(s \ {Chosen(s)}) \in Nat
           /\ Cardinality(s \ {Chosen(s)}) = Cardinality(s) - 1
<1>1. Chosen(s) \in s
  BY DEF Chosen
<1>2. IsFiniteSet(s) /\ IsFiniteSet(s \ {Chosen(s)})
  BY FS_Subset, WorkersAssumption
<1>3. Cardinality(s) \in Nat /\ Cardinality(s \ {Chosen(s)}) \in Nat
  BY <1>2, FS_CardinalityType
<1>4. Cardinality(s \ {Chosen(s)}) = Cardinality(s) - 1
  BY <1>1, <1>2, FS_RemoveElement
<1> QED BY <1>1, <1>3, <1>4

UpTo(n) == {s \in SUBSET Workers : Cardinality(s) <= n}

(* Sums(g, f), as far as the sets of at most n workers.                    *)
SumsUpTo(g, f, n) ==
    /\ g \in [UpTo(n) -> Nat]
    /\ \A s \in UpTo(n) : g[s] = IF s = {} THEN 0 ELSE f[Chosen(s)] + g[s \ {Chosen(s)}]

(* A sum known up to n workers is known up to one more.                    *)
LEMMA SumGrows ==
    ASSUME NEW f \in [Workers -> Nat], NEW n \in Nat, NEW g, SumsUpTo(g, f, n)
    PROVE  \E h : SumsUpTo(h, f, n + 1)
<1> DEFINE h == [s \in UpTo(n + 1) |->
                    IF s = {} THEN 0 ELSE f[Chosen(s)] + g[s \ {Chosen(s)}]]
<1>1. ASSUME NEW s \in UpTo(n + 1), s # {}
      PROVE  /\ Chosen(s) \in Workers
             /\ s \ {Chosen(s)} \in UpTo(n) /\ s \ {Chosen(s)} \in UpTo(n + 1)
  <2>1. s \in SUBSET Workers /\ Cardinality(s) <= n + 1
    BY DEF UpTo
  <2>2. /\ Chosen(s) \in s /\ s \ {Chosen(s)} \in SUBSET Workers
        /\ Cardinality(s) \in Nat /\ Cardinality(s \ {Chosen(s)}) \in Nat
        /\ Cardinality(s \ {Chosen(s)}) = Cardinality(s) - 1
    BY <1>1, <2>1, OneOut
  <2>3. Cardinality(s \ {Chosen(s)}) <= n /\ Cardinality(s \ {Chosen(s)}) <= n + 1
    BY <2>1, <2>2
  <2> QED BY <2>1, <2>2, <2>3 DEF UpTo
<1>2. g \in [UpTo(n) -> Nat]
      /\ \A s \in UpTo(n) : g[s] = IF s = {} THEN 0 ELSE f[Chosen(s)] + g[s \ {Chosen(s)}]
  BY DEF SumsUpTo
<1>3. h \in [UpTo(n + 1) -> Nat]
  <2>1. ASSUME NEW s \in UpTo(n + 1), s # {} PROVE f[Chosen(s)] + g[s \ {Chosen(s)}] \in Nat
    BY <1>1, <1>2, <2>1
  <2> QED BY <2>1
<1>4. ASSUME NEW s \in UpTo(n + 1)
      PROVE  h[s] = IF s = {} THEN 0 ELSE f[Chosen(s)] + h[s \ {Chosen(s)}]
  <2>1. CASE s = {}
    BY <2>1
  <2>2. CASE s # {}
    <3>1. s \ {Chosen(s)} \in UpTo(n) /\ s \ {Chosen(s)} \in UpTo(n + 1)
      BY <1>1, <2>2
    <3>2. h[s \ {Chosen(s)}] = g[s \ {Chosen(s)}]
      BY <1>2, <3>1
    <3>3. h[s] = f[Chosen(s)] + g[s \ {Chosen(s)}]
      BY <2>2
    <3> HIDE DEF h
    <3> QED BY <2>2, <3>2, <3>3
  <2> QED BY <2>1, <2>2
<1> HIDE DEF h
<1>5. SumsUpTo(h, f, n + 1)
  BY <1>3, <1>4 DEF SumsUpTo
<1> QED BY <1>5

(* So there is a function that sums.                                       *)
LEMMA SumExists ==
    ASSUME NEW f \in [Workers -> Nat]
    PROVE  \E g : Sums(g, f)
<1> DEFINE Bad == {n \in Nat : ~\E g : SumsUpTo(g, f, n)}
<1>1. \E g : SumsUpTo(g, f, 0)
  <2>1. UpTo(0) = {{}}
    <3>1. ASSUME NEW s \in SUBSET Workers, Cardinality(s) <= 0 PROVE s = {}
      <4>1. ASSUME s # {} PROVE Cardinality(s) - 1 \in Nat /\ Cardinality(s) \in Nat
        BY <4>1, OneOut
      <4> QED BY <3>1, <4>1
    <3>2. Cardinality({}) = 0
      BY FS_EmptySet
    <3> QED BY <3>1, <3>2 DEF UpTo
  <2> DEFINE g == [s \in UpTo(0) |-> 0]
  <2>2. SumsUpTo(g, f, 0)
    BY <2>1 DEF SumsUpTo
  <2> QED BY <2>2
<1>2. Bad = {}
  <2> SUFFICES ASSUME Bad # {} PROVE FALSE
    OBVIOUS
  <2>1. PICK m \in Bad : \A n \in Bad : m <= n
    BY LeastOf
  <2>2. m \in Nat /\ m # 0 /\ ~\E g : SumsUpTo(g, f, m)
    BY <1>1, <2>1
  <2>3. m - 1 \in Nat /\ m - 1 \notin Bad
    BY <2>1, <2>2
  <2>4. PICK g : SumsUpTo(g, f, m - 1)
    BY <2>3
  <2>5. \E h : SumsUpTo(h, f, (m - 1) + 1)
    BY <2>3, <2>4, SumGrows
  <2>6. (m - 1) + 1 = m
    BY <2>2
  <2> QED BY <2>2, <2>5, <2>6
<1> DEFINE all == Cardinality(Workers)
<1>3. all \in Nat
  BY FS_CardinalityType, WorkersAssumption
<1>4. UpTo(all) = SUBSET Workers
  BY FS_Subset, WorkersAssumption DEF UpTo
<1>5. PICK g : SumsUpTo(g, f, all)
  BY <1>2, <1>3
<1>6. Sums(g, f)
  BY <1>4, <1>5 DEF SumsUpTo, Sums
<1> QED BY <1>6

(* What a sum comes to when only the workers of R hold anything, and each  *)
(* no more than k.                                                         *)
LEMMA SumIsBounded ==
    ASSUME NEW f \in [Workers -> Nat], NEW k \in Nat, NEW R \in SUBSET Workers,
           \A w \in Workers : f[w] <= k /\ (w \notin R => f[w] = 0),
           NEW g, Sums(g, f)
    PROVE  g[Workers] \in Nat /\ g[Workers] <= Cardinality(R) * k
<1> DEFINE Fits(s) == g[s] \in Nat /\ g[s] <= Cardinality(s \cap R) * k
           Bad == {Cardinality(s) : s \in {t \in SUBSET Workers : ~Fits(t)}}
<1>1. \A s \in SUBSET Workers : Cardinality(s) \in Nat /\ Cardinality(s \cap R) \in Nat
                                /\ IsFiniteSet(s \cap R)
  BY FS_Subset, FS_CardinalityType, WorkersAssumption
<1>2. \A s \in SUBSET Workers : g[s] = IF s = {} THEN 0 ELSE f[Chosen(s)] + g[s \ {Chosen(s)}]
  BY DEF Sums
<1>3. Fits({})
  <2>1. {} \cap R = {} /\ Cardinality({}) = 0 /\ g[{}] = 0
    BY <1>2, FS_EmptySet
  <2>2. 0 * k = 0
    OBVIOUS
  <2> QED BY <2>1, <2>2
<1>4. ASSUME NEW s \in SUBSET Workers, s # {}, Fits(s \ {Chosen(s)}) PROVE Fits(s)
  <2> DEFINE x == Chosen(s)
             t == s \ {x}
  <2>1. x \in s /\ t \in SUBSET Workers
    BY <1>4, OneOut
  <2>2. g[s] = f[x] + g[t]
    BY <1>2, <1>4
  <2>3. g[t] \in Nat /\ g[t] <= Cardinality(t \cap R) * k
    BY <1>4
  <2> HIDE DEF x
  <2>4. CASE x \in R
    <3> DEFINE S == s \cap R
               m == Cardinality(S \ {x})
    <3>1. IsFiniteSet(S) /\ x \in S /\ t \cap R = S \ {x}
      BY <1>1, <2>1, <2>4
    <3>2. IsFiniteSet(S \ {x}) /\ m = Cardinality(S) - 1
      <4> HIDE DEF S
      <4> QED BY <3>1, FS_RemoveElement
    <3>3. m \in Nat /\ Cardinality(S) \in Nat
      BY <3>1, <3>2, FS_CardinalityType
    <3>4. f[x] \in Nat /\ f[x] <= k /\ g[t] \in Nat /\ g[t] <= m * k
      BY <2>1, <2>3, <3>1
    <3>5. (m + 1) * k = m * k + k /\ m * k \in Nat
      <4> HIDE DEF m
      <4> QED BY <3>3
    <3>6. Cardinality(S) = m + 1
      <4> HIDE DEF m, S
      <4> QED BY <3>2, <3>3
    <3>7. f[x] + g[t] \in Nat /\ f[x] + g[t] <= (m + 1) * k
      <4> HIDE DEF m, t
      <4> QED BY <3>3, <3>4, <3>5
    <3> HIDE DEF m, t
    <3> QED BY <2>2, <3>6, <3>7
  <2>5. CASE x \notin R
    <3>1. t \cap R = s \cap R /\ f[x] = 0
      BY <2>1, <2>5
    <3> HIDE DEF t
    <3>2. g[s] = g[t]
      BY <2>2, <2>3, <3>1
    <3> QED BY <2>3, <3>1, <3>2
  <2> QED BY <2>4, <2>5
<1>5. Bad = {}
  <2> SUFFICES ASSUME Bad # {} PROVE FALSE
    OBVIOUS
  <2>1. Bad \subseteq Nat
    BY <1>1
  <2>2. PICK m \in Bad : \A n \in Bad : m <= n
    BY <2>1, LeastOf
  <2>3. PICK s \in SUBSET Workers : m = Cardinality(s) /\ ~Fits(s)
    BY <2>2
  <2>4. s # {}
    BY <1>3, <2>3
  <2>5. /\ s \ {Chosen(s)} \in SUBSET Workers /\ Cardinality(s) \in Nat
        /\ Cardinality(s \ {Chosen(s)}) = Cardinality(s) - 1
    BY <2>4, OneOut
  <2> HIDE DEF Fits
  <2>6. ~Fits(s \ {Chosen(s)})
    BY <1>4, <2>3, <2>4
  <2>7. Cardinality(s \ {Chosen(s)}) \in Bad
    BY <2>5, <2>6
  <2> HIDE DEF Bad
  <2> QED BY <2>2, <2>3, <2>5, <2>7
<1>6. Fits(Workers)
  <2> HIDE DEF Fits
  <2> QED BY <1>5
<1>7. Workers \cap R = R
  OBVIOUS
<1> QED BY <1>6, <1>7

-----------------------------------------------------------------------------
(* The reserve: an analysis holds memory only while it runs, no more than  *)
(* its ceiling, and the ceilings of all slots leave one budget.            *)
Reserve ==
    /\ \A w \in Workers : at[w] # "running" => held[w] = 0
    /\ ceiling # 0 => \A w \in Workers : held[w] <= ceiling
    /\ ceiling # 0 /\ available >= (slots + 1) * Budget => slots * ceiling <= available - Budget

(* A share of what is left after the reserve, taken once for each slot.    *)
LEMMA SharesFit ==
    ASSUME NEW a \in Nat, NEW n \in Nat \ {0}, NEW known \in BOOLEAN,
           deriveCeiling(a, known, n) # 0, a >= (n + 1) * Budget
    PROVE  n * deriveCeiling(a, known, n) <= a - Budget
<1>1. Budget \in Nat \ {0}
  BY SizesAssumption
<1>2. (n + 1) * Budget = n * Budget + Budget /\ n * Budget \in Nat
  BY <1>1
<1>3. n * Budget <= a - Budget
  BY <1>1, <1>2
<1>4. a - Budget \in Nat
  BY <1>1, <1>2, <1>3
<1>5. n * ((a - Budget) \div n) <= a - Budget
  <2> DEFINE b == a - Budget
  <2>1. b \in Nat
    BY <1>4
  <2> HIDE DEF b
  <2>2. n * (b \div n) <= b
    BY <2>1
  <2> QED BY <2>2 DEF b
<1>6. deriveCeiling(a, known, n) \in {Budget, (a - Budget) \div n}
  BY DEF deriveCeiling, MaxOf
<1> QED BY <1>3, <1>5, <1>6

LEMMA ReserveInit == Init => Reserve
<1> SUFFICES ASSUME Init PROVE Reserve
  OBVIOUS
<1>1. PICK known \in BOOLEAN : ceiling = deriveCeiling(available, known, slots)
  BY DEF Init
<1>2. slots \in Nat \ {0} /\ ceiling \in Nat /\ available \in Nat
  BY SizingTypes, SizesAssumption DEF Init
<1>3. ceiling # 0 /\ available >= (slots + 1) * Budget => slots * ceiling <= available - Budget
  BY <1>1, <1>2, SharesFit
<1>4. \A w \in Workers : held[w] = 0
  BY DEF Init
<1> QED BY <1>2, <1>3, <1>4 DEF Reserve

LEMMA ReserveNext == TypeOK /\ Reserve /\ [Next]_vars => Reserve'
<1> SUFFICES ASSUME TypeOK, Reserve, [Next]_vars PROVE Reserve'
  OBVIOUS
<1>1. UNCHANGED <<ceiling, available, slots>>
  BY DEF Next, WorkerStep, Proceed, Arrive, TakeSlot, AbandonQueue, Claim, ReadHost, StartBeside,
         WaitForRoom, PollAgain, ReleaseSlot, AbandonPoll, Grow, Finish, Cancel, Over, vars, sizing
<1>2. at \in [Workers -> Place] /\ held \in [Workers -> Nat] /\ ceiling \in Nat
  BY DEF TypeOK
<1>3. ASSUME \A w \in Workers : at'[w] # "running" => held'[w] = 0,
             ceiling # 0 => \A w \in Workers : held'[w] <= ceiling
      PROVE  Reserve'
  BY <1>1, <1>3 DEF Reserve
<1>4. ASSUME NEW w \in Workers, Proceed(w) \/ AbandonPoll(w) PROVE Reserve'
  <2>1. PICK q \in Place : at' = [at EXCEPT ![w] = q] /\ at[w] # "running"
    BY <1>4 DEF Proceed, Arrive, TakeSlot, AbandonQueue, Claim, ReadHost, StartBeside,
                WaitForRoom, PollAgain, ReleaseSlot, AbandonPoll, Goto, Place
  <2>2. held' = held
    BY <1>4 DEF Proceed, Arrive, TakeSlot, AbandonQueue, Claim, ReadHost, StartBeside,
                WaitForRoom, PollAgain, ReleaseSlot, AbandonPoll
  <2> QED BY <1>2, <1>3, <2>1, <2>2 DEF Reserve
<1>5. ASSUME NEW w \in Workers, Grow(w) PROVE Reserve'
  <2>1. at' = at /\ at[w] = "running" /\ held' = [held EXCEPT ![w] = held[w] + 1]
        /\ (ceiling # 0 => held[w] < ceiling)
    BY <1>5 DEF Grow
  <2>2. ceiling # 0 => \A v \in Workers : held'[v] <= ceiling
    BY <1>2, <2>1 DEF Reserve
  <2>3. \A v \in Workers : at'[v] # "running" => held'[v] = 0
    BY <1>2, <2>1 DEF Reserve
  <2> QED BY <1>3, <2>2, <2>3
<1>6. ASSUME NEW w \in Workers, Finish(w) PROVE Reserve'
  <2>1. at' = [at EXCEPT ![w] = "ending"] /\ held' = [held EXCEPT ![w] = 0]
    BY <1>6 DEF Finish, Goto
  <2> QED BY <1>2, <1>3, <2>1 DEF Reserve
<1>7. CASE Cancel \/ Over \/ UNCHANGED vars
  BY <1>3, <1>7 DEF Cancel, Over, vars, Reserve
<1> QED BY <1>4, <1>5, <1>6, <1>7 DEF Next, WorkerStep

LEMMA ReserveFollows == TypeOK /\ Counts /\ Reserve => ReserveIsKept
<1> SUFFICES ASSUME TypeOK, Counts, Reserve, ceiling # 0, available >= (slots + 1) * Budget
             PROVE  AvailableBytes >= Budget
  BY DEF ReserveIsKept
<1> DEFINE R == WorkersAt(at, {"running"})
           n == Cardinality(R)
<1>1. held \in [Workers -> Nat] /\ ceiling \in Nat /\ slots \in Nat /\ available \in Nat
  BY DEF TypeOK
<1>2. R \in SUBSET Workers /\ \A w \in Workers : held[w] <= ceiling /\ (w \notin R => held[w] = 0)
  BY DEF Reserve, WorkersAt
<1>3. Sums(CHOOSE g : Sums(g, held), held)
  BY <1>1, SumExists
<1> HIDE DEF R
<1>4. InUse \in Nat /\ InUse <= n * ceiling
  <2> DEFINE g == CHOOSE g : Sums(g, held)
  <2>1. Sums(g, held)
    BY <1>3
  <2>2. InUse = g[Workers]
    BY InUseIsSum
  <2> HIDE DEF g
  <2>3. g[Workers] \in Nat /\ g[Workers] <= Cardinality(R) * ceiling
    BY <1>1, <1>2, <2>1, SumIsBounded
  <2> QED BY <2>2, <2>3
<1>5. n \in Nat /\ n <= slots
  <2>1. IsFiniteSet(WorkersAt(at, HasSlot)) /\ R \subseteq WorkersAt(at, HasSlot)
    BY FS_Subset, WorkersAssumption DEF R, WorkersAt, HasSlot
  <2>2. n \in Nat /\ n <= Cardinality(WorkersAt(at, HasSlot))
    BY <2>1, FS_Subset, FS_CardinalityType
  <2>3. sem \in Nat /\ sem <= slots /\ sem = Cardinality(WorkersAt(at, HasSlot))
    BY DEF Counts
  <2> HIDE DEF n
  <2> QED BY <1>1, <2>2, <2>3
<1> HIDE DEF n
<1>6. n * ceiling \in Nat /\ slots * ceiling \in Nat /\ n * ceiling <= slots * ceiling
  BY <1>1, <1>5
<1>7. slots * ceiling <= available - Budget
  BY DEF Reserve
<1>8. Budget \in Nat
  BY SizesAssumption
<1>9. InUse <= available - Budget
  BY <1>1, <1>4, <1>6, <1>7, <1>8
<1> QED BY <1>1, <1>4, <1>8, <1>9 DEF AvailableBytes

(* deriveCeiling: where the host could fund one budget more than the bound *)
(* admits, one budget stays free however many analyses run and however far *)
(* each of them grows under its ceiling.                                   *)
THEOREM ReserveStays == Spec => []ReserveIsKept
<1>1. Init => TypeOK /\ Counts /\ Reserve
  BY TypeInit, CountsInit, ReserveInit
<1>2. TypeOK /\ Counts /\ Reserve /\ [Next]_vars => (TypeOK /\ Counts /\ Reserve)'
  BY TypeNext, CountsNext, ReserveNext
<1>3. TypeOK /\ Counts /\ Reserve => ReserveIsKept
  BY ReserveFollows
<1> QED BY <1>1, <1>2, <1>3, PTL DEF Spec

-----------------------------------------------------------------------------
(* The gate with its subprocesses in view is the gate.                     *)

LEMMA ChildStepIsGateStep == [ChildNext]_allVars => [Next]_vars
<1> SUFFICES ASSUME [ChildNext]_allVars PROVE [Next]_vars
  OBVIOUS
<1>1. ASSUME NEW w \in Workers, GateStep(w) \/ GrowStep(w) \/ FinishStep(w) PROVE Next
  BY <1>1 DEF GateStep, GrowStep, FinishStep, Next, WorkerStep
<1>2. ASSUME NEW w \in Watched, Return(w) PROVE Next
  BY <1>2, WatchedAssumption DEF Return, Next, WorkerStep
<1>3. ASSUME NEW w \in Watched, Supervise(w) \/ Exit(w) \/ SeeSilence(w), ~Return(w)
      PROVE  UNCHANGED vars
  BY <1>3 DEF Supervise, Start, KillSilent, PassCeiling, killGroup, Wait, Classify, Exit, SeeSilence
<1> QED BY <1>1, <1>2, <1>3 DEF ChildNext, Next, allVars

(* Starting, watching, killing and reading a subprocess (RunBounded) does  *)
(* nothing to the gate but what an analysis that ends does to it.          *)
THEOREM ChildImplementsGate == ChildSpec => Spec
<1>1. ChildInit => Init
  BY DEF ChildInit
<1> QED BY <1>1, ChildStepIsGateStep, PTL DEF ChildSpec, Spec

(* So what the gate guarantees holds of the two together.                  *)
THEOREM GateHoldsWithChildren ==
    ChildSpec => [](TypeOK /\ CountsAreExact /\ ShortHostRunsOne /\ ReserveIsKept)
  BY ChildImplementsGate, TypeCorrect, GateCountsExact, ShortHostIsSerial, ReserveStays, PTL

-----------------------------------------------------------------------------
(* What the extraction is told of a subprocess.                            *)

(* What holds of one call at every step, under the context x.  A process   *)
(* that has not ended was not signalled; and whoever killed one left a     *)
(* trace that outlasts it: the watcher its flag, the deadline or the       *)
(* caller the state of a context.                                          *)
Sound(c, x) ==
    /\ c.proc \in {"none", "alive"} => c.end = "none" /\ ~c.reached
    /\ c.proc \in {"ended", "waited", "returned"} => c.end \in Ends
    /\ c.proc \in {"ended", "waited"} /\ c.end = "killed" =>
          c.watch # "watching" \/ c.late \/ x = "cancelled"
    /\ c.proc = "returned" => ToldTruly(c)

ChildInv ==
    /\ ctx \in {"live", "cancelled"}
    /\ child \in [Watched -> ChildType]
    /\ \A w \in Watched : Sound(child[w], ctx)

(* Every step of the gate leaves the context as it was, unless it is the   *)
(* cancellation.                                                           *)
LEMMA GateKeepsContext ==
    ASSUME NEW w \in Workers, Proceed(w) \/ AbandonPoll(w) \/ Grow(w) \/ Finish(w)
    PROVE  ctx' = ctx
  BY DEF Proceed, Arrive, TakeSlot, AbandonQueue, Claim, ReadHost, StartBeside, WaitForRoom,
         PollAgain, ReleaseSlot, AbandonPoll, Grow, Finish

(* A step that changes nothing of the subprocesses and can only end the    *)
(* context keeps the invariant.                                            *)
LEMMA ChildFrame ==
    ASSUME ChildInv, child' = child, ctx' = ctx \/ ctx' = "cancelled"
    PROVE  ChildInv'
  BY DEF ChildInv, Sound

(* One call moves: what it becomes decides.                                *)
LEMMA OneMoves ==
    ASSUME ChildInv, NEW w \in Watched, NEW c \in ChildType, Sound(c, ctx), ctx' = ctx,
           child' = [child EXCEPT ![w] = c]
    PROVE  ChildInv'
<1>1. child' \in [Watched -> ChildType]
  BY DEF ChildInv
<1>2. ASSUME NEW v \in Watched PROVE Sound(child'[v], ctx')
  <2>1. CASE v = w
    BY <2>1 DEF ChildInv
  <2>2. CASE v # w
    BY <2>2 DEF ChildInv
  <2> QED BY <2>1, <2>2
<1> QED BY <1>1, <1>2 DEF ChildInv

LEMMA ChildInitHolds == ChildInit => ChildInv
<1> SUFFICES ASSUME ChildInit PROVE ChildInv
  OBVIOUS
<1>1. NoChild \in ChildType /\ Sound(NoChild, ctx)
  BY DEF NoChild, ChildType, Sound
<1> QED BY <1>1 DEF ChildInit, Init, ChildInv

(* The classification, for a process whose end left its trace.             *)
LEMMA ClassifyIsTrue ==
    ASSUME ChildInv, NEW w \in Watched, Classify(w)
    PROVE  ChildInv'
<1> DEFINE stage(m) == IF m = "tampered" THEN "refused"
                       ELSE IF RunBounded(w) = "nil" \/ child[w].end = "partial" THEN "record"
                       ELSE errorDetail(w, m)
           told(m) == [NoChild EXCEPT !.proc = "returned", !.end = child[w].end,
                                      !.reached = child[w].reached, !.stage = stage(m)]
<1>1. PICK marker \in Markers :
        /\ marker # "none" => child[w].end = "fault"
        /\ child' = [child EXCEPT ![w] = told(marker)]
  BY DEF Classify
<1>2. child[w] \in ChildType /\ Sound(child[w], ctx) /\ child[w].proc = "waited" /\ ctx' = ctx
  BY DEF Classify, ChildInv, vars
<1>3. errorDetail(w, marker) \in {"not stored", "no progress", "too long", "cancelled",
                                  "memory ceiling", "ended by the system", "failed"}
  BY DEF errorDetail
<1>4. errorDetail(w, marker) = "ended by the system" =>
        /\ RunBounded(w) \notin {"ErrStalled", "ErrCeiling", "cancelledChild"}
        /\ child[w].end \in {"os", "killed"}
  BY DEF errorDetail
<1>5. child[w].end = "killed" => RunBounded(w) \in {"ErrStalled", "ErrCeiling", "cancelledChild"}
  BY <1>2 DEF RunBounded, runFailed, Sound, ChildInv
<1>6. RunBounded(w) = "nil" <=> child[w].end = "clean" /\ ~child[w].reached
  BY DEF RunBounded, runFailed
<1> HIDE DEF stage
<1>7. told(marker) \in ChildType
  <2>1. stage(marker) \in {"record", "refused", "not stored", "no progress", "too long", "cancelled",
                           "memory ceiling", "ended by the system", "failed"}
    BY <1>3 DEF stage
  <2> QED BY <1>2, <2>1 DEF NoChild, ChildType
<1>8. Sound(told(marker), ctx)
  <2>1. told(marker).proc = "returned" /\ told(marker).end = child[w].end
        /\ told(marker).reached = child[w].reached /\ told(marker).stage = stage(marker)
    BY DEF NoChild
  <2>2. child[w].end \in Ends
    BY <1>2 DEF Sound
  <2>3. stage(marker) = "ended by the system" => child[w].end = "os"
    BY <1>4, <1>5 DEF stage
  <2>4. child[w].end \in {"clean", "partial"} /\ ~child[w].reached => stage(marker) = "record"
    BY <1>1, <1>6 DEF stage
  <2>5. stage(marker) = "record" => child[w].end \in {"clean", "partial"}
    BY <1>3, <1>6 DEF stage
  <2> HIDE DEF told
  <2> QED BY <2>1, <2>2, <2>3, <2>4, <2>5 DEF Sound, ToldTruly
<1> HIDE DEF told
<1> QED BY <1>1, <1>2, <1>7, <1>8, OneMoves

LEMMA ChildStepHolds == ChildInv /\ [ChildNext]_allVars => ChildInv'
<1> SUFFICES ASSUME ChildInv, [ChildNext]_allVars PROVE ChildInv'
  OBVIOUS
<1>1. ASSUME NEW w \in Workers, GateStep(w) \/ GrowStep(w) \/ FinishStep(w) PROVE ChildInv'
  BY <1>1, GateKeepsContext, ChildFrame DEF GateStep, GrowStep, FinishStep
<1>2. CASE (Cancel \/ Over) /\ UNCHANGED child
  BY <1>2, ChildFrame DEF Cancel, Over, vars
<1>3. CASE UNCHANGED allVars
  BY <1>3, ChildFrame DEF allVars, vars
<1>4. ASSUME NEW w \in Watched, Classify(w) PROVE ChildInv'
  BY <1>4, ClassifyIsTrue
<1>5. ASSUME NEW w \in Watched, Supervise(w) \/ Exit(w) \/ SeeSilence(w), ~Classify(w) PROVE ChildInv'
  <2>1. child[w] \in ChildType /\ Sound(child[w], ctx)
    BY DEF ChildInv
  <2>2. CASE Return(w)
    <3>1. ctx' = ctx
      BY <2>2, WatchedAssumption, GateKeepsContext DEF Return
    <3>2. NoChild \in ChildType /\ Sound(NoChild, ctx)
      BY DEF NoChild, ChildType, Sound
    <3> QED BY <2>2, <3>1, <3>2, OneMoves DEF Return
  <2>3. CASE ~Return(w)
    <3>1. ctx' = ctx
      BY <1>5, <2>3 DEF Supervise, Start, Exit, SeeSilence, KillSilent, PassCeiling, killGroup,
                        Wait, vars
    <3>2. PICK c : /\ child' = [child EXCEPT ![w] = c]
                   /\ c \in ChildType /\ Sound(c, ctx)
      <4>1. CASE Start(w)
        <5>1. CASE child' = [child EXCEPT ![w].proc = "alive"]
          <6> DEFINE c == [child[w] EXCEPT !.proc = "alive"]
          <6>1. c \in ChildType /\ Sound(c, ctx)
            BY <2>1, <4>1 DEF Start, ChildType, Sound
          <6>2. child' = [child EXCEPT ![w] = c]
            BY <5>1
          <6> QED BY <6>1, <6>2
        <5>2. CASE child' = [child EXCEPT ![w].proc = "waited", ![w].end = "fault"]
          <6> DEFINE c == [child[w] EXCEPT !.proc = "waited", !.end = "fault"]
          <6>1. c \in ChildType /\ Sound(c, ctx)
            BY <2>1, <4>1 DEF Start, ChildType, Sound, Ends, OwnEnds
          <6>2. child' = [child EXCEPT ![w] = c]
            BY <5>2 DEF ChildInv
          <6> QED BY <6>1, <6>2
        <5> QED BY <4>1, <5>1, <5>2 DEF Start
      <4>2. CASE Exit(w)
        <5>1. PICK e \in OwnEnds : child' = [child EXCEPT ![w].proc = "ended", ![w].end = e]
          BY <4>2 DEF Exit
        <5> DEFINE c == [child[w] EXCEPT !.proc = "ended", !.end = e]
        <5>2. c \in ChildType /\ Sound(c, ctx)
          BY <2>1, <4>2 DEF Exit, ChildType, Sound, Ends, OwnEnds
        <5>3. child' = [child EXCEPT ![w] = c]
          BY <5>1 DEF ChildInv
        <5> QED BY <5>2, <5>3
      <4>3. CASE SeeSilence(w) \/ KillSilent(w)
        <5> DEFINE see == [child[w] EXCEPT !.watch = "decided"]
                   kill == [child[w] EXCEPT !.watch = "fired"]
        <5>1. see \in ChildType /\ kill \in ChildType
          BY <2>1 DEF ChildType
        <5>2. Sound(see, ctx) /\ Sound(kill, ctx)
          BY <2>1 DEF ChildType, Sound, ToldTruly
        <5>3. child' = [child EXCEPT ![w] = see] \/ child' = [child EXCEPT ![w] = kill]
          BY <4>3 DEF SeeSilence, KillSilent
        <5> QED BY <5>1, <5>2, <5>3
      <4>4. CASE PassCeiling(w)
        <5> DEFINE c == [child[w] EXCEPT !.late = TRUE]
        <5>1. c \in ChildType /\ Sound(c, ctx)
          BY <2>1 DEF ChildType, Sound, ToldTruly
        <5>2. child' = [child EXCEPT ![w] = c]
          BY <4>4 DEF PassCeiling
        <5> QED BY <5>1, <5>2
      <4>5. CASE killGroup(w) /\ child[w].proc = "alive"
        <5> DEFINE c == [child[w] EXCEPT !.reached = TRUE, !.proc = "ended", !.end = "killed"]
        <5>1. c \in ChildType /\ Sound(c, ctx)
          BY <2>1, <4>5 DEF killGroup, childCtxDone, ChildType, Sound, Ends
        <5>2. child' = [child EXCEPT ![w] = c]
          BY <4>5 DEF killGroup, ChildInv
        <5> QED BY <5>1, <5>2
      <4>6. CASE killGroup(w) /\ child[w].proc # "alive"
        <5> DEFINE c == [child[w] EXCEPT !.reached = TRUE]
        <5>1. c \in ChildType /\ Sound(c, ctx)
          BY <2>1, <4>6 DEF killGroup, ChildType, Sound
        <5>2. child' = [child EXCEPT ![w] = c]
          BY <4>6 DEF killGroup
        <5> QED BY <5>1, <5>2
      <4>7. CASE Wait(w)
        <5> DEFINE c == [child[w] EXCEPT !.proc = "waited"]
        <5>1. c \in ChildType /\ Sound(c, ctx)
          BY <2>1, <4>7 DEF Wait, ChildType, Sound
        <5>2. child' = [child EXCEPT ![w] = c]
          BY <4>7 DEF Wait
        <5> QED BY <5>1, <5>2
      <4> QED BY <1>5, <2>3, <4>1, <4>2, <4>3, <4>4, <4>5, <4>6, <4>7 DEF Supervise
    <3> QED BY <3>1, <3>2, OneMoves
  <2> QED BY <2>2, <2>3
<1> QED BY <1>1, <1>2, <1>3, <1>4, <1>5 DEF ChildNext

(* RunBounded and the stage built on it: an end this program brought about *)
(* is never blamed on the host's memory, and an analysis that finished     *)
(* before any signal reached it is never reported lost.                    *)
THEOREM EndReported == ChildSpec => []EndIsTrue
<1>1. ChildSpec => []ChildInv
  BY ChildInitHolds, ChildStepHolds, PTL DEF ChildSpec
<1>2. ChildInv => EndIsTrue
  BY DEF ChildInv, Sound, EndIsTrue
<1> QED BY <1>1, <1>2, PTL
=============================================================================
