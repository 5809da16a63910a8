-------------------------- MODULE ResolutionProofs --------------------------
(***************************************************************************)
(* How a walk's graph comes about: the single-flight wrapper its fetches   *)
(* go through, and the resolver that asks for them.                        *)
(*                                                                         *)
(* First part, for every set of callers, coordinates and records: the      *)
(* wrapper fetches each coordinate at most once, everybody is told the     *)
(* same outcome, and the wrapper implements FetchOnce.                     *)
(*                                                                         *)
(* Second part, for every world, pool and number of failures: the graph    *)
(* the resolver returns is the one version selection settles on, its edges *)
(* end at its nodes, what must be followed is, and the scope is fetched.   *)
(* A fold is reasoned about through its trace, the states it passes        *)
(* through element by element; a trace is built up, and a fact carried     *)
(* along it, by taking the least position at which it fails.               *)
(***************************************************************************)
EXTENDS RecordingFetcher, Resolver, FiniteSetTheorems, WellFoundedInduction, TLAPS

(* The callers between registering a lead and settling it.                 *)
Leading == {"start", "fetching", "settle", "escape"}
(* The callers between settling their lead and returning.                  *)
Settled == {"close", "closeEscaped", "report"}

(* A leader owns the in-flight entry of its coordinate, and nothing is     *)
(* recorded for it yet; it has called the inner fetcher iff it is past     *)
(* start, and never when a panic escaped before the call.                  *)
LeadersOwn ==
    \A p \in Callers : pc[p] \in Leading =>
        /\ inflight[coord[p]] = held[p]
        /\ held[p] # NoLead
        /\ outcomes[coord[p]] = Absent
        /\ pc[p] \in {"start", "escape"} => calls[coord[p]] = 0

(* Every in-flight entry is owned by a leader, so no two leaders share a   *)
(* coordinate once their leads differ.                                     *)
LeadsAreUnique ==
    \A p, q \in Callers :
        pc[p] \in Leading /\ pc[q] \in Leading /\ coord[p] = coord[q] => p = q

(* An open lead was allocated, is not closed, and belongs to one           *)
(* coordinate only.                                                        *)
LeadsAreOpen ==
    \A c \in Coords : inflight[c] # NoLead =>
        /\ inflight[c] <= leads
        /\ inflight[c] \notin closed
        /\ \A d \in Coords : inflight[d] = inflight[c] => d = c

(* Ownership of a lead that was settled but not closed yet.                *)
ClosersOwn ==
    \A p \in Callers : pc[p] \in {"close", "closeEscaped"} =>
        /\ held[p] # NoLead
        /\ held[p] <= leads
        /\ \A c \in Coords : inflight[c] # held[p]

(* Nothing fetched and nothing in flight: the inner fetcher was not called. *)
UnfetchedIsUncalled ==
    \A c \in Coords : outcomes[c] = Absent /\ inflight[c] = NoLead => calls[c] = 0

(* A waiter's lead is the coordinate's in-flight entry until the outcome   *)
(* is recorded.                                                            *)
WaitersFollow ==
    \A p \in Callers : pc[p] = "wait" =>
        \/ inflight[coord[p]] = held[p] /\ held[p] # NoLead
        \/ outcomes[coord[p]] # Absent

(* What a leader is about to return is what it recorded.                   *)
LeadersRecorded ==
    \A p \in Callers : pc[p] \in Settled => outcomes[coord[p]] = out[p]

ClosedAllocated == \A l \in closed : l <= leads

IInv ==
    /\ TypeOK
    /\ LeadersOwn
    /\ LeadsAreUnique
    /\ LeadsAreOpen
    /\ ClosersOwn
    /\ UnfetchedIsUncalled
    /\ WaitersFollow
    /\ LeadersRecorded
    /\ ClosedAllocated
    /\ FetchedAtMostOnce
    /\ CallersAgree

---------------------------------------------------------------------------
(* The three markers are told apart from every outcome by their err field. *)
LEMMA OutcomeFacts ==
    /\ Absent \notin Outcome
    /\ Interrupted \notin Outcome
    /\ Absent # Interrupted
    /\ ZeroOutcome \in Outcome
    /\ InnerResult \subseteq Outcome
BY DEF Absent, Interrupted, Outcome, ZeroOutcome, InnerResult

(* The number of recorded outcomes is a natural number.                    *)
LEMMA RecordedCount ==
    ASSUME NEW f
    PROVE  Cardinality({c \in Coords : f[c] # Absent}) \in Nat
<1>1. {c \in Coords : f[c] # Absent} \subseteq Coords
  OBVIOUS
<1>2. IsFiniteSet({c \in Coords : f[c] # Absent})
  BY <1>1, FS_Subset, CoordsAssumption
<1> QED BY <1>2, FS_CardinalityType

(* Init and Next preserve the types of the wrapper's state.                *)
LEMMA InitTypeOK == Init => TypeOK
<1> SUFFICES ASSUME Init PROVE TypeOK
  OBVIOUS
<1>1. /\ outcomes \in [Coords -> Outcome \cup {Absent}]
      /\ inflight \in [Coords -> Nat]
      /\ closed \subseteq Lead
      /\ leads \in Nat
      /\ calls \in [Coords -> Nat]
      /\ advanced \subseteq Nat
  BY DEF Init, NoLead
<1>2. /\ pc \in [Callers -> PC]
      /\ coord \in [Callers -> Coords]
      /\ held \in [Callers -> Nat]
      /\ done \in [Callers -> Nat]
  BY DEF Init, PC, NoLead
<1>3. /\ out \in [Callers -> Outcome]
      /\ returned \in [Callers -> Outcome \cup {Absent, Interrupted}]
      /\ stopped \in BOOLEAN
  BY OutcomeFacts DEF Init
<1> QED BY <1>1, <1>2, <1>3 DEF TypeOK

(* Every step of a caller keeps the types of the wrapper's state.          *)
LEMMA NextTypeOK == IInv /\ [Next]_vars => TypeOK'
<1> SUFFICES ASSUME IInv, TypeOK, [Next]_vars PROVE TypeOK'
  BY DEF IInv
<1> USE DEF TypeOK, PC, shared, locals, Goto
<1>1. ASSUME NEW p \in Callers, NEW c \in Coords, EnsureFetched(p, c) PROVE TypeOK'
  BY <1>1 DEF EnsureFetched
<1>2. ASSUME NEW p \in Callers, ReturnRecorded(p) PROVE TypeOK'
  BY <1>2, OutcomeFacts DEF ReturnRecorded, DropLocals, NoLead
<1>3. ASSUME NEW p \in Callers, JoinInflight(p) PROVE TypeOK'
  BY <1>3 DEF JoinInflight
<1>4. ASSUME NEW p \in Callers, BecomeLead(p) PROVE TypeOK'
  BY <1>4, OutcomeFacts DEF BecomeLead
<1>5. ASSUME NEW p \in Callers, WakeUp(p) PROVE TypeOK'
  BY <1>5 DEF WakeUp
<1>6. ASSUME NEW p \in Callers, AbandonWait(p) PROVE TypeOK'
  BY <1>6, OutcomeFacts DEF AbandonWait, DropLocals, NoLead
<1>7. ASSUME NEW p \in Callers, PanicEscapes(p) PROVE TypeOK'
  BY <1>7 DEF PanicEscapes
<1>8. ASSUME NEW p \in Callers, CallInner(p) PROVE TypeOK'
  BY <1>8 DEF CallInner
<1>9. ASSUME NEW p \in Callers, InnerReturns(p) PROVE TypeOK'
  BY <1>9, OutcomeFacts DEF InnerReturns
<1>10. ASSUME NEW p \in Callers, Settle(p) PROVE TypeOK'
  <2>1. Cardinality(Recorded') \in Nat
    BY RecordedCount DEF Recorded
  <2> QED BY <1>10, <2>1 DEF Settle, NoLead
<1>11. ASSUME NEW p \in Callers, CloseDone(p) PROVE TypeOK'
  BY <1>11 DEF CloseDone, IInv, ClosersOwn, Lead
<1>12. ASSUME NEW p \in Callers, ReportAndReturn(p) PROVE TypeOK'
  BY <1>12, OutcomeFacts DEF ReportAndReturn, DropLocals, NoLead
<1>13. ASSUME NEW p \in Callers, ReportPanics(p) PROVE TypeOK'
  BY <1>13 DEF ReportPanics
<1>14. CASE Stop
  BY <1>14 DEF Stop
<1>15. CASE UNCHANGED vars
  BY <1>15 DEF vars
<1> QED BY <1>1, <1>2, <1>3, <1>4, <1>5, <1>6, <1>7, <1>8, <1>9, <1>10,
           <1>11, <1>12, <1>13, <1>14, <1>15 DEF Next, Step

(* The invariant holds initially.                                          *)
LEMMA InitIInv == Init => IInv
<1> SUFFICES ASSUME Init PROVE IInv
  OBVIOUS
<1>1. TypeOK
  BY InitTypeOK
<1>2. /\ LeadersOwn /\ LeadsAreUnique /\ LeadsAreOpen /\ ClosersOwn
      /\ WaitersFollow /\ LeadersRecorded
  BY DEF Init, LeadersOwn, LeadsAreUnique, LeadsAreOpen, ClosersOwn,
         WaitersFollow, LeadersRecorded, Leading, Settled, NoLead
<1>3. UnfetchedIsUncalled /\ ClosedAllocated /\ FetchedAtMostOnce /\ CallersAgree
  BY DEF Init, UnfetchedIsUncalled, ClosedAllocated, FetchedAtMostOnce, CallersAgree
<1> QED BY <1>1, <1>2, <1>3 DEF IInv

(* Every step of the wrapper preserves the invariant.                      *)
LEMMA NextIInv == IInv /\ [Next]_vars => IInv'
<1> SUFFICES ASSUME IInv, [Next]_vars PROVE IInv'
  OBVIOUS
<1>0. TypeOK /\ TypeOK'
  BY NextTypeOK DEF IInv
<1> USE <1>0 DEF IInv, TypeOK, shared, locals, Goto, Leading, Settled, NoLead, Lead
<1>1. ASSUME NEW p \in Callers, NEW c \in Coords, EnsureFetched(p, c) PROVE IInv'
  <2> USE <1>1 DEF EnsureFetched
  <2>1. CallersAgree'
    BY DEF CallersAgree
  <2>2. /\ LeadersOwn' /\ LeadsAreUnique' /\ LeadsAreOpen'
        /\ ClosersOwn' /\ UnfetchedIsUncalled' /\ WaitersFollow'
        /\ LeadersRecorded' /\ ClosedAllocated' /\ FetchedAtMostOnce'
    BY DEF LeadersOwn, LeadsAreUnique, LeadsAreOpen, ClosersOwn,
           UnfetchedIsUncalled, WaitersFollow, LeadersRecorded,
           ClosedAllocated, FetchedAtMostOnce
  <2> QED BY <2>1, <2>2
<1>2. ASSUME NEW p \in Callers, ReturnRecorded(p) PROVE IInv'
  <2> USE <1>2 DEF ReturnRecorded, DropLocals
  <2>1. CallersAgree'
    BY DEF CallersAgree
  <2>2. /\ LeadersOwn' /\ LeadsAreUnique' /\ LeadsAreOpen'
        /\ ClosersOwn' /\ UnfetchedIsUncalled' /\ WaitersFollow'
        /\ LeadersRecorded' /\ ClosedAllocated' /\ FetchedAtMostOnce'
    BY DEF LeadersOwn, LeadsAreUnique, LeadsAreOpen, ClosersOwn,
           UnfetchedIsUncalled, WaitersFollow, LeadersRecorded,
           ClosedAllocated, FetchedAtMostOnce
  <2> QED BY <2>1, <2>2
<1>3. ASSUME NEW p \in Callers, JoinInflight(p) PROVE IInv'
  <2> USE <1>3 DEF JoinInflight
  <2>1. WaitersFollow'
    BY DEF WaitersFollow
  <2>2. /\ LeadersOwn' /\ LeadsAreUnique' /\ LeadsAreOpen'
        /\ ClosersOwn' /\ UnfetchedIsUncalled' /\ LeadersRecorded'
        /\ ClosedAllocated' /\ FetchedAtMostOnce' /\ CallersAgree'
    BY DEF LeadersOwn, LeadsAreUnique, LeadsAreOpen, ClosersOwn,
           UnfetchedIsUncalled, LeadersRecorded, ClosedAllocated,
           FetchedAtMostOnce, CallersAgree
  <2> QED BY <2>1, <2>2
<1>4. ASSUME NEW p \in Callers, BecomeLead(p) PROVE IInv'
  <2> USE <1>4 DEF BecomeLead
  <2>1. LeadersOwn'
    BY DEF LeadersOwn, UnfetchedIsUncalled
  <2>2. LeadsAreUnique'
    BY DEF LeadsAreUnique, LeadersOwn
  <2>3. LeadsAreOpen'
    BY DEF LeadsAreOpen, ClosedAllocated
  <2>4. /\ ClosersOwn' /\ UnfetchedIsUncalled' /\ WaitersFollow'
        /\ LeadersRecorded' /\ ClosedAllocated' /\ FetchedAtMostOnce'
        /\ CallersAgree'
    BY DEF ClosersOwn, UnfetchedIsUncalled, WaitersFollow, LeadersRecorded,
           ClosedAllocated, FetchedAtMostOnce, CallersAgree
  <2> QED BY <2>1, <2>2, <2>3, <2>4
<1>5. ASSUME NEW p \in Callers, WakeUp(p) PROVE IInv'
  BY <1>5 DEF WakeUp, LeadersOwn, LeadsAreUnique, LeadsAreOpen, ClosersOwn,
                      UnfetchedIsUncalled, WaitersFollow, LeadersRecorded,
                      ClosedAllocated, FetchedAtMostOnce, CallersAgree
<1>6. ASSUME NEW p \in Callers, AbandonWait(p) PROVE IInv'
  <2> USE <1>6 DEF AbandonWait, DropLocals
  <2>1. CallersAgree'
    BY DEF CallersAgree
  <2>2. /\ LeadersOwn' /\ LeadsAreUnique' /\ LeadsAreOpen'
        /\ ClosersOwn' /\ UnfetchedIsUncalled' /\ WaitersFollow'
        /\ LeadersRecorded' /\ ClosedAllocated' /\ FetchedAtMostOnce'
    BY DEF LeadersOwn, LeadsAreUnique, LeadsAreOpen, ClosersOwn,
           UnfetchedIsUncalled, WaitersFollow, LeadersRecorded,
           ClosedAllocated, FetchedAtMostOnce
  <2> QED BY <2>1, <2>2
<1>7. ASSUME NEW p \in Callers, PanicEscapes(p) PROVE IInv'
  BY <1>7 DEF PanicEscapes, LeadersOwn, LeadsAreUnique, LeadsAreOpen,
                            ClosersOwn, UnfetchedIsUncalled, WaitersFollow,
                            LeadersRecorded, ClosedAllocated,
                            FetchedAtMostOnce, CallersAgree
<1>8. ASSUME NEW p \in Callers, CallInner(p) PROVE IInv'
  <2> USE <1>8 DEF CallInner
  <2>1. LeadersOwn'
    BY DEF LeadersOwn, LeadsAreUnique
  <2>2. UnfetchedIsUncalled'
    BY DEF UnfetchedIsUncalled, LeadersOwn
  <2>3. FetchedAtMostOnce'
    BY DEF FetchedAtMostOnce, LeadersOwn
  <2>4. /\ LeadsAreUnique' /\ LeadsAreOpen' /\ ClosersOwn'
        /\ WaitersFollow' /\ LeadersRecorded' /\ ClosedAllocated'
        /\ CallersAgree'
    BY DEF LeadsAreUnique, LeadsAreOpen, ClosersOwn, WaitersFollow,
           LeadersRecorded, ClosedAllocated, CallersAgree
  <2> QED BY <2>1, <2>2, <2>3, <2>4
<1>9. ASSUME NEW p \in Callers, InnerReturns(p) PROVE IInv'
  BY <1>9 DEF InnerReturns, LeadersOwn, LeadsAreUnique, LeadsAreOpen,
                            ClosersOwn, UnfetchedIsUncalled, WaitersFollow,
                            LeadersRecorded, ClosedAllocated,
                            FetchedAtMostOnce, CallersAgree
<1>10. ASSUME NEW p \in Callers, Settle(p) PROVE IInv'
  <2> USE <1>10 DEF Settle
  <2>1. LeadersOwn'
    BY DEF LeadersOwn, LeadsAreUnique
  <2>2. LeadsAreOpen'
    BY DEF LeadsAreOpen
  <2>3. ClosersOwn'
    BY DEF ClosersOwn, LeadersOwn, LeadsAreOpen
  <2>4. UnfetchedIsUncalled'
    BY OutcomeFacts DEF UnfetchedIsUncalled
  <2>5. WaitersFollow'
    BY OutcomeFacts DEF WaitersFollow
  <2>6. LeadersRecorded'
    BY OutcomeFacts DEF LeadersRecorded, LeadersOwn
  <2>7. CallersAgree'
    BY DEF CallersAgree
  <2>8. /\ LeadsAreUnique' /\ ClosedAllocated' /\ FetchedAtMostOnce'
    BY DEF LeadsAreUnique, ClosedAllocated, FetchedAtMostOnce
  <2> QED BY <2>1, <2>2, <2>3, <2>4, <2>5, <2>6, <2>7, <2>8
<1>11. ASSUME NEW p \in Callers, CloseDone(p) PROVE IInv'
  <2> USE <1>11 DEF CloseDone
  <2>1. LeadsAreOpen'
    BY DEF LeadsAreOpen, ClosersOwn
  <2>2. ClosedAllocated'
    BY DEF ClosedAllocated, ClosersOwn
  <2>3. /\ LeadersOwn' /\ LeadsAreUnique' /\ ClosersOwn'
        /\ UnfetchedIsUncalled' /\ WaitersFollow' /\ LeadersRecorded'
        /\ FetchedAtMostOnce' /\ CallersAgree'
    BY DEF LeadersOwn, LeadsAreUnique, ClosersOwn, UnfetchedIsUncalled,
           WaitersFollow, LeadersRecorded, FetchedAtMostOnce, CallersAgree
  <2> QED BY <2>1, <2>2, <2>3
<1>12. ASSUME NEW p \in Callers, ReportAndReturn(p) PROVE IInv'
  <2> USE <1>12 DEF ReportAndReturn, DropLocals
  <2>1. CallersAgree'
    BY DEF CallersAgree, LeadersRecorded
  <2>2. /\ LeadersOwn' /\ LeadsAreUnique' /\ LeadsAreOpen'
        /\ ClosersOwn' /\ UnfetchedIsUncalled' /\ WaitersFollow'
        /\ LeadersRecorded' /\ ClosedAllocated' /\ FetchedAtMostOnce'
    BY DEF LeadersOwn, LeadsAreUnique, LeadsAreOpen, ClosersOwn,
           UnfetchedIsUncalled, WaitersFollow, LeadersRecorded,
           ClosedAllocated, FetchedAtMostOnce
  <2> QED BY <2>1, <2>2
<1>13. ASSUME NEW p \in Callers, ReportPanics(p) PROVE IInv'
  BY <1>13 DEF ReportPanics, LeadersOwn, LeadsAreUnique, LeadsAreOpen,
                             ClosersOwn, UnfetchedIsUncalled, WaitersFollow,
                             LeadersRecorded, ClosedAllocated,
                             FetchedAtMostOnce, CallersAgree
<1>14. CASE Stop
  BY <1>14 DEF Stop, LeadersOwn, LeadsAreUnique,
                                      LeadsAreOpen, ClosersOwn,
                                      UnfetchedIsUncalled, WaitersFollow,
                                      LeadersRecorded, ClosedAllocated,
                                      FetchedAtMostOnce, CallersAgree
<1>15. CASE UNCHANGED vars
  BY <1>15 DEF vars, LeadersOwn, LeadsAreUnique,
                                                LeadsAreOpen, ClosersOwn,
                                                UnfetchedIsUncalled,
                                                WaitersFollow,
                                                LeadersRecorded,
                                                ClosedAllocated,
                                                FetchedAtMostOnce,
                                                CallersAgree
<1> QED BY <1>1, <1>2, <1>3, <1>4, <1>5, <1>6, <1>7, <1>8, <1>9, <1>10,
           <1>11, <1>12, <1>13, <1>14, <1>15 DEF Next, Step

---------------------------------------------------------------------------
(* The invariant holds throughout every behaviour.                         *)
THEOREM Invariance == Spec => []IInv
<1>1. Init => IInv
  BY InitIInv
<1>2. IInv /\ [Next]_vars => IInv'
  BY NextIInv
<1> QED BY <1>1, <1>2, PTL DEF Spec

(* The wrapper's state keeps its types.                                    *)
THEOREM TypeCorrect == Spec => []TypeOK
<1>1. IInv => TypeOK
  BY DEF IInv
<1> QED BY <1>1, Invariance, PTL

(* However many tasks overlap on a coordinate, EnsureFetchedReplacing       *)
(* calls the inner fetcher for it at most once per walk.                   *)
THEOREM FetchedOnce == Spec => []FetchedAtMostOnce
<1>1. IInv => FetchedAtMostOnce
  BY DEF IInv
<1> QED BY <1>1, Invariance, PTL

(* Leader, waiters and late callers are all told the recorded outcome.     *)
THEOREM Agreement == Spec => []CallersAgree
<1>1. IInv => CallersAgree
  BY DEF IInv
<1> QED BY <1>1, Invariance, PTL

(* A waiter released by close(lead.done) finds an outcome to return.       *)
THEOREM WaitersFindOutcome == Spec => []ClosedMeansRecorded
<1>1. IInv => ClosedMeansRecorded
  BY DEF IInv, WaitersFollow, LeadsAreOpen, ClosedMeansRecorded, TypeOK
<1> QED BY <1>1, Invariance, PTL

(* settle never replaces an outcome that is already recorded.              *)
THEOREM Finality == Spec => OutcomesAreFinal
<1> DEFINE Final == \A c \in Coords : outcomes[c] # Absent => outcomes'[c] = outcomes[c]
<1>1. ASSUME IInv, [Next]_vars PROVE [Final]_vars
  <2>1. ASSUME NEW p \in Callers, Settle(p) PROVE Final
    BY <1>1, <2>1 DEF Settle, IInv, TypeOK
  <2>2. ASSUME UNCHANGED outcomes PROVE Final
    BY <2>2
  <2> QED BY <1>1, <2>1, <2>2 DEF Next, Step, vars, shared, EnsureFetched, ReturnRecorded,
             JoinInflight, BecomeLead, WakeUp, AbandonWait, PanicEscapes, CallInner,
             InnerReturns, CloseDone, ReportAndReturn, ReportPanics, Stop
<1> QED BY <1>1, Invariance, PTL DEF Spec, OutcomesAreFinal

(* The wrapper implements FetchOnce: recording an outcome decides it,      *)
(* returning tells it, and every other step is invisible.                  *)
THEOREM Refinement == Spec => ImplementsFetchOnce
<1>1. Init => Promise!Init
  BY DEF Init, Promise!Init
<1>2. ASSUME IInv, [Next]_vars PROVE [Promise!Next]_(Promise!vars)
  <2> DEFINE Asking == {p \in Callers : pc[p] # "idle"}
  <2> USE <1>2 DEF IInv, TypeOK, shared, locals, Goto, Promise!vars
  <2>1. ASSUME NEW p \in Callers, NEW c \in Coords, EnsureFetched(p, c)
        PROVE  Promise!Ask(p, c)
    BY <2>1 DEF EnsureFetched, Promise!Ask
  <2>2. ASSUME NEW p \in Callers, ReturnRecorded(p) PROVE Promise!Tell(p)
    BY <2>2 DEF ReturnRecorded, DropLocals, Promise!Tell
  <2>3. ASSUME NEW p \in Callers, AbandonWait(p) PROVE Promise!GiveUp(p)
    BY <2>3 DEF AbandonWait, DropLocals, Promise!GiveUp
  <2>4. ASSUME NEW p \in Callers, Settle(p) PROVE Promise!Decide(coord[p])
    <3>1. outcomes[coord[p]] = Absent
      BY <2>4 DEF Settle, LeadersOwn, Leading
    <3>2. outcomes' = [outcomes EXCEPT ![coord[p]] = out[p]]
      BY <2>4, <3>1 DEF Settle
    <3>3. Asking' = Asking
      BY <2>4 DEF Settle
    <3> QED BY <2>4, <3>1, <3>2, <3>3 DEF Settle, Promise!Decide
  <2>5. ASSUME NEW p \in Callers, ReportAndReturn(p) PROVE Promise!Tell(p)
    <3>1. outcomes[coord[p]] = out[p] /\ out[p] # Absent
      BY <2>5, OutcomeFacts DEF ReportAndReturn, DropLocals, LeadersRecorded, Settled
    <3> QED BY <2>5, <3>1 DEF ReportAndReturn, DropLocals, Promise!Tell
  <2>6. ASSUME Stop PROVE Promise!BeginStop
    BY <2>6 DEF Stop, Promise!BeginStop
  <2>7. ASSUME NEW p \in Callers,
               \/ JoinInflight(p) \/ BecomeLead(p) \/ WakeUp(p) \/ PanicEscapes(p)
               \/ CallInner(p) \/ InnerReturns(p) \/ CloseDone(p) \/ ReportPanics(p)
        PROVE  UNCHANGED Promise!vars
    <3>1. Asking' = Asking
      BY <2>7 DEF JoinInflight, BecomeLead, WakeUp, PanicEscapes, CallInner,
                  InnerReturns, CloseDone, ReportPanics
    <3>2. UNCHANGED <<outcomes, coord, returned, stopped>>
      BY <2>7 DEF JoinInflight, BecomeLead, WakeUp, PanicEscapes, CallInner,
                  InnerReturns, CloseDone, ReportPanics
    <3> QED BY <3>1, <3>2
  <2>8. ASSUME UNCHANGED vars PROVE UNCHANGED Promise!vars
    BY <2>8 DEF vars
  <2>9. \A p \in Callers : coord[p] \in Coords
    OBVIOUS
  <2> HIDE DEF IInv, TypeOK, shared, locals, Goto, Promise!vars
  <2> QED BY <2>1, <2>2, <2>3, <2>4, <2>5, <2>6, <2>7, <2>8, <2>9
          DEF Next, Step, Promise!Next
<1> QED BY <1>1, <1>2, Invariance, PTL DEF Spec, ImplementsFetchOnce, Promise!Spec

---------------------------------------------------------------------------
(* Running totals.  A total is the number of recorded outcomes at the      *)
(* moment one more was recorded, so it is above every total taken before.  *)

Counted == {"close", "report"}

TotalsAreTaken ==
    /\ \A a \in advanced : a <= Cardinality(Recorded)
    /\ \A p \in Callers : pc[p] \in Counted =>
          /\ done[p] <= Cardinality(Recorded)
          /\ done[p] \notin advanced
          /\ \A q \in Callers \ {p} : pc[q] \in Counted => done[q] # done[p]

(* Recording one more outcome makes the total one larger.                  *)
LEMMA SettleCounts ==
    ASSUME IInv, NEW p \in Callers, Settle(p)
    PROVE  Cardinality(Recorded') = Cardinality(Recorded) + 1
<1>1. outcomes[coord[p]] = Absent /\ coord[p] \in Coords /\ out[p] # Absent
  BY OutcomeFacts DEF IInv, TypeOK, LeadersOwn, Leading, Settle
<1>2. Recorded' = Recorded \cup {coord[p]} /\ coord[p] \notin Recorded
  BY <1>1 DEF Recorded, Settle, IInv, TypeOK
<1>3. IsFiniteSet(Recorded)
  <2>1. Recorded \subseteq Coords
    BY DEF Recorded
  <2> QED BY <2>1, FS_Subset, CoordsAssumption
<1> QED BY <1>2, <1>3, FS_AddElement

(* A total handed to progress.Advance never exceeds what is recorded.      *)
LEMMA TotalsStep == IInv /\ TotalsAreTaken /\ [Next]_vars => TotalsAreTaken'
<1> SUFFICES ASSUME IInv, TotalsAreTaken, [Next]_vars PROVE TotalsAreTaken'
  OBVIOUS
<1>0. TypeOK /\ Cardinality(Recorded) \in Nat
  BY RecordedCount DEF IInv, Recorded
<1>1. ASSUME NEW p \in Callers, Settle(p) PROVE TotalsAreTaken'
  <2>1. Cardinality(Recorded') = Cardinality(Recorded) + 1
    BY <1>1, SettleCounts
  <2>2. /\ done' = [done EXCEPT ![p] = Cardinality(Recorded) + 1]
        /\ pc' = [pc EXCEPT ![p] = IF pc[p] = "settle" THEN "close" ELSE "closeEscaped"]
        /\ advanced' = advanced
    BY <1>1, <2>1 DEF Settle, Goto
  <2>3. \A a \in advanced : a <= Cardinality(Recorded) /\ a \in Nat
    BY <1>0 DEF TotalsAreTaken, TypeOK
  <2>4. \A q \in Callers : done[q] \in Nat
    BY <1>0 DEF TypeOK
  <2>5. \A a \in advanced' : a <= Cardinality(Recorded')
    BY <1>0, <2>1, <2>2, <2>3
  <2>6. ASSUME NEW q \in Callers, pc'[q] \in Counted
        PROVE  /\ done'[q] <= Cardinality(Recorded') /\ done'[q] \notin advanced'
               /\ \A r \in Callers \ {q} : pc'[r] \in Counted => done'[r] # done'[q]
    <3>1. CASE q = p
      BY <3>1, <1>0, <2>1, <2>2, <2>3, <2>4 DEF TotalsAreTaken, TypeOK
    <3>2. CASE q # p
      BY <3>2, <1>0, <2>1, <2>2, <2>4, <2>6 DEF TotalsAreTaken, TypeOK
    <3> QED BY <3>1, <3>2
  <2> QED BY <2>5, <2>6 DEF TotalsAreTaken
<1>2. ASSUME NEW p \in Callers, CloseDone(p) PROVE TotalsAreTaken'
  BY <1>0, <1>2 DEF CloseDone, Goto, locals, TotalsAreTaken, Counted, Recorded, TypeOK
<1>3. ASSUME NEW p \in Callers, ReportAndReturn(p) PROVE TotalsAreTaken'
  BY <1>0, <1>3 DEF ReportAndReturn, DropLocals, Goto, shared, TotalsAreTaken, Counted, Recorded, TypeOK
<1>4. ASSUME NEW p \in Callers, NEW c \in Coords, EnsureFetched(p, c) PROVE TotalsAreTaken'
  BY <1>0, <1>4 DEF EnsureFetched, Goto, shared, TotalsAreTaken, Counted, Recorded, TypeOK
<1>5. ASSUME NEW p \in Callers,
             ReturnRecorded(p) \/ JoinInflight(p) \/ AbandonWait(p) \/ BecomeLead(p) \/ InnerReturns(p)
      PROVE  TotalsAreTaken'
  <2>1. outcomes' = outcomes /\ advanced' = advanced
    BY <1>5 DEF ReturnRecorded, JoinInflight, AbandonWait, BecomeLead, InnerReturns, shared
  <2>2. Recorded' = Recorded
    BY <2>1 DEF Recorded
  <2>3. \A q \in Callers : pc'[q] \in Counted => pc[q] \in Counted /\ done'[q] = done[q]
    BY <1>0, <1>5 DEF ReturnRecorded, DropLocals, JoinInflight, AbandonWait, BecomeLead, InnerReturns, Goto,
                      Counted, TypeOK
  <2> QED BY <2>1, <2>2, <2>3 DEF TotalsAreTaken
<1>6. ASSUME NEW p \in Callers,
             WakeUp(p) \/ PanicEscapes(p) \/ CallInner(p) \/ ReportPanics(p)
      PROVE  TotalsAreTaken'
  <2>1. outcomes' = outcomes /\ advanced' = advanced
    BY <1>6 DEF WakeUp, PanicEscapes, CallInner, ReportPanics, shared
  <2>2. Recorded' = Recorded
    BY <2>1 DEF Recorded
  <2>3. \A q \in Callers : pc'[q] \in Counted => pc[q] \in Counted /\ done'[q] = done[q]
    BY <1>0, <1>6 DEF WakeUp, PanicEscapes, CallInner, ReportPanics, Goto, locals, Counted, TypeOK
  <2> QED BY <2>1, <2>2, <2>3 DEF TotalsAreTaken
<1>7. CASE Stop \/ UNCHANGED vars
  BY <1>7 DEF Stop, vars, shared, locals, TotalsAreTaken, Counted, Recorded
<1> QED BY <1>1, <1>2, <1>3, <1>4, <1>5, <1>6, <1>7 DEF Next, Step

(* However reports overtake one another once the lock is released, no two  *)
(* fetched modules report the same running total (settle, progress).       *)
THEOREM TotalsDistinct == Spec => []TotalsAreDistinct
<1>1. Init => TotalsAreTaken
  BY DEF Init, TotalsAreTaken, Counted
<1>2. TotalsAreTaken => TotalsAreDistinct
  BY DEF TotalsAreTaken, TotalsAreDistinct, Counted
<1> QED BY <1>1, <1>2, TotalsStep, Invariance, PTL DEF Spec

(* EnsureFetchedReplacing is single-flight for any callers and coordinates. *)
THEOREM SingleFlightHolds == Spec => []SingleFlight
<1>1. FetchedAtMostOnce /\ CallersAgree /\ ClosedMeansRecorded /\ TotalsAreDistinct
        => SingleFlight
  BY DEF SingleFlight
<1> QED BY <1>1, FetchedOnce, Agreement, WaitersFindOutcome, TotalsDistinct, PTL

---------------------------------------------------------------------------
(* A set of numbers that is not empty has a least one.                     *)
LEMMA LeastNat ==
    ASSUME NEW S, S \subseteq Nat, S # {}
    PROVE  \E m \in S : \A n \in S : m <= n
<1>1. \E m \in S : \A n \in S : ~(<<n, m>> \in OpToRel(<, Nat))
  BY WFMin, NatLessThanWellFounded
<1>2. PICK m \in S : \A n \in S : ~(n < m)
  BY <1>1 DEF OpToRel
<1>3. \A n \in S : m <= n
  BY <1>2
<1> QED BY <1>3

(* What holds at 0 and is handed on by each step holds at every number up  *)
(* to n.                                                                   *)
LEMMA CountUp ==
    ASSUME NEW n \in Nat, NEW S, 0 \in S, \A k \in 1..n : k - 1 \in S => k \in S
    PROVE  \A k \in 0..n : k \in S
<1> DEFINE Bad == {k \in 0..n : k \notin S}
<1> SUFFICES ASSUME Bad # {} PROVE FALSE
  OBVIOUS
<1>1. Bad \subseteq Nat
  OBVIOUS
<1>2. PICK m \in Bad : \A k \in Bad : m <= k
  <2> HIDE DEF Bad
  <2> QED BY <1>1, LeastNat
<1>3. m \in 1..n /\ m - 1 \in 0..n /\ m - 1 \notin Bad
  BY <1>2
<1> QED BY <1>2, <1>3

---------------------------------------------------------------------------
(* FoldLeft takes the elements of a sequence out of its domain, the last   *)
(* one first.                                                              *)
LEMMA MaxOfSome ==
    ASSUME NEW n \in Nat, NEW s, s \subseteq 1..n, s # {}
    PROVE  /\ Max(s) \in s /\ Max(s) \in 1..n
           /\ s \ {Max(s)} \subseteq 1..(Max(s) - 1)
<1> DEFINE T == {k \in 0..n : \A y \in s : y <= k}
<1>1. T \subseteq Nat /\ n \in T
  OBVIOUS
<1>2. PICK m \in T : \A k \in T : m <= k
  <2> HIDE DEF T
  <2> QED BY <1>1, LeastNat
<1>3. m \in s
  <2> SUFFICES ASSUME m \notin s PROVE FALSE
    OBVIOUS
  <2>1. PICK y \in s : y \in 1..n
    OBVIOUS
  <2>2. m \in 1..n
    BY <1>2, <2>1
  <2>3. m - 1 \in T
    BY <2>2, <1>2
  <2> QED BY <1>2, <2>2, <2>3
<1>4. Max(s) \in s /\ \A y \in s : Max(s) >= y
  BY <1>2, <1>3 DEF Max
<1>5. Max(s) \in 1..n
  BY <1>4
<1> DEFINE x == Max(s)
<1>6. x \in 1..n /\ \A y \in s : y \in 1..n /\ y <= x
  BY <1>4, <1>5
<1> HIDE DEF x
<1>7. s \ {x} \subseteq 1..(x - 1)
  BY <1>6
<1> QED BY <1>4, <1>5, <1>7 DEF x

(* The last position of a prefix, and what is left without it.             *)
LEMMA MaxOfAll ==
    ASSUME NEW k \in Nat, k # 0
    PROVE  Max(1..k) = k /\ (1..k) \ {k} = 1..(k - 1) /\ 1..k # {}
<1>1. 1..k # {} /\ k \in 1..k
  OBVIOUS
<1>2. Max(1..k) \in 1..k /\ (1..k) \ {Max(1..k)} \subseteq 1..(Max(1..k) - 1)
  <2> DEFINE s == 1..k
  <2>1. s \subseteq 1..k /\ s # {}
    BY <1>1
  <2> HIDE DEF s
  <2>2. Max(s) \in 1..k /\ s \ {Max(s)} \subseteq 1..(Max(s) - 1)
    BY <2>1, MaxOfSome
  <2> QED BY <2>2 DEF s
<1>3. Max(1..k) = k
  <2> SUFFICES ASSUME Max(1..k) # k PROVE FALSE
    OBVIOUS
  <2>1. k \in 1..(Max(1..k) - 1)
    BY <1>1, <1>2
  <2> QED BY <1>2, <2>1
<1> QED BY <1>1, <1>3

(* A non-empty set of positions of a sequence has a last one, and it holds *)
(* an element.                                                             *)
LEMMA SomeOfSeq ==
    ASSUME NEW E, NEW q \in Seq(E), NEW s \in SUBSET DOMAIN q, s # {}
    PROVE  q[Max(s)] \in E /\ s \ {Max(s)} \in SUBSET DOMAIN q /\ Max(s) \in DOMAIN q
<1>1. DOMAIN q = 1..Len(q) /\ Len(q) \in Nat
  OBVIOUS
<1>2. Max(s) \in 1..Len(q)
  BY <1>1, MaxOfSome
<1> QED BY <1>1, <1>2

(* g folds the step f over every set of positions of q.                    *)
FoldsBy(g, f, b, q, St) ==
    /\ g \in [SUBSET DOMAIN q -> St]
    /\ \A s \in SUBSET DOMAIN q :
         g[s] = IF s = {} THEN b ELSE f[<<g[s \ {Max(s)}], q[Max(s)]>>]

(* There is a function that folds any typed step over any sequence.        *)
LEMMA FoldExists ==
    ASSUME NEW St, NEW E, NEW b \in St, NEW q \in Seq(E), NEW f \in [St \X E -> St]
    PROVE  \E g : FoldsBy(g, f, b, q, St)
<1> DEFINE n == Len(q)
           Folds(g, k) ==
             /\ g \in [SUBSET (1..k) -> St]
             /\ \A s \in SUBSET (1..k) :
                  g[s] = IF s = {} THEN b ELSE f[<<g[s \ {Max(s)}], q[Max(s)]>>]
           Good == {k \in 0..n : \E g : Folds(g, k)}
<1>1. n \in Nat /\ DOMAIN q = 1..n /\ \A i \in 1..n : q[i] \in E
  OBVIOUS
<1>2. 0 \in Good
  <2> DEFINE g == [s \in SUBSET (1..0) |-> b]
  <2>1. \A s \in SUBSET (1..0) : s = {}
    OBVIOUS
  <2>2. Folds(g, 0)
    BY <2>1
  <2> HIDE DEF g, Folds
  <2> QED BY <2>2, <1>1
<1>3. ASSUME NEW k \in 1..n, k - 1 \in Good PROVE k \in Good
  <2>1. PICK g : Folds(g, k - 1)
    BY <1>3
  <2> DEFINE h == [s \in SUBSET (1..k) |->
                     IF s = {} THEN b ELSE f[<<g[s \ {Max(s)}], q[Max(s)]>>]]
  <2>2. ASSUME NEW s \in SUBSET (1..k), s # {}
        PROVE  /\ s \ {Max(s)} \in SUBSET (1..(k - 1))
               /\ s \ {Max(s)} \in SUBSET (1..k) /\ Max(s) \in 1..n
    <3>1. Max(s) \in 1..k /\ s \ {Max(s)} \in SUBSET (1..(Max(s) - 1))
      <4>1. k \in Nat
        BY <1>1
      <4> HIDE DEF n
      <4> QED BY <2>2, <4>1, MaxOfSome
    <3> QED BY <1>1, <3>1
  <2>3. ASSUME NEW s \in SUBSET (1..k), s # {}
        PROVE  f[<<g[s \ {Max(s)}], q[Max(s)]>>] \in St
    BY <1>1, <2>1, <2>2, <2>3
  <2>4. h \in [SUBSET (1..k) -> St]
    BY <2>3
  <2>5. \A s \in SUBSET (1..(k - 1)) : s \in SUBSET (1..k)
    BY <1>1
  <2>6. ASSUME NEW s \in SUBSET (1..(k - 1)) PROVE h[s] = g[s]
    BY <2>1, <2>5
  <2>7. ASSUME NEW s \in SUBSET (1..k), s # {}
        PROVE  h[s] = f[<<h[s \ {Max(s)}], q[Max(s)]>>]
    <3>1. h[s] = f[<<g[s \ {Max(s)}], q[Max(s)]>>]
      BY <2>7
    <3>2. h[s \ {Max(s)}] = g[s \ {Max(s)}]
      BY <2>2, <2>6, <2>7
    <3> HIDE DEF h
    <3> QED BY <3>1, <3>2
  <2>8. h[{}] = b
    OBVIOUS
  <2> HIDE DEF h
  <2>9. Folds(h, k)
    BY <2>4, <2>7, <2>8
  <2> HIDE DEF Folds
  <2> QED BY <1>1, <2>9
<1> HIDE DEF Good
<1>4. n \in Good
  <2>1. \A k \in 0..n : k \in Good
    <3> HIDE DEF n
    <3> QED BY <1>1, <1>2, <1>3, CountUp
  <2> QED BY <1>1, <2>1
<1> QED BY <1>1, <1>4 DEF Good, FoldsBy

(* A trace of the step f from b along q, which h folds.                    *)
TraceOf(tr, f, b, q, St) ==
    /\ tr \in [0..Len(q) -> St] /\ tr[0] = b
    /\ \A k \in 1..Len(q) : tr[k] = f[<<tr[k - 1], q[k]>>]

Traced(h, f, b, q, St) ==
    \E tr : TraceOf(tr, f, b, q, St) /\ tr[Len(q)] = h[DOMAIN q]

Refolds(h, f, b, q, St) ==
    /\ h[{}] = b
    /\ \A s \in SUBSET DOMAIN q : s # {} /\ h[s \ {Max(s)}] \in St =>
         h[s] = f[<<h[s \ {Max(s)}], q[Max(s)]>>]

(* Whatever folds that step has passed, after the first k elements, through *)
(* the states of a trace.                                                  *)
LEMMA FoldTrace ==
    ASSUME NEW St, NEW E, NEW b \in St, NEW q \in Seq(E), NEW f \in [St \X E -> St],
           NEW h, Refolds(h, f, b, q, St)
    PROVE  Traced(h, f, b, q, St)
<1> DEFINE n == Len(q)
           Good == {k \in 0..n : h[1..k] \in St}
           tr == [k \in 0..n |-> h[1..k]]
<1>1. n \in Nat /\ DOMAIN q = 1..n /\ 1..0 = {} /\ \A i \in 1..n : q[i] \in E
  OBVIOUS
<1>2. ASSUME NEW k \in 1..n, h[1..(k - 1)] \in St
      PROVE  h[1..k] = f[<<h[1..(k - 1)], q[k]>>] /\ h[1..k] \in St
  <2>1. Max(1..k) = k /\ (1..k) \ {k} = 1..(k - 1) /\ 1..k # {}
    <3>1. k \in Nat /\ k # 0
      BY <1>1
    <3> HIDE DEF n
    <3> QED BY <3>1, MaxOfAll
  <2>2. 1..k \in SUBSET DOMAIN q
    BY <1>1
  <2> QED BY <1>1, <1>2, <2>1, <2>2 DEF Refolds
<1>3. 0 \in Good
  BY <1>1 DEF Refolds
<1>4. \A k \in 0..n : k \in Good
  <2>1. ASSUME NEW k \in 1..n, k - 1 \in Good PROVE k \in Good
    <3>1. k \in 0..n /\ h[1..(k - 1)] \in St
      BY <1>1, <2>1
    <3> QED BY <1>2, <3>1
  <2> HIDE DEF n, Good
  <2> QED BY <1>1, <1>3, <2>1, CountUp
<1>5. tr \in [0..n -> St]
  BY <1>4
<1>6. tr[0] = b /\ tr[n] = h[DOMAIN q]
  BY <1>1 DEF Refolds
<1>7. \A k \in 1..n : tr[k] = f[<<tr[k - 1], q[k]>>]
  BY <1>1, <1>2, <1>4
<1> QED BY <1>5, <1>6, <1>7 DEF TraceOf, Traced

(* The folds of the model, for any set of states its step stays in.        *)
seeds(b, q) == FoldLeft(seedDirectDep, b, q)
SeedClosed(St, E) == \A t \in St, e \in E : seedDirectDep(t, e) \in St

SeedTraced(St, b, q) ==
    \E tr \in [0..Len(q) -> St] :
        /\ tr[0] = b /\ tr[Len(q)] = seeds(b, q)
        /\ \A k \in 1..Len(q) : tr[k] = seedDirectDep(tr[k - 1], q[k])

(* seedDirectDeps passes through a trace of seedDirectDep.                 *)
LEMMA SeedTrace ==
    ASSUME NEW St, NEW E, NEW b \in St, NEW q \in Seq(E), SeedClosed(St, E)
    PROVE  SeedTraced(St, b, q)
<1> DEFINE f == [x \in St \X E |-> seedDirectDep(x[1], x[2])]
           Is(g) == g = [s \in SUBSET DOMAIN q |->
                           IF s = {} THEN b ELSE seedDirectDep(g[s \ {Max(s)}], q[Max(s)])]
           h == CHOOSE g : Is(g)
<1>1. f \in [St \X E -> St] /\ \A t \in St, e \in E : f[<<t, e>>] = seedDirectDep(t, e)
  BY DEF SeedClosed
<1>2. \A s \in SUBSET DOMAIN q : s # {} => q[Max(s)] \in E /\ s \ {Max(s)} \in SUBSET DOMAIN q
  BY SomeOfSeq
<1> HIDE DEF f
<1>3. PICK g : FoldsBy(g, f, b, q, St)
  BY <1>1, FoldExists
<1>4. Is(g)
  BY <1>1, <1>2, <1>3 DEF FoldsBy
<1>5. Is(h)
  BY <1>4
<1>6. seeds(b, q) = h[DOMAIN q]
  BY DEF seeds, FoldLeft, MapThenFoldSet
<1> HIDE DEF h
<1>7. Refolds(h, f, b, q, St)
  <2>1. h[{}] = b
    BY <1>5
  <2>2. ASSUME NEW s \in SUBSET DOMAIN q, s # {}, h[s \ {Max(s)}] \in St
        PROVE  h[s] = f[<<h[s \ {Max(s)}], q[Max(s)]>>]
    <3>1. q[Max(s)] \in E
      BY <1>2, <2>2
    <3>2. h[s] = seedDirectDep(h[s \ {Max(s)}], q[Max(s)])
      BY <1>5, <2>2
    <3> HIDE DEF Is
    <3> QED BY <1>1, <2>2, <3>1, <3>2
  <2> QED BY <2>1, <2>2 DEF Refolds
<1> HIDE DEF Is
<1>8. PICK tr : TraceOf(tr, f, b, q, St) /\ tr[Len(q)] = h[DOMAIN q]
  <2>1. Traced(h, f, b, q, St)
    BY <1>1, <1>7, FoldTrace
  <2> QED BY <2>1 DEF Traced
<1>9. \A k \in 1..Len(q) : tr[k] = seedDirectDep(tr[k - 1], q[k])
  <2>1. \A k \in 1..Len(q) : tr[k - 1] \in St /\ q[k] \in E
    BY <1>8 DEF TraceOf
  <2> QED BY <1>1, <1>8, <2>1 DEF TraceOf
<1> QED BY <1>6, <1>8, <1>9 DEF TraceOf, SeedTraced

places(s0, b, q) == FoldLeft(LAMBDA acc, item : place(s0, acc, item), b, q)
PlaceClosed(s0, St, E) == \A t \in St, e \in E : place(s0, t, e) \in St

PlaceTraced(s0, St, b, q) ==
    \E tr \in [0..Len(q) -> St] :
        /\ tr[0] = b /\ tr[Len(q)] = places(s0, b, q)
        /\ \A k \in 1..Len(q) : tr[k] = place(s0, tr[k - 1], q[k])

(* partitionWave passes through a trace of place.                          *)
LEMMA PlaceTrace ==
    ASSUME NEW St, NEW E, NEW b \in St, NEW q \in Seq(E), NEW s0, PlaceClosed(s0, St, E)
    PROVE  PlaceTraced(s0, St, b, q)
<1> DEFINE f == [x \in St \X E |-> place(s0, x[1], x[2])]
           Is(g) == g = [s \in SUBSET DOMAIN q |->
                           IF s = {} THEN b ELSE place(s0, g[s \ {Max(s)}], q[Max(s)])]
           h == CHOOSE g : Is(g)
<1>1. f \in [St \X E -> St] /\ \A t \in St, e \in E : f[<<t, e>>] = place(s0, t, e)
  BY DEF PlaceClosed
<1>2. \A s \in SUBSET DOMAIN q : s # {} => q[Max(s)] \in E /\ s \ {Max(s)} \in SUBSET DOMAIN q
  BY SomeOfSeq
<1> HIDE DEF f
<1>3. PICK g : FoldsBy(g, f, b, q, St)
  BY <1>1, FoldExists
<1>4. Is(g)
  BY <1>1, <1>2, <1>3 DEF FoldsBy
<1>5. Is(h)
  BY <1>4
<1>6. places(s0, b, q) = h[DOMAIN q]
  BY DEF places, FoldLeft, MapThenFoldSet
<1> HIDE DEF h
<1>7. Refolds(h, f, b, q, St)
  <2>1. h[{}] = b
    BY <1>5
  <2>2. ASSUME NEW s \in SUBSET DOMAIN q, s # {}, h[s \ {Max(s)}] \in St
        PROVE  h[s] = f[<<h[s \ {Max(s)}], q[Max(s)]>>]
    <3>1. q[Max(s)] \in E
      BY <1>2, <2>2
    <3>2. h[s] = place(s0, h[s \ {Max(s)}], q[Max(s)])
      BY <1>5, <2>2
    <3> HIDE DEF Is
    <3> QED BY <1>1, <2>2, <3>1, <3>2
  <2> QED BY <2>1, <2>2 DEF Refolds
<1> HIDE DEF Is
<1>8. PICK tr : TraceOf(tr, f, b, q, St) /\ tr[Len(q)] = h[DOMAIN q]
  <2>1. Traced(h, f, b, q, St)
    BY <1>1, <1>7, FoldTrace
  <2> QED BY <2>1 DEF Traced
<1>9. \A k \in 1..Len(q) : tr[k] = place(s0, tr[k - 1], q[k])
  <2>1. \A k \in 1..Len(q) : tr[k - 1] \in St /\ q[k] \in E
    BY <1>8 DEF TraceOf
  <2> QED BY <1>1, <1>8, <2>1 DEF TraceOf
<1> QED BY <1>6, <1>8, <1>9 DEF TraceOf, PlaceTraced

expands(b, q) == FoldLeft(expandModule, b, q)
ExpandClosed(St, E) == \A t \in St, e \in E : expandModule(t, e) \in St

ExpandTraced(St, b, q) ==
    \E tr \in [0..Len(q) -> St] :
        /\ tr[0] = b /\ tr[Len(q)] = expands(b, q)
        /\ \A k \in 1..Len(q) : tr[k] = expandModule(tr[k - 1], q[k])

(* A level's expansions pass through a trace of expandModule.              *)
LEMMA ExpandTrace ==
    ASSUME NEW St, NEW E, NEW b \in St, NEW q \in Seq(E),
           ExpandClosed(St, E)
    PROVE  ExpandTraced(St, b, q)
<1> DEFINE f == [x \in St \X E |-> expandModule(x[1], x[2])]
           Is(g) == g = [s \in SUBSET DOMAIN q |->
                           IF s = {} THEN b ELSE expandModule(g[s \ {Max(s)}], q[Max(s)])]
           h == CHOOSE g : Is(g)
<1>1. f \in [St \X E -> St] /\ \A t \in St, e \in E : f[<<t, e>>] = expandModule(t, e)
  BY DEF ExpandClosed
<1>2. \A s \in SUBSET DOMAIN q : s # {} => q[Max(s)] \in E /\ s \ {Max(s)} \in SUBSET DOMAIN q
  BY SomeOfSeq
<1> HIDE DEF f
<1>3. PICK g : FoldsBy(g, f, b, q, St)
  BY <1>1, FoldExists
<1>4. Is(g)
  BY <1>1, <1>2, <1>3 DEF FoldsBy
<1>5. Is(h)
  BY <1>4
<1>6. expands(b, q) = h[DOMAIN q]
  BY DEF expands, FoldLeft, MapThenFoldSet
<1> HIDE DEF h
<1>7. Refolds(h, f, b, q, St)
  <2>1. h[{}] = b
    BY <1>5
  <2>2. ASSUME NEW s \in SUBSET DOMAIN q, s # {}, h[s \ {Max(s)}] \in St
        PROVE  h[s] = f[<<h[s \ {Max(s)}], q[Max(s)]>>]
    <3>1. q[Max(s)] \in E
      BY <1>2, <2>2
    <3>2. h[s] = expandModule(h[s \ {Max(s)}], q[Max(s)])
      BY <1>5, <2>2
    <3> HIDE DEF Is
    <3> QED BY <1>1, <2>2, <3>1, <3>2
  <2> QED BY <2>1, <2>2 DEF Refolds
<1> HIDE DEF Is
<1>8. PICK tr : TraceOf(tr, f, b, q, St) /\ tr[Len(q)] = h[DOMAIN q]
  <2>1. Traced(h, f, b, q, St)
    BY <1>1, <1>7, FoldTrace
  <2> QED BY <2>1 DEF Traced
<1>9. \A k \in 1..Len(q) : tr[k] = expandModule(tr[k - 1], q[k])
  <2>1. \A k \in 1..Len(q) : tr[k - 1] \in St /\ q[k] \in E
    BY <1>8 DEF TraceOf
  <2> QED BY <1>1, <1>8, <2>1 DEF TraceOf
<1> QED BY <1>6, <1>8, <1>9 DEF TraceOf, ExpandTraced

follows(bi, b, q) == FoldLeft(LAMBDA u, req : enqueueTransitive(u, bi, req), b, q)
FollowClosed(St, E, bi) == \A t \in St, e \in E : enqueueTransitive(t, bi, e) \in St

FollowTraced(St, b, q, bi) ==
    \E tr \in [0..Len(q) -> St] :
        /\ tr[0] = b /\ tr[Len(q)] = follows(bi, b, q)
        /\ \A k \in 1..Len(q) : tr[k] = enqueueTransitive(tr[k - 1], bi, q[k])

(* The requirements of one module pass through a trace of                  *)
(* enqueueTransitive.                                                      *)
LEMMA FollowTrace ==
    ASSUME NEW St, NEW E, NEW b \in St, NEW q \in Seq(E), NEW bi,
           FollowClosed(St, E, bi)
    PROVE  FollowTraced(St, b, q, bi)
<1> DEFINE f == [x \in St \X E |-> enqueueTransitive(x[1], bi, x[2])]
           Is(g) == g = [s \in SUBSET DOMAIN q |->
                           IF s = {} THEN b ELSE enqueueTransitive(g[s \ {Max(s)}], bi, q[Max(s)])]
           h == CHOOSE g : Is(g)
<1>1. f \in [St \X E -> St] /\ \A t \in St, e \in E : f[<<t, e>>] = enqueueTransitive(t, bi, e)
  BY DEF FollowClosed
<1>2. \A s \in SUBSET DOMAIN q : s # {} => q[Max(s)] \in E /\ s \ {Max(s)} \in SUBSET DOMAIN q
  BY SomeOfSeq
<1> HIDE DEF f
<1>3. PICK g : FoldsBy(g, f, b, q, St)
  BY <1>1, FoldExists
<1>4. Is(g)
  BY <1>1, <1>2, <1>3 DEF FoldsBy
<1>5. Is(h)
  BY <1>4
<1>6. follows(bi, b, q) = h[DOMAIN q]
  BY DEF follows, FoldLeft, MapThenFoldSet
<1> HIDE DEF h
<1>7. Refolds(h, f, b, q, St)
  <2>1. h[{}] = b
    BY <1>5
  <2>2. ASSUME NEW s \in SUBSET DOMAIN q, s # {}, h[s \ {Max(s)}] \in St
        PROVE  h[s] = f[<<h[s \ {Max(s)}], q[Max(s)]>>]
    <3>1. q[Max(s)] \in E
      BY <1>2, <2>2
    <3>2. h[s] = enqueueTransitive(h[s \ {Max(s)}], bi, q[Max(s)])
      BY <1>5, <2>2
    <3> HIDE DEF Is
    <3> QED BY <1>1, <2>2, <3>1, <3>2
  <2> QED BY <2>1, <2>2 DEF Refolds
<1> HIDE DEF Is
<1>8. PICK tr : TraceOf(tr, f, b, q, St) /\ tr[Len(q)] = h[DOMAIN q]
  <2>1. Traced(h, f, b, q, St)
    BY <1>1, <1>7, FoldTrace
  <2> QED BY <2>1 DEF Traced
<1>9. \A k \in 1..Len(q) : tr[k] = enqueueTransitive(tr[k - 1], bi, q[k])
  <2>1. \A k \in 1..Len(q) : tr[k - 1] \in St /\ q[k] \in E
    BY <1>8 DEF TraceOf
  <2> QED BY <1>1, <1>8, <2>1 DEF TraceOf
<1> QED BY <1>6, <1>8, <1>9 DEF TraceOf, FollowTraced

(* The results of a level, by position.                                    *)
applies(b, q) == FoldLeft(applyResult, b, q)
ResultClosed(St, E) == \A t \in St, e \in E : applyResult(t, e) \in St

ResultTraced(St, b, q) ==
    \E tr \in [0..Len(q) -> St] :
        /\ tr[0] = b /\ tr[Len(q)] = applies(b, q)
        /\ \A k \in 1..Len(q) : tr[k] = applyResult(tr[k - 1], q[k])

(* A level's results pass through a trace of applyResult.                  *)
LEMMA ResultTrace ==
    ASSUME NEW St, NEW E, NEW b \in St, NEW q \in Seq(E), ResultClosed(St, E)
    PROVE  ResultTraced(St, b, q)
<1> DEFINE f == [x \in St \X E |-> applyResult(x[1], x[2])]
           Is(g) == g = [s \in SUBSET DOMAIN q |->
                           IF s = {} THEN b ELSE applyResult(g[s \ {Max(s)}], q[Max(s)])]
           h == CHOOSE g : Is(g)
<1>1. f \in [St \X E -> St] /\ \A t \in St, e \in E : f[<<t, e>>] = applyResult(t, e)
  BY DEF ResultClosed
<1>2. \A s \in SUBSET DOMAIN q : s # {} => q[Max(s)] \in E /\ s \ {Max(s)} \in SUBSET DOMAIN q
  BY SomeOfSeq
<1> HIDE DEF f
<1>3. PICK g : FoldsBy(g, f, b, q, St)
  BY <1>1, FoldExists
<1>4. Is(g)
  BY <1>1, <1>2, <1>3 DEF FoldsBy
<1>5. Is(h)
  BY <1>4
<1>6. applies(b, q) = h[DOMAIN q]
  BY DEF applies, FoldLeft, MapThenFoldSet
<1> HIDE DEF h
<1>7. Refolds(h, f, b, q, St)
  <2>1. h[{}] = b
    BY <1>5
  <2>2. ASSUME NEW s \in SUBSET DOMAIN q, s # {}, h[s \ {Max(s)}] \in St
        PROVE  h[s] = f[<<h[s \ {Max(s)}], q[Max(s)]>>]
    <3>1. q[Max(s)] \in E
      BY <1>2, <2>2
    <3>2. h[s] = applyResult(h[s \ {Max(s)}], q[Max(s)])
      BY <1>5, <2>2
    <3> HIDE DEF Is
    <3> QED BY <1>1, <2>2, <3>1, <3>2
  <2> QED BY <2>1, <2>2 DEF Refolds
<1> HIDE DEF Is
<1>8. PICK tr : TraceOf(tr, f, b, q, St) /\ tr[Len(q)] = h[DOMAIN q]
  <2>1. Traced(h, f, b, q, St)
    BY <1>1, <1>7, FoldTrace
  <2> QED BY <2>1 DEF Traced
<1>9. \A k \in 1..Len(q) : tr[k] = applyResult(tr[k - 1], q[k])
  <2>1. \A k \in 1..Len(q) : tr[k - 1] \in St /\ q[k] \in E
    BY <1>8 DEF TraceOf
  <2> QED BY <1>1, <1>8, <2>1 DEF TraceOf
<1> QED BY <1>6, <1>8, <1>9 DEF TraceOf, ResultTraced

lists(b, q) == FoldLeft(addListed, b, q)
ListClosed(St, E) == \A t \in St, e \in E : addListed(t, e) \in St

ListTraced(St, b, q) ==
    \E tr \in [0..Len(q) -> St] :
        /\ tr[0] = b /\ tr[Len(q)] = lists(b, q)
        /\ \A k \in 1..Len(q) : tr[k] = addListed(tr[k - 1], q[k])

(* resolveFromBuildList's nodes pass through a trace of addListed.         *)
LEMMA ListTrace ==
    ASSUME NEW St, NEW E, NEW b \in St, NEW q \in Seq(E), ListClosed(St, E)
    PROVE  ListTraced(St, b, q)
<1> DEFINE f == [x \in St \X E |-> addListed(x[1], x[2])]
           Is(g) == g = [s \in SUBSET DOMAIN q |->
                           IF s = {} THEN b ELSE addListed(g[s \ {Max(s)}], q[Max(s)])]
           h == CHOOSE g : Is(g)
<1>1. f \in [St \X E -> St] /\ \A t \in St, e \in E : f[<<t, e>>] = addListed(t, e)
  BY DEF ListClosed
<1>2. \A s \in SUBSET DOMAIN q : s # {} => q[Max(s)] \in E /\ s \ {Max(s)} \in SUBSET DOMAIN q
  BY SomeOfSeq
<1> HIDE DEF f
<1>3. PICK g : FoldsBy(g, f, b, q, St)
  BY <1>1, FoldExists
<1>4. Is(g)
  BY <1>1, <1>2, <1>3 DEF FoldsBy
<1>5. Is(h)
  BY <1>4
<1>6. lists(b, q) = h[DOMAIN q]
  BY DEF lists, FoldLeft, MapThenFoldSet
<1> HIDE DEF h
<1>7. Refolds(h, f, b, q, St)
  <2>1. h[{}] = b
    BY <1>5
  <2>2. ASSUME NEW s \in SUBSET DOMAIN q, s # {}, h[s \ {Max(s)}] \in St
        PROVE  h[s] = f[<<h[s \ {Max(s)}], q[Max(s)]>>]
    <3>1. q[Max(s)] \in E
      BY <1>2, <2>2
    <3>2. h[s] = addListed(h[s \ {Max(s)}], q[Max(s)])
      BY <1>5, <2>2
    <3> HIDE DEF Is
    <3> QED BY <1>1, <2>2, <3>1, <3>2
  <2> QED BY <2>1, <2>2 DEF Refolds
<1> HIDE DEF Is
<1>8. PICK tr : TraceOf(tr, f, b, q, St) /\ tr[Len(q)] = h[DOMAIN q]
  <2>1. Traced(h, f, b, q, St)
    BY <1>1, <1>7, FoldTrace
  <2> QED BY <2>1 DEF Traced
<1>9. \A k \in 1..Len(q) : tr[k] = addListed(tr[k - 1], q[k])
  <2>1. \A k \in 1..Len(q) : tr[k - 1] \in St /\ q[k] \in E
    BY <1>8 DEF TraceOf
  <2> QED BY <1>1, <1>8, <2>1 DEF TraceOf
<1> QED BY <1>6, <1>8, <1>9 DEF TraceOf, ListTraced

tasks(b, q) == FoldLeft(addTask, b, q)
TaskClosed(St, E) == \A t \in St, e \in E : addTask(t, e) \in St

TaskTraced(St, b, q) ==
    \E tr \in [0..Len(q) -> St] :
        /\ tr[0] = b /\ tr[Len(q)] = tasks(b, q)
        /\ \A k \in 1..Len(q) : tr[k] = addTask(tr[k - 1], q[k])

(* resolveFromBuildList's tasks pass through a trace of addTask.           *)
LEMMA TaskTrace ==
    ASSUME NEW St, NEW E, NEW b \in St, NEW q \in Seq(E), TaskClosed(St, E)
    PROVE  TaskTraced(St, b, q)
<1> DEFINE f == [x \in St \X E |-> addTask(x[1], x[2])]
           Is(g) == g = [s \in SUBSET DOMAIN q |->
                           IF s = {} THEN b ELSE addTask(g[s \ {Max(s)}], q[Max(s)])]
           h == CHOOSE g : Is(g)
<1>1. f \in [St \X E -> St] /\ \A t \in St, e \in E : f[<<t, e>>] = addTask(t, e)
  BY DEF TaskClosed
<1>2. \A s \in SUBSET DOMAIN q : s # {} => q[Max(s)] \in E /\ s \ {Max(s)} \in SUBSET DOMAIN q
  BY SomeOfSeq
<1> HIDE DEF f
<1>3. PICK g : FoldsBy(g, f, b, q, St)
  BY <1>1, FoldExists
<1>4. Is(g)
  BY <1>1, <1>2, <1>3 DEF FoldsBy
<1>5. Is(h)
  BY <1>4
<1>6. tasks(b, q) = h[DOMAIN q]
  BY DEF tasks, FoldLeft, MapThenFoldSet
<1> HIDE DEF h
<1>7. Refolds(h, f, b, q, St)
  <2>1. h[{}] = b
    BY <1>5
  <2>2. ASSUME NEW s \in SUBSET DOMAIN q, s # {}, h[s \ {Max(s)}] \in St
        PROVE  h[s] = f[<<h[s \ {Max(s)}], q[Max(s)]>>]
    <3>1. q[Max(s)] \in E
      BY <1>2, <2>2
    <3>2. h[s] = addTask(h[s \ {Max(s)}], q[Max(s)])
      BY <1>5, <2>2
    <3> HIDE DEF Is
    <3> QED BY <1>1, <2>2, <3>1, <3>2
  <2> QED BY <2>1, <2>2 DEF Refolds
<1> HIDE DEF Is
<1>8. PICK tr : TraceOf(tr, f, b, q, St) /\ tr[Len(q)] = h[DOMAIN q]
  <2>1. Traced(h, f, b, q, St)
    BY <1>1, <1>7, FoldTrace
  <2> QED BY <2>1 DEF Traced
<1>9. \A k \in 1..Len(q) : tr[k] = addTask(tr[k - 1], q[k])
  <2>1. \A k \in 1..Len(q) : tr[k - 1] \in St /\ q[k] \in E
    BY <1>8 DEF TraceOf
  <2> QED BY <1>1, <1>8, <2>1 DEF TraceOf
<1> QED BY <1>6, <1>8, <1>9 DEF TraceOf, TaskTraced

links(b, q) == FoldLeft(addListEdge, b, q)
ListEdgeClosed(St, E) == \A t \in St, e \in E : addListEdge(t, e) \in St

ListEdgeTraced(St, b, q) ==
    \E tr \in [0..Len(q) -> St] :
        /\ tr[0] = b /\ tr[Len(q)] = links(b, q)
        /\ \A k \in 1..Len(q) : tr[k] = addListEdge(tr[k - 1], q[k])

(* appendBuildListEdges passes through a trace of addListEdge.             *)
LEMMA ListEdgeTrace ==
    ASSUME NEW St, NEW E, NEW b \in St, NEW q \in Seq(E), ListEdgeClosed(St, E)
    PROVE  ListEdgeTraced(St, b, q)
<1> DEFINE f == [x \in St \X E |-> addListEdge(x[1], x[2])]
           Is(g) == g = [s \in SUBSET DOMAIN q |->
                           IF s = {} THEN b ELSE addListEdge(g[s \ {Max(s)}], q[Max(s)])]
           h == CHOOSE g : Is(g)
<1>1. f \in [St \X E -> St] /\ \A t \in St, e \in E : f[<<t, e>>] = addListEdge(t, e)
  BY DEF ListEdgeClosed
<1>2. \A s \in SUBSET DOMAIN q : s # {} => q[Max(s)] \in E /\ s \ {Max(s)} \in SUBSET DOMAIN q
  BY SomeOfSeq
<1> HIDE DEF f
<1>3. PICK g : FoldsBy(g, f, b, q, St)
  BY <1>1, FoldExists
<1>4. Is(g)
  BY <1>1, <1>2, <1>3 DEF FoldsBy
<1>5. Is(h)
  BY <1>4
<1>6. links(b, q) = h[DOMAIN q]
  BY DEF links, FoldLeft, MapThenFoldSet
<1> HIDE DEF h
<1>7. Refolds(h, f, b, q, St)
  <2>1. h[{}] = b
    BY <1>5
  <2>2. ASSUME NEW s \in SUBSET DOMAIN q, s # {}, h[s \ {Max(s)}] \in St
        PROVE  h[s] = f[<<h[s \ {Max(s)}], q[Max(s)]>>]
    <3>1. q[Max(s)] \in E
      BY <1>2, <2>2
    <3>2. h[s] = addListEdge(h[s \ {Max(s)}], q[Max(s)])
      BY <1>5, <2>2
    <3> HIDE DEF Is
    <3> QED BY <1>1, <2>2, <3>1, <3>2
  <2> QED BY <2>1, <2>2 DEF Refolds
<1> HIDE DEF Is
<1>8. PICK tr : TraceOf(tr, f, b, q, St) /\ tr[Len(q)] = h[DOMAIN q]
  <2>1. Traced(h, f, b, q, St)
    BY <1>1, <1>7, FoldTrace
  <2> QED BY <2>1 DEF Traced
<1>9. \A k \in 1..Len(q) : tr[k] = addListEdge(tr[k - 1], q[k])
  <2>1. \A k \in 1..Len(q) : tr[k - 1] \in St /\ q[k] \in E
    BY <1>8 DEF TraceOf
  <2> QED BY <1>1, <1>8, <2>1 DEF TraceOf
<1> QED BY <1>6, <1>8, <1>9 DEF TraceOf, ListEdgeTraced

directs(b, q) == FoldLeft(addDirect, b, q)
DirectClosed(St, E) == \A t \in St, e \in E : addDirect(t, e) \in St

DirectTraced(St, b, q) ==
    \E tr \in [0..Len(q) -> St] :
        /\ tr[0] = b /\ tr[Len(q)] = directs(b, q)
        /\ \A k \in 1..Len(q) : tr[k] = addDirect(tr[k - 1], q[k])

(* filterRequires passes through a trace of addDirect.                     *)
LEMMA DirectTrace ==
    ASSUME NEW St, NEW E, NEW b \in St, NEW q \in Seq(E), DirectClosed(St, E)
    PROVE  DirectTraced(St, b, q)
<1> DEFINE f == [x \in St \X E |-> addDirect(x[1], x[2])]
           Is(g) == g = [s \in SUBSET DOMAIN q |->
                           IF s = {} THEN b ELSE addDirect(g[s \ {Max(s)}], q[Max(s)])]
           h == CHOOSE g : Is(g)
<1>1. f \in [St \X E -> St] /\ \A t \in St, e \in E : f[<<t, e>>] = addDirect(t, e)
  BY DEF DirectClosed
<1>2. \A s \in SUBSET DOMAIN q : s # {} => q[Max(s)] \in E /\ s \ {Max(s)} \in SUBSET DOMAIN q
  BY SomeOfSeq
<1> HIDE DEF f
<1>3. PICK g : FoldsBy(g, f, b, q, St)
  BY <1>1, FoldExists
<1>4. Is(g)
  BY <1>1, <1>2, <1>3 DEF FoldsBy
<1>5. Is(h)
  BY <1>4
<1>6. directs(b, q) = h[DOMAIN q]
  BY DEF directs, FoldLeft, MapThenFoldSet
<1> HIDE DEF h
<1>7. Refolds(h, f, b, q, St)
  <2>1. h[{}] = b
    BY <1>5
  <2>2. ASSUME NEW s \in SUBSET DOMAIN q, s # {}, h[s \ {Max(s)}] \in St
        PROVE  h[s] = f[<<h[s \ {Max(s)}], q[Max(s)]>>]
    <3>1. q[Max(s)] \in E
      BY <1>2, <2>2
    <3>2. h[s] = addDirect(h[s \ {Max(s)}], q[Max(s)])
      BY <1>5, <2>2
    <3> HIDE DEF Is
    <3> QED BY <1>1, <2>2, <3>1, <3>2
  <2> QED BY <2>1, <2>2 DEF Refolds
<1> HIDE DEF Is
<1>8. PICK tr : TraceOf(tr, f, b, q, St) /\ tr[Len(q)] = h[DOMAIN q]
  <2>1. Traced(h, f, b, q, St)
    BY <1>1, <1>7, FoldTrace
  <2> QED BY <2>1 DEF Traced
<1>9. \A k \in 1..Len(q) : tr[k] = addDirect(tr[k - 1], q[k])
  <2>1. \A k \in 1..Len(q) : tr[k - 1] \in St /\ q[k] \in E
    BY <1>8 DEF TraceOf
  <2> QED BY <1>1, <1>8, <2>1 DEF TraceOf
<1> QED BY <1>6, <1>8, <1>9 DEF TraceOf, DirectTraced

---------------------------------------------------------------------------
(* The resolveState, typed.                                                *)
PartialFns(V) == UNION {[P -> V] : P \in SUBSET Paths}

(* What the queue and a level hold.                                        *)
Item == [coord : Coordinates, key : Paths, pinned : BOOLEAN, depth : Nat, expand : BOOLEAN]
Task == [coord : Coordinates, key : Paths, depth : Nat, atMaxDepth : BOOLEAN]

(* The states of a resolution: every queued path has a selected version,   *)
(* and every selected path a node.                                         *)
States ==
    {s \in [selected : PartialFns(0..MaxVersion), nodes : PartialFns(NodeType),
            processed : SUBSET Coordinates, parsed : SUBSET Coordinates,
            expandedKeys : SUBSET Coordinates, edges : SUBSET EdgeType,
            queue : Seq(Item), partial : SUBSET Reasons, truncated : BOOLEAN] :
       /\ DOMAIN s.selected \subseteq DOMAIN s.nodes
       /\ \A i \in DOMAIN s.queue : s.queue[i].key \in DOMAIN s.selected}

(* How a path is replaced, and by which coordinate.                        *)
how(p) == applyReplace(<<p, 0>>).source
forkOf(p) == applyReplace(<<p, 0>>).to

---------------------------------------------------------------------------
(* The constants, as BoundsAreNatural gives them.                          *)
LEMMA Bounds ==
    /\ Target \in Paths /\ MaxVersion \in Nat /\ MaxVersion >= 1
    /\ Workers \in Nat /\ MaxFaults \in Nat
  BY BoundsAreNatural

(* What a coordinate is made of; the target has one, and no coordinate is  *)
(* NoCoord.                                                                *)
LEMMA CoordinateFacts ==
    /\ \A p \in Paths, v \in 0..MaxVersion : <<p, v>> \in Coordinates
    /\ \A c \in Coordinates : /\ c[1] \in Paths /\ c[2] \in 0..MaxVersion
                              /\ c = <<c[1], c[2]>> /\ c # NoCoord
    /\ \A c \in Published : c \in Coordinates /\ c[2] >= 1
    /\ NoCoord \notin Coordinates
    /\ TargetCoord \in Coordinates /\ TargetCoord[1] = Target /\ TargetCoord[2] \in {0, 1}
<1>1. \A p \in Paths, v \in 0..MaxVersion : <<p, v>> \in Coordinates
  BY DEF Coordinates
<1>2. \A c \in Coordinates : /\ c[1] \in Paths /\ c[2] \in 0..MaxVersion
                             /\ c = <<c[1], c[2]>> /\ c # NoCoord
  BY DEF Coordinates, NoCoord
<1>3. \A c \in Published : c \in Coordinates /\ c[2] >= 1
  BY Bounds DEF Coordinates, Published
<1>4. TargetCoord \in Coordinates /\ TargetCoord[1] = Target /\ TargetCoord[2] \in {0, 1}
  BY <1>1, Bounds DEF TargetCoord
<1> QED BY <1>1, <1>2, <1>3, <1>4

(* The replaces in force name coordinates.                                 *)
LEMMA ReplacesTyped ==
    ASSUME IsWorld(world)
    PROVE  \A r \in replaceMap :
             /\ r.old \in Coordinates
             /\ r.new \in Published \cup {NoCoord}
  BY DEF IsWorld, replaceMap, effectiveReplaces

(* applyReplace answers with a coordinate, and with the one asked for when *)
(* no replace names it.                                                    *)
LEMMA ApplyTyped ==
    ASSUME IsWorld(world), NEW c \in Coordinates
    PROVE  /\ applyReplace(c).to \in Coordinates
           /\ applyReplace(c).source \in {"mvs", "replace", "local_replace"}
           /\ applyReplace(c).original \in Coordinates \cup {NoCoord}
           /\ applyReplace(c).source = "mvs" => applyReplace(c).to = c
<1> DEFINE exact == {r \in replaceMap : r.old = c}
           named == IF exact # {} THEN exact ELSE {r \in replaceMap : r.old = localIdentity(c)}
           new == (CHOOSE r \in named : TRUE).new
<1>1. applyReplace(c) =
        IF named = {} THEN [to |-> c, source |-> "mvs", original |-> NoCoord]
        ELSE IF new = NoCoord
        THEN [to |-> localIdentity(c), source |-> "local_replace", original |-> c]
        ELSE [to |-> new, source |-> "replace", original |-> c]
  BY DEF applyReplace
<1>2. named # {} => new \in Published \cup {NoCoord}
  <2>1. named \subseteq replaceMap
    OBVIOUS
  <2> HIDE DEF named
  <2>2. named # {} => (CHOOSE r \in named : TRUE) \in named
    OBVIOUS
  <2> QED BY <2>1, <2>2, ReplacesTyped
<1>3. localIdentity(c) \in Coordinates
  BY CoordinateFacts, Bounds DEF localIdentity
<1> HIDE DEF new, named
<1> QED BY <1>1, <1>2, <1>3, CoordinateFacts

(* A replace of a path says the same of all its versions.                  *)
LEMMA ApplyOrdinary ==
    ASSUME IsWorld(world), ordinaryReplaces, NEW p \in Paths, NEW v \in 0..MaxVersion
    PROVE  /\ applyReplace(<<p, v>>).source = how(p)
           /\ how(p) \in {"mvs", "replace", "local_replace"}
           /\ how(p) = "mvs" => /\ applyReplace(<<p, v>>).to = <<p, v>>
                                /\ applyReplace(<<p, v>>).original = NoCoord
           /\ how(p) # "mvs" => p # Target /\ applyReplace(<<p, v>>).original = <<p, v>>
           /\ how(p) = "local_replace" => applyReplace(<<p, v>>).to = <<p, 0>>
           /\ how(p) = "replace" =>
                /\ applyReplace(<<p, v>>).to = forkOf(p)
                /\ forkOf(p) \in forks /\ forkOf(p) \in Published /\ forkOf(p)[1] # Target
<1> DEFINE named == {r \in replaceMap : r.old = <<p, 0>>}
           new == (CHOOSE r \in named : TRUE).new
<1>1. ASSUME NEW w \in 0..MaxVersion
      PROVE  applyReplace(<<p, w>>) =
        IF named = {} THEN [to |-> <<p, w>>, source |-> "mvs", original |-> NoCoord]
        ELSE IF new = NoCoord
        THEN [to |-> <<p, 0>>, source |-> "local_replace", original |-> <<p, w>>]
        ELSE [to |-> new, source |-> "replace", original |-> <<p, w>>]
  <2> DEFINE exact == {r \in replaceMap : r.old = <<p, w>>}
  <2>1. localIdentity(<<p, w>>) = <<p, 0>>
    BY DEF localIdentity
  <2>2. w = 0 => exact = named
    OBVIOUS
  <2>3. w # 0 => exact = {}
    <3>1. \A r \in replaceMap : r.old[2] = 0
      BY DEF ordinaryReplaces
    <3> QED BY <3>1
  <2>4. (IF exact # {} THEN exact ELSE named) = named
    BY <2>2, <2>3
  <2> QED BY <2>1, <2>4 DEF applyReplace
<1>2. named # {} => /\ p # Target /\ new \in Published \cup {NoCoord}
                    /\ new \in forks /\ (new # NoCoord => new[1] # Target)
  <2>1. ASSUME NEW r \in named
        PROVE  /\ p # Target /\ r.new \in Published \cup {NoCoord}
               /\ r.new \in forks /\ (r.new # NoCoord => r.new[1] # Target)
    BY ReplacesTyped DEF ordinaryReplaces, forks
  <2> HIDE DEF named
  <2>2. named # {} => (CHOOSE r \in named : TRUE) \in named
    OBVIOUS
  <2> QED BY <2>1, <2>2
<1>3. 0 \in 0..MaxVersion
  BY Bounds
<1> HIDE DEF new, named
<1>4. CASE named = {}
  <2>1. /\ applyReplace(<<p, v>>) = [to |-> <<p, v>>, source |-> "mvs", original |-> NoCoord]
        /\ applyReplace(<<p, 0>>) = [to |-> <<p, 0>>, source |-> "mvs", original |-> NoCoord]
    BY <1>1, <1>3, <1>4
  <2> QED BY <2>1 DEF how
<1>5. CASE named # {} /\ new = NoCoord
  <2>1. /\ applyReplace(<<p, v>>) = [to |-> <<p, 0>>, source |-> "local_replace", original |-> <<p, v>>]
        /\ applyReplace(<<p, 0>>) = [to |-> <<p, 0>>, source |-> "local_replace", original |-> <<p, 0>>]
    BY <1>1, <1>3, <1>5
  <2> QED BY <1>2, <1>5, <2>1 DEF how
<1>6. CASE named # {} /\ new # NoCoord
  <2>1. /\ applyReplace(<<p, v>>) = [to |-> new, source |-> "replace", original |-> <<p, v>>]
        /\ applyReplace(<<p, 0>>) = [to |-> new, source |-> "replace", original |-> <<p, 0>>]
    BY <1>1, <1>3, <1>6
  <2>2. new \in Published /\ new \in forks /\ new[1] # Target
    BY <1>2, <1>6
  <2> QED BY <1>2, <1>6, <2>1, <2>2 DEF how, forkOf
<1> QED BY <1>4, <1>5, <1>6

---------------------------------------------------------------------------
(* Types of the state and of what one requirement does to it.              *)
LEMMA PartialFacts ==
    ASSUME NEW V, NEW f \in PartialFns(V)
    PROVE  DOMAIN f \subseteq Paths /\ \A p \in DOMAIN f : f[p] \in V
  BY DEF PartialFns

(* Entering a value at a path changes that path alone.                     *)
LEMMA EnteredTyped ==
    ASSUME NEW V, NEW f \in PartialFns(V), NEW k \in Paths, NEW v \in V
    PROVE  /\ Entered(f, k, v) \in PartialFns(V)
           /\ DOMAIN Entered(f, k, v) = DOMAIN f \cup {k}
           /\ Entered(f, k, v)[k] = v
           /\ \A p \in DOMAIN f \ {k} : Entered(f, k, v)[p] = f[p]
<1>1. DOMAIN f \cup {k} \in SUBSET Paths /\ \A p \in DOMAIN f : f[p] \in V
  BY PartialFacts
<1>2. Entered(f, k, v) \in [DOMAIN f \cup {k} -> V]
  BY <1>1 DEF Entered
<1>3. Entered(f, k, v) \in PartialFns(V)
  BY <1>1, <1>2 DEF PartialFns
<1> QED BY <1>3 DEF Entered

(* Overwriting a value keeps the domain and the other values.              *)
LEMMA ChangedTyped ==
    ASSUME NEW V, NEW f \in PartialFns(V), NEW k, NEW v \in V
    PROVE  /\ [f EXCEPT ![k] = v] \in PartialFns(V)
           /\ DOMAIN [f EXCEPT ![k] = v] = DOMAIN f
           /\ \A p \in DOMAIN f : [f EXCEPT ![k] = v][p] = IF p = k THEN v ELSE f[p]
<1>1. PICK P \in SUBSET Paths : f \in [P -> V]
  BY DEF PartialFns
<1>2. [f EXCEPT ![k] = v] \in [P -> V]
  BY <1>1
<1>3. [f EXCEPT ![k] = v] \in PartialFns(V)
  BY <1>2 DEF PartialFns
<1> QED BY <1>1, <1>3

(* The same, its fields alone.                                             *)
StateFields == [selected : PartialFns(0..MaxVersion), nodes : PartialFns(NodeType),
            processed : SUBSET Coordinates, parsed : SUBSET Coordinates,
            expandedKeys : SUBSET Coordinates, edges : SUBSET EdgeType,
            queue : Seq(Item), partial : SUBSET Reasons, truncated : BOOLEAN]

(* A requirement leaves these alone.                                       *)
Frame(s, t) ==
    /\ t.processed = s.processed /\ t.parsed = s.parsed
    /\ t.expandedKeys = s.expandedKeys /\ t.partial = s.partial

(* One edge more, to where the replaces send c.                            *)
EdgeAdded(s, t, c) ==
    \E e \in EdgeType : /\ t.edges = s.edges \cup {e}
                        /\ e.to = applyReplace(c).to /\ e.constraint = c[2]

(* The nodes stand where they stood.                                       *)
SameNodes(s, t) ==
    /\ t.selected = s.selected /\ DOMAIN t.nodes = DOMAIN s.nodes
    /\ \A p \in DOMAIN s.nodes :
         /\ t.nodes[p].coord = s.nodes[p].coord /\ t.nodes[p].source = s.nodes[p].source
         /\ t.nodes[p].original = s.nodes[p].original

(* The path of c is given its version and a node.                          *)
NodeSet(s, t, c, source) ==
    \E n \in NodeType :
        /\ n.coord = applyReplace(c).to /\ n.original = applyReplace(c).original
        /\ n.source = source
        /\ t.selected = Entered(s.selected, c[1], c[2])
        /\ t.nodes = Entered(s.nodes, c[1], n)

(* An item of the module now at a path, for the queue.                     *)
ItemFor(q, t, key) ==
    /\ q \in Item /\ q.key = key /\ key \in DOMAIN t.selected
    /\ q.coord = t.nodes[key].coord
    /\ q.pinned = (t.nodes[key].original # NoCoord)

(* The path of c has its node: an edge, and perhaps an expansion, are new. *)
Known(s, t, c) ==
    /\ Frame(s, t) /\ EdgeAdded(s, t, c) /\ SameNodes(s, t)
    /\ c[1] \in DOMAIN s.nodes
    /\ \/ t.truncated = s.truncated /\ (wins(s, c) => applyReplace(c).source = "local_replace")
       \/ t.truncated = TRUE
    /\ \/ t.queue = s.queue
       \/ \E q \in Item : /\ t.queue = Append(s.queue, q) /\ ItemFor(q, t, c[1]) /\ q.expand
                          /\ s.nodes[c[1]].source # "local_replace"

(* The path of c gets a node that is not fetched.                          *)
Placeheld(s, t, c) ==
    /\ Frame(s, t) /\ EdgeAdded(s, t, c) /\ t.queue = s.queue
    /\ c[1] \notin DOMAIN s.selected
    /\ \/ /\ applyReplace(c).source = "local_replace" /\ NodeSet(s, t, c, "local_replace")
          /\ t.truncated = s.truncated
       \/ /\ applyReplace(c).source # "local_replace" /\ NodeSet(s, t, c, "depth_bounded")
          /\ t.truncated = TRUE

(* The path of c is raised to it, or first met, and queued.                *)
Raised(s, t, c, expand) ==
    /\ Frame(s, t) /\ EdgeAdded(s, t, c) /\ wins(s, c) /\ t.truncated = s.truncated
    /\ applyReplace(c).source # "local_replace"
    /\ NodeSet(s, t, c, applyReplace(c).source)
    /\ \E q \in Item : /\ t.queue = Append(s.queue, q) /\ ItemFor(q, t, c[1])
                       /\ q.expand = expand

(* A resolveState has typed fields.                                        *)
LEMMA FieldsTyped == \A s \in States : s \in StateFields
  BY DEF States, StateFields

(* The types of the fields of a resolveState, one by one.                  *)
LEMMA StateFacts ==
    ASSUME NEW s \in States
    PROVE  /\ s.selected \in PartialFns(0..MaxVersion) /\ s.nodes \in PartialFns(NodeType)
           /\ DOMAIN s.selected \subseteq DOMAIN s.nodes /\ DOMAIN s.nodes \subseteq Paths
           /\ \A p \in DOMAIN s.selected : s.selected[p] \in 0..MaxVersion
           /\ \A p \in DOMAIN s.nodes : /\ s.nodes[p] \in NodeType
                                        /\ s.nodes[p].coord \in Coordinates
                                        /\ s.nodes[p].source \in Sources
                                        /\ s.nodes[p].original \in Coordinates \cup {NoCoord}
           /\ s.processed \subseteq Coordinates /\ s.parsed \subseteq Coordinates
           /\ s.expandedKeys \subseteq Coordinates
           /\ s.edges \subseteq EdgeType /\ s.queue \in Seq(Item) /\ s.partial \subseteq Reasons
           /\ s.truncated \in BOOLEAN
           /\ \A i \in DOMAIN s.queue : s.queue[i] \in Item /\ s.queue[i].key \in DOMAIN s.selected
<1>1. s \in StateFields /\ DOMAIN s.selected \subseteq DOMAIN s.nodes
      /\ \A i \in DOMAIN s.queue : s.queue[i].key \in DOMAIN s.selected
  BY DEF States, StateFields
<1>2. /\ s.selected \in PartialFns(0..MaxVersion) /\ s.nodes \in PartialFns(NodeType)
      /\ s.processed \subseteq Coordinates /\ s.parsed \subseteq Coordinates
      /\ s.expandedKeys \subseteq Coordinates
      /\ s.edges \subseteq EdgeType /\ s.queue \in Seq(Item) /\ s.partial \subseteq Reasons
      /\ s.truncated \in BOOLEAN
  BY <1>1 DEF StateFields
<1>3. /\ DOMAIN s.nodes \subseteq Paths /\ \A p \in DOMAIN s.nodes : s.nodes[p] \in NodeType
      /\ \A p \in DOMAIN s.selected : s.selected[p] \in 0..MaxVersion
  BY <1>2, PartialFacts
<1>4. \A n \in NodeType : n.coord \in Coordinates /\ n.source \in Sources
                          /\ n.original \in Coordinates \cup {NoCoord}
  BY DEF NodeType
<1>5. \A i \in DOMAIN s.queue : s.queue[i] \in Item
  BY <1>2
<1> QED BY <1>1, <1>2, <1>3, <1>4, <1>5

---------------------------------------------------------------------------
(* What each piece of a requirement's handling does.                       *)
OnlyEdges(s, t) ==
    /\ Frame(s, t) /\ t.selected = s.selected /\ t.nodes = s.nodes
    /\ t.queue = s.queue /\ t.truncated = s.truncated

(* withEdge adds one edge, to where the replaces send the requirement.     *)
LEMMA EdgePiece ==
    ASSUME IsWorld(world), NEW s \in StateFields, NEW from \in Coordinates, NEW c \in Published,
           NEW t, t = withEdge(s, from, applyReplace(c), c)
    PROVE  t \in StateFields /\ OnlyEdges(s, t) /\ EdgeAdded(s, t, c)
<1> DEFINE e == [from |-> from, to |-> applyReplace(c).to, constraint |-> c[2]]
<1>1. e \in EdgeType
  BY ApplyTyped, CoordinateFacts DEF EdgeType
<1>2. t = [s EXCEPT !.edges = s.edges \cup {e}]
  BY DEF withEdge
<1>3. e.to = applyReplace(c).to /\ e.constraint = c[2]
  OBVIOUS
<1> HIDE DEF e
<1>4. s.edges \cup {e} \subseteq EdgeType
  BY <1>1 DEF StateFields
<1>5. t \in StateFields
  BY <1>2, <1>4 DEF StateFields
<1>6. t.edges = s.edges \cup {e} /\ OnlyEdges(s, t)
  BY <1>2 DEF StateFields, OnlyEdges, Frame
<1> QED BY <1>1, <1>3, <1>5, <1>6 DEF EdgeAdded

(* setNode sets the version and the node of one path.                      *)
LEMMA NodePiece ==
    ASSUME NEW s \in StateFields, NEW c \in Coordinates, NEW n \in NodeType,
           NEW t, t = setNode(s, c, n)
    PROVE  /\ t \in StateFields /\ Frame(s, t) /\ t.edges = s.edges
           /\ t.queue = s.queue /\ t.truncated = s.truncated
           /\ t.selected = Entered(s.selected, c[1], c[2])
           /\ t.nodes = Entered(s.nodes, c[1], n)
<1>1. /\ Entered(s.selected, c[1], c[2]) \in PartialFns(0..MaxVersion)
      /\ Entered(s.nodes, c[1], n) \in PartialFns(NodeType)
  <2>1. s.selected \in PartialFns(0..MaxVersion) /\ s.nodes \in PartialFns(NodeType)
    BY DEF StateFields
  <2> QED BY <2>1, EnteredTyped, CoordinateFacts
<1>2. t = [s EXCEPT !.selected = Entered(s.selected, c[1], c[2]),
                    !.nodes = Entered(s.nodes, c[1], n)]
  BY DEF setNode
<1> QED BY <1>1, <1>2 DEF StateFields, Frame

(* nodeOf takes coordinate, source and original from the replace.          *)
LEMMA NodeOfTyped ==
    ASSUME IsWorld(world), NEW c \in Published, NEW d \in BOOLEAN,
           NEW n, n = nodeOf(applyReplace(c), d)
    PROVE  /\ n \in NodeType /\ n.coord = applyReplace(c).to
           /\ n.original = applyReplace(c).original /\ n.source = applyReplace(c).source
  BY ApplyTyped, CoordinateFacts DEF nodeOf, NodeType, Sources

(* queueItem describes the node it is built from.                          *)
LEMMA ItemTyped ==
    ASSUME NEW n \in NodeType, NEW key \in Paths, NEW depth \in Nat, NEW expand \in BOOLEAN,
           NEW q, q = queueItem(n, key, depth, expand)
    PROVE  /\ q \in Item /\ q.key = key /\ q.coord = n.coord /\ q.expand = expand
           /\ q.pinned = (n.original # NoCoord)
  BY DEF queueItem, Item, NodeType

(* Queueing an item changes the queue alone.                               *)
LEMMA QueuePiece ==
    ASSUME NEW s \in StateFields, NEW q \in Item,
           NEW t, t = [s EXCEPT !.queue = Append(@, q)]
    PROVE  /\ t \in StateFields /\ Frame(s, t) /\ t.edges = s.edges
           /\ t.truncated = s.truncated /\ t.selected = s.selected /\ t.nodes = s.nodes
           /\ t.queue = Append(s.queue, q)
<1>1. Append(s.queue, q) \in Seq(Item)
  BY DEF StateFields
<1> QED BY <1>1 DEF StateFields, Frame

(* A queue whose items have selected versions makes a resolveState.        *)
LEMMA QueueKeys ==
    ASSUME NEW s \in States, NEW t \in StateFields,
           DOMAIN t.selected \subseteq DOMAIN t.nodes,
           DOMAIN s.selected \subseteq DOMAIN t.selected,
           \/ t.queue = s.queue
           \/ \E q \in Item : t.queue = Append(s.queue, q) /\ q.key \in DOMAIN t.selected
    PROVE  t \in States
<1>1. \A i \in DOMAIN s.queue : s.queue[i].key \in DOMAIN t.selected
  BY StateFacts
<1>2. \A i \in DOMAIN t.queue : t.queue[i].key \in DOMAIN t.selected
  <2>1. CASE t.queue = s.queue
    BY <1>1, <2>1
  <2>2. ASSUME NEW q \in Item, t.queue = Append(s.queue, q), q.key \in DOMAIN t.selected
        PROVE  \A i \in DOMAIN t.queue : t.queue[i].key \in DOMAIN t.selected
    <3>1. s.queue \in Seq(Item)
      BY StateFacts
    <3>2. \A i \in DOMAIN t.queue : t.queue[i] = q \/ (i \in DOMAIN s.queue /\ t.queue[i] = s.queue[i])
      BY <2>2, <3>1
    <3> QED BY <1>1, <2>2, <3>2
  <2> QED BY <2>1, <2>2
<1> QED BY <1>2 DEF States, StateFields

---------------------------------------------------------------------------
(* One requirement, in one of four ways.                                   *)
Handled(s, t, c, expand) ==
    \/ t = s /\ isExcluded(applyReplace(c).to)
    \/ Known(s, t, c)
    \/ Placeheld(s, t, c)
    \/ Raised(s, t, c, expand)

(* A requirement replaced by a directory: the path is known, or its node   *)
(* is not fetched.                                                         *)
LEMMA LocalShape ==
    ASSUME IsWorld(world), NEW s \in States, NEW from \in Coordinates, NEW c \in Published,
           NEW d \in BOOLEAN, applyReplace(c).source = "local_replace",
           NEW t, t = localReplace(s, from, applyReplace(c), c, d)
    PROVE  t \in States /\ (Known(s, t, c) \/ Placeheld(s, t, c))
<1> DEFINE u == withEdge(s, from, applyReplace(c), c)
           n == nodeOf(applyReplace(c), d)
<1>1. s \in StateFields /\ c \in Coordinates /\ c[1] \in Paths
  BY FieldsTyped, CoordinateFacts
<1>2. u \in StateFields /\ OnlyEdges(s, u) /\ EdgeAdded(s, u, c)
  BY <1>1, EdgePiece
<1>3. /\ n \in NodeType /\ n.coord = applyReplace(c).to
      /\ n.original = applyReplace(c).original /\ n.source = "local_replace"
  BY NodeOfTyped
<1>4. t = IF c[1] \in DOMAIN s.nodes THEN u ELSE setNode(u, c, n)
  BY DEF localReplace
<1> HIDE DEF u, n
<1>5. CASE c[1] \in DOMAIN s.nodes
  <2>1. t = u
    BY <1>4, <1>5
  <2>2. Known(s, t, c)
    BY <1>2, <1>5, <2>1 DEF Known, OnlyEdges, SameNodes
  <2>3. t \in States
    BY <1>2, <2>1, StateFacts, QueueKeys DEF OnlyEdges
  <2> QED BY <2>2, <2>3
<1>6. CASE c[1] \notin DOMAIN s.nodes
  <2>1. /\ t \in StateFields /\ Frame(u, t) /\ t.edges = u.edges
        /\ t.queue = u.queue /\ t.truncated = u.truncated
        /\ t.selected = Entered(u.selected, c[1], c[2])
        /\ t.nodes = Entered(u.nodes, c[1], n)
    BY <1>1, <1>2, <1>3, <1>4, <1>6, NodePiece
  <2>2. c[1] \notin DOMAIN s.selected
    BY <1>6, StateFacts
  <2>3. NodeSet(s, t, c, "local_replace")
    BY <1>2, <1>3, <2>1 DEF NodeSet, OnlyEdges
  <2>4. Placeheld(s, t, c)
    BY <1>2, <2>1, <2>2, <2>3 DEF Placeheld, OnlyEdges, Frame, EdgeAdded
  <2>5. t \in States
    <3>1. DOMAIN t.selected = DOMAIN s.selected \cup {c[1]} /\ DOMAIN t.nodes = DOMAIN s.nodes \cup {c[1]}
      BY <1>2, <2>1 DEF OnlyEdges, Entered
    <3> QED BY <1>2, <2>1, <3>1, StateFacts, QueueKeys DEF OnlyEdges
  <2> QED BY <2>4, <2>5
<1> QED BY <1>5, <1>6

(* A requirement that wins raises its path and is queued.                  *)
LEMMA RaiseShape ==
    ASSUME IsWorld(world), NEW s \in States, NEW from \in Coordinates, NEW c \in Published,
           NEW d \in BOOLEAN, applyReplace(c).source # "local_replace", wins(s, c),
           NEW depth \in Nat, NEW expand \in BOOLEAN,
           NEW t,
           t = [setNode(withEdge(s, from, applyReplace(c), c), c, nodeOf(applyReplace(c), d))
                 EXCEPT !.queue = Append(@, queueItem(nodeOf(applyReplace(c), d), c[1], depth, expand))]
    PROVE  t \in States /\ Raised(s, t, c, expand)
<1> DEFINE u == withEdge(s, from, applyReplace(c), c)
           n == nodeOf(applyReplace(c), d)
           v == setNode(u, c, n)
           q == queueItem(n, c[1], depth, expand)
<1>1. s \in StateFields /\ c \in Coordinates /\ c[1] \in Paths
  BY FieldsTyped, CoordinateFacts
<1>2. u \in StateFields /\ OnlyEdges(s, u) /\ EdgeAdded(s, u, c)
  BY <1>1, EdgePiece
<1>3. /\ n \in NodeType /\ n.coord = applyReplace(c).to
      /\ n.original = applyReplace(c).original /\ n.source = applyReplace(c).source
  BY NodeOfTyped
<1>4. /\ q \in Item /\ q.key = c[1] /\ q.coord = n.coord /\ q.expand = expand
      /\ q.pinned = (n.original # NoCoord)
  <2> HIDE DEF n
  <2> QED BY <1>1, <1>3, ItemTyped
<1>5. t = [v EXCEPT !.queue = Append(@, q)]
  OBVIOUS
<1> HIDE DEF u, n
<1>6. /\ v \in StateFields /\ Frame(u, v) /\ v.edges = u.edges
      /\ v.queue = u.queue /\ v.truncated = u.truncated
      /\ v.selected = Entered(u.selected, c[1], c[2])
      /\ v.nodes = Entered(u.nodes, c[1], n)
  BY <1>1, <1>2, <1>3, NodePiece
<1> HIDE DEF v, q
<1>7. /\ t \in StateFields /\ Frame(v, t) /\ t.edges = v.edges
      /\ t.truncated = v.truncated /\ t.selected = v.selected /\ t.nodes = v.nodes
      /\ t.queue = Append(v.queue, q)
  <2>1. v \in StateFields /\ q \in Item
    BY <1>4, <1>6
  <2>2. t = [v EXCEPT !.queue = Append(@, q)]
    BY <1>5
  <2> QED BY ONLY <2>1, <2>2, QueuePiece
<1>8. /\ DOMAIN t.selected = DOMAIN s.selected \cup {c[1]} /\ DOMAIN t.nodes = DOMAIN s.nodes \cup {c[1]}
      /\ t.nodes[c[1]] = n /\ t.queue = Append(s.queue, q)
  BY <1>2, <1>6, <1>7 DEF OnlyEdges, Entered
<1>9. NodeSet(s, t, c, applyReplace(c).source)
  BY <1>2, <1>3, <1>6, <1>7 DEF NodeSet, OnlyEdges
<1>10. ItemFor(q, t, c[1])
  BY <1>4, <1>8 DEF ItemFor
<1>11. Raised(s, t, c, expand)
  BY <1>2, <1>4, <1>6, <1>7, <1>8, <1>9, <1>10 DEF Raised, OnlyEdges, Frame, EdgeAdded
<1>12. t \in States
  BY <1>4, <1>7, <1>8, StateFacts, QueueKeys
<1> QED BY <1>11, <1>12

(* A requirement of the target is handled in one of the four ways          *)
(* (seedDirectDeps).                                                       *)
LEMMA SeedShape ==
    ASSUME IsWorld(world), NEW s \in States, NEW req \in Requirement
    PROVE  /\ seedDirectDep(s, req) \in States
           /\ Handled(s, seedDirectDep(s, req), req.coord, TRUE)
<1> DEFINE c == req.coord
           o == applyReplace(c)
           t == seedDirectDep(s, req)
           u == withEdge(s, TargetCoord, o, c)
<1>1. c \in Published /\ c \in Coordinates /\ TargetCoord \in Coordinates /\ s \in StateFields
  BY CoordinateFacts, FieldsTyped DEF Requirement
<1> HIDE DEF c
<1>2. CASE o.source = "local_replace"
  <2>1. t = localReplace(s, TargetCoord, applyReplace(c), c, TRUE)
    BY <1>2 DEF seedDirectDep, c
  <2> HIDE DEF t
  <2> QED BY <1>1, <1>2, <2>1, LocalShape DEF Handled, t, c
<1>3. CASE o.source # "local_replace" /\ isExcluded(o.to)
  <2>1. t = s
    BY <1>3 DEF seedDirectDep, c
  <2> HIDE DEF t
  <2> QED BY <1>3, <2>1 DEF Handled, t, c
<1>4. CASE o.source # "local_replace" /\ ~isExcluded(o.to) /\ wins(s, c)
  <2>1. t = [setNode(withEdge(s, TargetCoord, applyReplace(c), c), c, nodeOf(applyReplace(c), TRUE))
              EXCEPT !.queue = Append(@, queueItem(nodeOf(applyReplace(c), TRUE), c[1], 1, TRUE))]
    BY <1>4 DEF seedDirectDep, c
  <2> HIDE DEF t
  <2>2. t \in States /\ Raised(s, t, c, TRUE)
    BY <1>1, <1>4, <2>1, RaiseShape
  <2> QED BY <2>2 DEF Handled, t, c
<1>5. CASE o.source # "local_replace" /\ ~isExcluded(o.to) /\ ~wins(s, c)
  <2>1. t = [u EXCEPT !.nodes[c[1]].direct = TRUE]
    BY <1>5 DEF seedDirectDep, c
  <2>2. u \in StateFields /\ OnlyEdges(s, u) /\ EdgeAdded(s, u, c)
    BY <1>1, EdgePiece
  <2>3. c[1] \in DOMAIN s.selected /\ c[1] \in DOMAIN s.nodes
    BY <1>5, StateFacts DEF wins
  <2>4. u.nodes = s.nodes /\ s.nodes[c[1]] \in NodeType
    BY <2>2, <2>3, StateFacts DEF OnlyEdges
  <2> HIDE DEF u, t
  <2> DEFINE n == [s.nodes[c[1]] EXCEPT !.direct = TRUE]
             N == [s.nodes EXCEPT ![c[1]] = n]
  <2>5. n \in NodeType /\ n.coord = s.nodes[c[1]].coord /\ n.source = s.nodes[c[1]].source
        /\ n.original = s.nodes[c[1]].original
    BY <2>4 DEF NodeType
  <2>6. t = [u EXCEPT !.nodes = N]
    BY <2>1, <2>2, <2>4 DEF StateFields
  <2> HIDE DEF n
  <2>7. /\ N \in PartialFns(NodeType) /\ DOMAIN N = DOMAIN s.nodes
        /\ \A p \in DOMAIN s.nodes : N[p] = IF p = c[1] THEN n ELSE s.nodes[p]
    BY <2>5, StateFacts, ChangedTyped
  <2> HIDE DEF N
  <2>8. /\ t \in StateFields /\ t.nodes = N /\ t.selected = u.selected /\ t.edges = u.edges
        /\ t.queue = u.queue /\ t.truncated = u.truncated /\ Frame(u, t)
    BY <2>2, <2>6, <2>7 DEF StateFields, Frame
  <2>9. SameNodes(s, t)
    BY <2>2, <2>5, <2>7, <2>8 DEF SameNodes, OnlyEdges
  <2>10. Known(s, t, c)
    BY <1>5, <2>2, <2>3, <2>8, <2>9 DEF Known, OnlyEdges, Frame, EdgeAdded
  <2>11. t \in States
    BY <2>2, <2>7, <2>8, StateFacts, QueueKeys DEF OnlyEdges
  <2> QED BY <2>10, <2>11 DEF Handled, t, c
<1> QED BY <1>2, <1>3, <1>4, <1>5

(* A path has an item in the queue, or one that is to be expanded.         *)
Queued(s, p) == \E i \in DOMAIN s.queue : s.queue[i].key = p
ToExpand(s, p) == \E i \in DOMAIN s.queue : s.queue[i].key = p /\ s.queue[i].expand

(* The requirement c, which must be followed if expand, has been met.      *)
IsMet(t, c, expand) ==
    \/ isExcluded(applyReplace(c).to) \/ t.truncated
    \/ /\ c[1] \in DOMAIN t.nodes
       /\ expand /\ applyReplace(c).source # "local_replace" =>
            /\ c[1] \in DOMAIN t.selected /\ c[2] <= t.selected[c[1]]
            /\ \/ t.nodes[c[1]].source = "local_replace"
               \/ t.nodes[c[1]].coord \in t.expandedKeys
               \/ ToExpand(t, c[1])

(* A requirement to be followed: of a root, or by a pre-pruning module.    *)
worthy(bi, c) == c[1] \in roots \/ goMod(bi.coord).prePruning

(* Every coordinate has a go.mod, the empty one for a leaf.                *)
LEMMA GoModTyped ==
    ASSUME IsWorld(world), NEW c
    PROVE  goMod(c).prePruning \in BOOLEAN /\ goMod(c).requires \in Seq(Requirement)
<1>1. \A d \in DOMAIN world.gomod : world.gomod[d] \in GoMod
  BY DEF IsWorld
<1>2. <<>> \in Seq(Requirement)
  OBVIOUS
<1> QED BY <1>1, <1>2 DEF goMod, GoMod

(* An appended item is queued, and what was queued stays.                  *)
LEMMA AppendedToExpand ==
    ASSUME NEW s \in States, NEW q \in Item, NEW t, t.queue = Append(s.queue, q)
    PROVE  /\ Queued(t, q.key)
           /\ q.expand => ToExpand(t, q.key)
           /\ \A p : Queued(s, p) => Queued(t, p)
           /\ \A p : ToExpand(s, p) => ToExpand(t, p)
<1>1. s.queue \in Seq(Item)
  BY StateFacts
<1>2. /\ DOMAIN t.queue = 1..(Len(s.queue) + 1) /\ t.queue[Len(s.queue) + 1] = q
      /\ Len(s.queue) + 1 \in DOMAIN t.queue
      /\ \A i \in DOMAIN s.queue : i \in DOMAIN t.queue /\ t.queue[i] = s.queue[i]
  BY <1>1
<1> QED BY <1>2 DEF Queued, ToExpand

(* A requirement of an expanded module is handled in one of the four ways, *)
(* and met (enqueueTransitive).                                            *)
LEMMA FollowShape ==
    ASSUME IsWorld(world), NEW s \in States, NEW bi \in Task, NEW req \in Requirement
    PROVE  LET t == enqueueTransitive(s, bi, req)
           IN  /\ t \in States
               /\ Handled(s, t, req.coord, worthy(bi, req.coord))
               /\ IsMet(t, req.coord, worthy(bi, req.coord))
<1> DEFINE c == req.coord
           o == applyReplace(c)
           t == enqueueTransitive(s, bi, req)
           u == withEdge(s, bi.coord, o, c)
           d == c[1] \in DOMAIN s.nodes /\ s.nodes[c[1]].direct
           n == nodeOf(o, d)
           expand == worthy(bi, c)
<1>1. /\ c \in Published /\ c \in Coordinates /\ c[1] \in Paths /\ c[2] \in 0..MaxVersion
      /\ bi.coord \in Coordinates
      /\ s \in StateFields /\ bi.depth + 1 \in Nat
  BY CoordinateFacts, FieldsTyped DEF Requirement, Task
<1> HIDE DEF c
<1>2. expand \in BOOLEAN
  BY GoModTyped DEF worthy
<1>3. d \in BOOLEAN
  <2>1. \A p \in DOMAIN s.nodes : s.nodes[p].direct \in BOOLEAN
    BY StateFacts DEF NodeType
  <2> QED BY <2>1
<1>4. u \in StateFields /\ OnlyEdges(s, u) /\ EdgeAdded(s, u, c)
  BY <1>1, EdgePiece
<1>5. /\ n \in NodeType /\ n.coord = applyReplace(c).to
      /\ n.original = applyReplace(c).original /\ n.source = applyReplace(c).source
  BY <1>1, <1>3, NodeOfTyped
<1>6. CASE o.source = "local_replace"
  <2>1. t = localReplace(s, bi.coord, applyReplace(c), c, FALSE)
    BY <1>6 DEF enqueueTransitive, c
  <2> HIDE DEF t
  <2>2. t \in States /\ (Known(s, t, c) \/ Placeheld(s, t, c))
    BY <1>1, <1>6, <2>1, LocalShape
  <2>3. c[1] \in DOMAIN t.nodes
    BY <2>2 DEF Known, Placeheld, SameNodes, NodeSet, Entered
  <2> QED BY <1>6, <2>2, <2>3 DEF Handled, IsMet, t, c
<1>7. CASE o.source # "local_replace" /\ isExcluded(o.to)
  <2>1. t = s
    BY <1>7 DEF enqueueTransitive, c
  <2> HIDE DEF t
  <2> QED BY <1>7, <2>1 DEF Handled, IsMet, t, c
<1>8. CASE o.source # "local_replace" /\ ~isExcluded(o.to) /\ bi.atMaxDepth
  <2> DEFINE m == [n EXCEPT !.source = "depth_bounded"]
             w == setNode(u, c, m)
  <2>1. t = [IF c[1] \in DOMAIN s.selected THEN u ELSE w EXCEPT !.truncated = TRUE]
    BY <1>8 DEF enqueueTransitive, c
  <2> HIDE DEF t, u, n
  <2>2. /\ m \in NodeType /\ m.coord = applyReplace(c).to
        /\ m.original = applyReplace(c).original /\ m.source = "depth_bounded"
    BY <1>5 DEF NodeType, Sources
  <2> HIDE DEF m
  <2>3. /\ w \in StateFields /\ Frame(u, w) /\ w.edges = u.edges
        /\ w.queue = u.queue
        /\ w.selected = Entered(u.selected, c[1], c[2])
        /\ w.nodes = Entered(u.nodes, c[1], m)
    BY <1>1, <1>4, <2>2, NodePiece
  <2> HIDE DEF w
  <2>4. \A x \in StateFields : LET y == [x EXCEPT !.truncated = TRUE] IN
          /\ y \in StateFields /\ Frame(x, y) /\ y.edges = x.edges /\ y.queue = x.queue
          /\ y.selected = x.selected /\ y.nodes = x.nodes /\ y.truncated = TRUE
    BY DEF StateFields, Frame
  <2>5. CASE c[1] \in DOMAIN s.selected
    <3>1. t = [u EXCEPT !.truncated = TRUE]
      BY <2>1, <2>5
    <3>2. /\ t \in StateFields /\ Frame(u, t) /\ t.edges = u.edges /\ t.queue = u.queue
          /\ t.selected = u.selected /\ t.nodes = u.nodes /\ t.truncated = TRUE
      BY <1>4, <2>4, <3>1
    <3>3. c[1] \in DOMAIN s.nodes
      BY <2>5, StateFacts
    <3>4. Known(s, t, c)
      BY <1>4, <3>2, <3>3 DEF Known, OnlyEdges, Frame, EdgeAdded, SameNodes
    <3>5. t \in States
      BY <1>4, <3>2, StateFacts, QueueKeys DEF OnlyEdges
    <3> QED BY <3>2, <3>4, <3>5 DEF Handled, IsMet, t, c
  <2>6. CASE c[1] \notin DOMAIN s.selected
    <3>1. t = [w EXCEPT !.truncated = TRUE]
      BY <2>1, <2>6
    <3>2. /\ t \in StateFields /\ Frame(w, t) /\ t.edges = w.edges /\ t.queue = w.queue
          /\ t.selected = w.selected /\ t.nodes = w.nodes /\ t.truncated = TRUE
      BY <2>3, <2>4, <3>1
    <3>3. NodeSet(s, t, c, "depth_bounded")
      BY <1>4, <2>2, <2>3, <3>2 DEF NodeSet, OnlyEdges
    <3>4. Placeheld(s, t, c)
      BY <1>4, <1>8, <2>3, <2>6, <3>2, <3>3 DEF Placeheld, OnlyEdges, Frame, EdgeAdded
    <3>5. t \in States
      <4>1. DOMAIN t.selected = DOMAIN s.selected \cup {c[1]} /\ DOMAIN t.nodes = DOMAIN s.nodes \cup {c[1]}
        BY <1>4, <2>3, <3>2 DEF OnlyEdges, Entered
      <4> QED BY <1>4, <2>3, <3>2, <4>1, StateFacts, QueueKeys DEF OnlyEdges
    <3> QED BY <3>2, <3>4, <3>5 DEF Handled, IsMet, t, c
  <2> QED BY <2>5, <2>6
<1>9. CASE o.source # "local_replace" /\ ~isExcluded(o.to) /\ ~bi.atMaxDepth /\ wins(s, c)
  <2>1. t = [setNode(withEdge(s, bi.coord, applyReplace(c), c), c, nodeOf(applyReplace(c), d))
              EXCEPT !.queue = Append(@, queueItem(nodeOf(applyReplace(c), d), c[1], bi.depth + 1, expand))]
    BY <1>9 DEF enqueueTransitive, worthy, c
  <2> HIDE DEF t, d, expand
  <2>2. t \in States /\ Raised(s, t, c, expand)
    BY <1>1, <1>2, <1>3, <1>9, <2>1, RaiseShape
  <2>3. IsMet(t, c, expand)
    <3>1. PICK q \in Item : t.queue = Append(s.queue, q) /\ ItemFor(q, t, c[1]) /\ q.expand = expand
      BY <2>2 DEF Raised
    <3>2. expand => ToExpand(t, c[1])
      BY <3>1, AppendedToExpand DEF ItemFor
    <3>3. c[1] \in DOMAIN t.nodes /\ c[1] \in DOMAIN t.selected /\ t.selected[c[1]] = c[2]
      BY <2>2 DEF Raised, NodeSet, Entered
    <3> QED BY <1>1, <3>2, <3>3 DEF IsMet
  <2> QED BY <2>2, <2>3 DEF Handled, t, c, expand
<1>10. CASE o.source # "local_replace" /\ ~isExcluded(o.to) /\ ~bi.atMaxDepth /\ ~wins(s, c)
  <2>1. t = IF expand THEN reExpand(u, c[1], bi.depth + 1) ELSE u
    BY <1>10 DEF enqueueTransitive, worthy, c
  <2>2. /\ c[1] \in DOMAIN s.selected /\ c[1] \in DOMAIN s.nodes /\ s.nodes[c[1]] \in NodeType
        /\ c[2] <= s.selected[c[1]]
    BY <1>1, <1>10, StateFacts DEF wins, versionGT
  <2> HIDE DEF t, u, expand
  <2>3. CASE t = u /\ (expand => \/ s.nodes[c[1]].source = "local_replace"
                                 \/ s.nodes[c[1]].coord \in s.expandedKeys)
    <3>1. Known(s, t, c)
      BY <1>4, <1>10, <2>2, <2>3 DEF Known, OnlyEdges, SameNodes
    <3>2. t \in States
      BY <1>4, <2>3, StateFacts, QueueKeys DEF OnlyEdges
    <3>3. IsMet(t, c, expand)
      BY <1>4, <2>2, <2>3 DEF IsMet, OnlyEdges, Frame
    <3> QED BY <3>1, <3>2, <3>3 DEF Handled, t, c, expand
  <2>4. CASE t # u \/ ~(expand => \/ s.nodes[c[1]].source = "local_replace"
                                  \/ s.nodes[c[1]].coord \in s.expandedKeys)
    <3> DEFINE q == queueItem(s.nodes[c[1]], c[1], bi.depth + 1, TRUE)
    <3>1. /\ expand /\ s.nodes[c[1]].source # "local_replace"
          /\ t = [u EXCEPT !.queue = Append(@, q)]
      <4>1. u.nodes = s.nodes /\ u.expandedKeys = s.expandedKeys
        BY <1>4 DEF OnlyEdges, Frame
      <4>2. reExpand(u, c[1], bi.depth + 1) =
              IF s.nodes[c[1]].source = "local_replace" \/ s.nodes[c[1]].coord \in s.expandedKeys
              THEN u ELSE [u EXCEPT !.queue = Append(@, q)]
        BY <4>1 DEF reExpand
      <4> HIDE DEF q
      <4> QED BY <1>2, <2>1, <2>4, <4>2
    <3>2. /\ q \in Item /\ q.key = c[1] /\ q.coord = s.nodes[c[1]].coord /\ q.expand = TRUE
          /\ q.pinned = (s.nodes[c[1]].original # NoCoord)
      BY <1>1, <2>2 DEF queueItem, Item, NodeType
    <3> HIDE DEF q
    <3>3. /\ t \in StateFields /\ Frame(u, t) /\ t.edges = u.edges
          /\ t.truncated = u.truncated /\ t.selected = u.selected /\ t.nodes = u.nodes
          /\ t.queue = Append(u.queue, q)
      BY <1>4, <3>1, <3>2, QueuePiece
    <3>4. ItemFor(q, t, c[1]) /\ t.queue = Append(s.queue, q)
      BY <1>4, <2>2, <3>2, <3>3 DEF ItemFor, OnlyEdges
    <3>5. Known(s, t, c)
      BY <1>4, <1>10, <2>2, <3>1, <3>2, <3>3, <3>4 DEF Known, OnlyEdges, SameNodes, Frame, EdgeAdded
    <3>6. t \in States
      BY <1>4, <2>2, <3>2, <3>3, <3>4, StateFacts, QueueKeys DEF OnlyEdges
    <3>7. ToExpand(t, c[1])
      BY <3>2, <3>4, AppendedToExpand
    <3>8. IsMet(t, c, expand)
      BY <1>4, <2>2, <3>3, <3>7 DEF IsMet, OnlyEdges
    <3> QED BY <3>5, <3>6, <3>8 DEF Handled, t, c, expand
  <2> QED BY <2>3, <2>4
<1> QED BY <1>6, <1>7, <1>8, <1>9, <1>10 DEF c

---------------------------------------------------------------------------
(* The parts of the inductive invariant. A node stands where its selected  *)
(* version and the replaces put it, and the target is not lowered.         *)
AtSelected(s, p) ==
    /\ s.nodes[p].coord = applyReplace(<<p, s.selected[p]>>).to
    /\ s.nodes[p].original = applyReplace(<<p, s.selected[p]>>).original
    /\ s.nodes[p].source = "local_replace" <=> how(p) = "local_replace"

(* What a node that claims to be resolved says.                            *)
resolved == {"mvs", "replace"}

Placed(s) ==
    /\ DOMAIN s.selected = DOMAIN s.nodes /\ Target \in DOMAIN s.nodes
    /\ \A p \in DOMAIN s.nodes : AtSelected(s, p)
    /\ s.selected[Target] >= TargetCoord[2]
    /\ s.nodes[Target].source \in resolved => s.selected[Target] > TargetCoord[2]

(* An edge asks for no more than what is selected, and what is selected    *)
(* was asked for.                                                          *)
EdgeAsks(s, e) ==
    \E p \in DOMAIN s.selected :
        /\ e.to = applyReplace(<<p, e.constraint>>).to
        /\ s.truncated \/ how(p) # "mvs" \/ e.constraint <= s.selected[p]

IsAsked(s, p) ==
    \/ how(p) # "mvs" \/ <<p, s.selected[p]>> = TargetCoord
    \/ \E e \in s.edges : e.to = <<p, s.selected[p]>> /\ e.constraint = s.selected[p]

Asked(s) == (\A e \in s.edges : EdgeAsks(s, e)) /\ \A p \in DOMAIN s.selected : IsAsked(s, p)

(* An item of the queue will be coerced to the node of its path.           *)
Fits(q) ==
    /\ how(q.key) # "local_replace" /\ q.pinned = (how(q.key) = "replace")
    /\ q.pinned => q.coord = forkOf(q.key)
    /\ ~q.pinned => q.coord[1] = q.key
    /\ q.key \in roots => q.expand

InLine(s) == \A i \in DOMAIN s.queue : Fits(s.queue[i])

(* F is being fetched. What is resolved was, is being or will be fetched,  *)
(* and a fork whose fetch failed has left its mark.                        *)
hasFailed(s) == s.partial \cap failures # {}

IsFetched(s, F, p) ==
    /\ s.nodes[p].coord \in s.processed \/ Queued(s, p)
    /\ s.nodes[p].coord \in s.processed =>
         s.nodes[p].coord \in s.parsed \cup F \/ (s.nodes[p].coord \in forks /\ hasFailed(s))

Passed(s, F, c) ==
    /\ c \in forks \/ (c[1] \in DOMAIN s.selected /\ c[2] <= s.selected[c[1]])
    /\ c = TargetCoord \/ c \in s.parsed \cup F \/ hasFailed(s)

Fetched(s, F) ==
    /\ \A p \in DOMAIN s.nodes : s.nodes[p].source \in resolved => IsFetched(s, F, p)
    /\ \A c \in s.processed : Passed(s, F, c)

(* X is about to be expanded, and D is being expanded. From version v on,  *)
(* some version of the module is.                                          *)
Covered(s, X, p, v) ==
    /\ p \in DOMAIN s.selected /\ v <= s.selected[p]
    /\ \/ \E w \in v..s.selected[p] : applyReplace(<<p, w>>).to \in s.expandedKeys \cup X
       \/ ToExpand(s, p)

Satisfied(s, X, c, r) ==
    \/ isExcluded(applyReplace(r.coord).to) \/ s.truncated
    \/ /\ r.coord[1] \in DOMAIN s.nodes
       /\ goMod(c).prePruning =>
            applyReplace(r.coord).source = "local_replace" \/ Covered(s, X, r.coord[1], r.coord[2])

RootsCovered(s, X) ==
    \A p \in roots \cap DOMAIN s.nodes :
        s.nodes[p].source \in resolved => Covered(s, X, p, s.selected[p])

(* Every requirement of c is.                                              *)
AllSatisfied(s, X, c) ==
    \A r \in ToSet(filterRequires(goMod(c).requires)) : Satisfied(s, X, c, r)

Followed(s, X, D) ==
    /\ RootsCovered(s, X)
    /\ \A c \in (s.expandedKeys \cap s.parsed) \ D : AllSatisfied(s, X, c)

(* Nothing is expanded or fetched that was not taken up before, and        *)
(* nothing is fetched twice.                                               *)
Fresh(s, F, X) ==
    /\ s.expandedKeys \cup X \cup F \subseteq s.processed
    /\ F \cap s.expandedKeys = {} /\ TargetCoord \in s.processed

(* The level invariant: F is being fetched, X is to be expanded, D is      *)
(* being expanded.                                                         *)
Inv(s, F, X, D) ==
    /\ s \in States /\ Placed(s) /\ Asked(s) /\ InLine(s)
    /\ Fetched(s, F) /\ Followed(s, X, D) /\ Fresh(s, F, X)

---------------------------------------------------------------------------
(* What handling a requirement keeps.                                      *)
(* The path of c is set to it.                                             *)
SetTo(s, t, c, source) ==
    /\ DOMAIN t.selected = DOMAIN s.selected \cup {c[1]}
    /\ DOMAIN t.nodes = DOMAIN s.nodes \cup {c[1]}
    /\ t.selected[c[1]] = c[2]
    /\ \A p \in DOMAIN s.selected \ {c[1]} : t.selected[p] = s.selected[p]
    /\ t.nodes[c[1]].coord = applyReplace(c).to
    /\ t.nodes[c[1]].original = applyReplace(c).original
    /\ t.nodes[c[1]].source = source
    /\ \A p \in DOMAIN s.nodes \ {c[1]} : t.nodes[p] = s.nodes[p]

(* Setting a node, field by field.                                         *)
LEMMA NodeSetIs ==
    ASSUME NEW s, NEW t, NEW c, NEW source, NodeSet(s, t, c, source)
    PROVE  SetTo(s, t, c, source)
  BY DEF NodeSet, SetTo, Entered

(* Both ways of setting the path of c.                                     *)
Sets(s, t, c, source) ==
    /\ Frame(s, t) /\ EdgeAdded(s, t, c) /\ SetTo(s, t, c, source)
    /\ wins(s, c)
    /\ source \in resolved => applyReplace(c).source # "local_replace"
    /\ source = "local_replace" <=> applyReplace(c).source = "local_replace"
    /\ t.truncated = s.truncated \/ t.truncated = TRUE

(* A node that is not fetched sets its path.                               *)
LEMMA PlaceheldSets ==
    ASSUME NEW s, NEW t, NEW c, Placeheld(s, t, c)
    PROVE  \E source \in {"local_replace", "depth_bounded"} : Sets(s, t, c, source)
<1>1. wins(s, c)
  BY DEF Placeheld, wins
<1>2. CASE applyReplace(c).source = "local_replace" /\ NodeSet(s, t, c, "local_replace")
           /\ t.truncated = s.truncated
  <2>1. Sets(s, t, c, "local_replace")
    BY <1>1, <1>2, NodeSetIs DEF Sets, Placeheld, resolved
  <2> QED BY <2>1
<1>3. CASE applyReplace(c).source # "local_replace" /\ NodeSet(s, t, c, "depth_bounded")
           /\ t.truncated = TRUE
  <2>1. Sets(s, t, c, "depth_bounded")
    BY <1>1, <1>3, NodeSetIs DEF Sets, Placeheld, resolved
  <2> QED BY <2>1
<1> QED BY <1>2, <1>3 DEF Placeheld

(* A raise sets its path.                                                  *)
LEMMA RaisedSets ==
    ASSUME NEW s, NEW t, NEW c, NEW expand, Raised(s, t, c, expand)
    PROVE  Sets(s, t, c, applyReplace(c).source) /\ applyReplace(c).source # "local_replace"
  BY NodeSetIs DEF Raised, Sets

(* What an ordinary replacement says, for a coordinate.                    *)
LEMMA ApplyAt ==
    ASSUME IsWorld(world), ordinaryReplaces, NEW c \in Coordinates
    PROVE  /\ applyReplace(c).source = how(c[1]) /\ c = <<c[1], c[2]>>
           /\ how(c[1]) = "mvs" => /\ applyReplace(c).to = c
                                   /\ applyReplace(c).original = NoCoord
           /\ how(c[1]) # "mvs" => c[1] # Target /\ applyReplace(c).original = c
           /\ how(c[1]) = "local_replace" => applyReplace(c).to = <<c[1], 0>>
           /\ how(c[1]) = "replace" =>
                applyReplace(c).to = forkOf(c[1]) /\ forkOf(c[1]) \in forks
<1>1. c[1] \in Paths /\ c[2] \in 0..MaxVersion /\ c = <<c[1], c[2]>>
  BY CoordinateFacts
<1> HIDE DEF ordinaryReplaces
<1> QED BY <1>1, ApplyOrdinary

(* No ordinary replace is of the target.                                   *)
LEMMA HowMvsTarget ==
    ASSUME IsWorld(world), ordinaryReplaces
    PROVE  how(Target) = "mvs"
<1>1. Target \in Paths /\ 0 \in 0..MaxVersion
  BY Bounds
<1> QED BY <1>1, ApplyOrdinary

(* Setting a path to a requirement that wins leaves every node where       *)
(* selection puts it.                                                      *)
LEMMA SetPlaced ==
    ASSUME IsWorld(world), ordinaryReplaces, NEW s \in States, NEW t \in States,
           NEW c \in Coordinates, NEW source, Sets(s, t, c, source), Placed(s)
    PROVE  Placed(t)
<1>1. SetTo(s, t, c, source) /\ DOMAIN s.selected = DOMAIN s.nodes /\ Target \in DOMAIN s.nodes
  BY DEF Sets, Placed
<1>2. DOMAIN t.selected = DOMAIN t.nodes /\ Target \in DOMAIN t.nodes
  BY <1>1 DEF SetTo
<1>3. ASSUME NEW p \in DOMAIN t.nodes PROVE AtSelected(t, p)
  <2>1. CASE p = c[1]
    <3>1. c = <<p, t.selected[p]>> /\ applyReplace(c).source = how(p)
      BY <1>1, <2>1, ApplyAt DEF SetTo
    <3> QED BY <1>1, <2>1, <3>1 DEF AtSelected, SetTo, Sets
  <2>2. CASE p # c[1]
    <3>1. p \in DOMAIN s.nodes /\ p \in DOMAIN s.selected /\ AtSelected(s, p)
      BY <1>1, <1>3, <2>2 DEF SetTo, Placed
    <3> QED BY <1>1, <2>2, <3>1 DEF AtSelected, SetTo
  <2> QED BY <2>1, <2>2
<1>4. /\ t.selected[Target] >= TargetCoord[2]
      /\ t.nodes[Target].source \in resolved => t.selected[Target] > TargetCoord[2]
  <2>1. CASE c[1] = Target
    <3>1. c[2] > s.selected[Target] /\ s.selected[Target] >= TargetCoord[2]
      BY <1>1, <2>1 DEF Sets, wins, versionGT, Placed
    <3>2. t.selected[Target] = c[2] /\ c[2] \in Int /\ s.selected[Target] \in Int
          /\ TargetCoord[2] \in Int
      BY <1>1, <2>1, CoordinateFacts, StateFacts DEF SetTo
    <3> QED BY <3>1, <3>2
  <2>2. CASE c[1] # Target
    BY <1>1, <2>2 DEF SetTo, Placed
  <2> QED BY <2>1, <2>2
<1> QED BY <1>2, <1>3, <1>4 DEF Placed

(* So does a requirement of a known path.                                  *)
LEMMA KnownPlaced ==
    ASSUME NEW s, NEW t, SameNodes(s, t), Placed(s)
    PROVE  Placed(t)
<1>1. \A p \in DOMAIN s.nodes : AtSelected(t, p)
  BY DEF Placed, SameNodes, AtSelected
<1>2. /\ t.selected = s.selected /\ DOMAIN t.nodes = DOMAIN s.nodes
      /\ t.nodes[Target].source = s.nodes[Target].source
  BY DEF SameNodes, Placed
<1> QED BY <1>1, <1>2 DEF Placed

(* Setting a path to a requirement that wins keeps every selected version  *)
(* asked for, and none asked for above it.                                 *)
LEMMA SetAsked ==
    ASSUME IsWorld(world), ordinaryReplaces, NEW s \in States, NEW t \in States,
           NEW c \in Coordinates, NEW source, Sets(s, t, c, source), Asked(s)
    PROVE  Asked(t)
<1>1. SetTo(s, t, c, source) /\ (t.truncated = s.truncated \/ t.truncated = TRUE)
  BY DEF Sets
<1>2. PICK e0 \in EdgeType : t.edges = s.edges \cup {e0}
                             /\ e0.to = applyReplace(c).to /\ e0.constraint = c[2]
  BY DEF Sets, EdgeAdded
<1>3. c = <<c[1], c[2]>> /\ c[2] \in Int /\ t.selected[c[1]] = c[2] /\ c[1] \in DOMAIN t.selected
  BY <1>1, CoordinateFacts DEF SetTo
<1>4. EdgeAsks(t, e0)
  BY <1>2, <1>3 DEF EdgeAsks
<1>5. ASSUME NEW e \in s.edges PROVE EdgeAsks(t, e)
  <2>1. PICK p \in DOMAIN s.selected :
            /\ e.to = applyReplace(<<p, e.constraint>>).to
            /\ s.truncated \/ how(p) # "mvs" \/ e.constraint <= s.selected[p]
    BY DEF Asked, EdgeAsks
  <2>2. p \in DOMAIN t.selected /\ s.selected[p] <= t.selected[p]
    <3>1. CASE p = c[1]
      BY <1>1, <1>3, <2>1, <3>1, StateFacts DEF Sets, wins, versionGT
    <3>2. CASE p # c[1]
      BY <1>1, <2>1, <3>2, StateFacts DEF SetTo
    <3> QED BY <3>1, <3>2
  <2>3. e.constraint \in Int /\ s.selected[p] \in Int /\ t.selected[p] \in Int
    BY <2>1, <2>2, StateFacts DEF EdgeType
  <2> QED BY <1>1, <2>1, <2>2, <2>3 DEF EdgeAsks
<1>6. ASSUME NEW p \in DOMAIN t.selected PROVE IsAsked(t, p)
  <2>1. CASE p = c[1]
    <3>1. how(p) = "mvs" => e0.to = <<p, t.selected[p]>> /\ e0.constraint = t.selected[p]
      BY <1>2, <1>3, <2>1, ApplyAt
    <3> QED BY <1>2, <3>1 DEF IsAsked
  <2>2. CASE p # c[1]
    <3>1. p \in DOMAIN s.selected /\ t.selected[p] = s.selected[p] /\ IsAsked(s, p)
      BY <1>1, <1>6, <2>2 DEF SetTo, Asked
    <3> QED BY <1>2, <3>1 DEF IsAsked
  <2> QED BY <2>1, <2>2
<1> QED BY <1>2, <1>4, <1>5, <1>6 DEF Asked

(* So does a requirement that does not win.                                *)
LEMMA KnownAsked ==
    ASSUME IsWorld(world), ordinaryReplaces, NEW s \in States, NEW t \in States,
           NEW c \in Coordinates, Known(s, t, c), Asked(s), Placed(s)
    PROVE  Asked(t)
<1>1. PICK e0 \in EdgeType : t.edges = s.edges \cup {e0}
                             /\ e0.to = applyReplace(c).to /\ e0.constraint = c[2]
  BY DEF Known, EdgeAdded
<1>2. /\ t.selected = s.selected /\ c[1] \in DOMAIN s.selected
      /\ (t.truncated = s.truncated /\ (wins(s, c) => applyReplace(c).source = "local_replace"))
         \/ t.truncated = TRUE
  BY DEF Known, SameNodes, Placed
<1>3. EdgeAsks(t, e0)
  <2>1. c = <<c[1], c[2]>> /\ c[2] \in Int /\ s.selected[c[1]] \in Int
        /\ applyReplace(c).source = how(c[1])
    BY <1>2, CoordinateFacts, StateFacts, ApplyAt
  <2>2. t.truncated \/ how(c[1]) # "mvs" \/ c[2] <= t.selected[c[1]]
    BY <1>2, <2>1 DEF wins, versionGT
  <2> QED BY <1>1, <1>2, <2>1, <2>2 DEF EdgeAsks
<1>4. \A e \in s.edges : EdgeAsks(t, e)
  BY <1>2 DEF Asked, EdgeAsks
<1>5. \A p \in DOMAIN s.selected : IsAsked(t, p)
  BY <1>1, <1>2 DEF Asked, IsAsked
<1> QED BY <1>1, <1>2, <1>3, <1>4, <1>5 DEF Asked

(* The queue keeps its items and gains at most one, of a placed module.    *)
Queues(s, t, c, expand) ==
    \/ t.queue = s.queue
    \/ \E q \in Item : /\ t.queue = Append(s.queue, q) /\ ItemFor(q, t, c[1])
                       /\ expand => q.expand
                       /\ how(c[1]) # "local_replace"

(* What was queued stays queued, and the new item is of the path required. *)
LEMMA QueueIsKept ==
    ASSUME NEW s \in States, NEW t, NEW c, NEW expand, Queues(s, t, c, expand)
    PROVE  /\ \A p : Queued(s, p) => Queued(t, p)
           /\ \A p : ToExpand(s, p) => ToExpand(t, p)
           /\ \A i \in DOMAIN t.queue :
                \/ i \in DOMAIN s.queue /\ t.queue[i] = s.queue[i]
                \/ /\ t.queue[i] \in Item /\ ItemFor(t.queue[i], t, c[1])
                   /\ (expand => t.queue[i].expand) /\ how(c[1]) # "local_replace"
<1>1. CASE t.queue = s.queue
  BY <1>1 DEF Queued, ToExpand
<1>2. ASSUME NEW q \in Item, t.queue = Append(s.queue, q), ItemFor(q, t, c[1]),
             expand => q.expand, how(c[1]) # "local_replace"
      PROVE  /\ \A p : Queued(s, p) => Queued(t, p)
             /\ \A p : ToExpand(s, p) => ToExpand(t, p)
             /\ \A i \in DOMAIN t.queue :
                  \/ i \in DOMAIN s.queue /\ t.queue[i] = s.queue[i]
                  \/ t.queue[i] = q
  <2>1. s.queue \in Seq(Item)
    BY StateFacts
  <2>2. \A i \in DOMAIN t.queue :
                  \/ i \in DOMAIN s.queue /\ t.queue[i] = s.queue[i]
                  \/ t.queue[i] = q
    BY <1>2, <2>1
  <2> QED BY <1>2, <2>2, AppendedToExpand
<1> QED BY <1>1, <1>2 DEF Queues

(* The new item will be coerced to the node of its path.                   *)
LEMMA QueuesInLine ==
    ASSUME IsWorld(world), ordinaryReplaces, NEW s \in States, NEW t \in States,
           NEW c \in Coordinates, NEW expand, Queues(s, t, c, expand),
           c[1] \in roots => expand, InLine(s), Placed(t)
    PROVE  InLine(t)
<1> SUFFICES ASSUME NEW i \in DOMAIN t.queue PROVE Fits(t.queue[i])
  BY DEF InLine
<1> DEFINE q == t.queue[i]
<1>1. CASE i \in DOMAIN s.queue /\ q = s.queue[i]
  BY <1>1 DEF InLine
<1>2. CASE q \in Item /\ ItemFor(q, t, c[1]) /\ (expand => q.expand)
           /\ how(c[1]) # "local_replace"
  <2> DEFINE p == c[1]
             d == <<p, t.selected[p]>>
  <2>1. /\ q.key = p /\ q.coord = t.nodes[p].coord
        /\ q.pinned = (t.nodes[p].original # NoCoord) /\ p \in DOMAIN t.selected
        /\ p \in DOMAIN t.nodes
    BY <1>2, StateFacts DEF ItemFor
  <2>2. t.nodes[p].coord = applyReplace(d).to /\ t.nodes[p].original = applyReplace(d).original
    BY <2>1 DEF Placed, AtSelected
  <2>3. d \in Coordinates /\ d[1] = p
    BY <2>1, StateFacts, CoordinateFacts
  <2> HIDE DEF d, p, q
  <2>4. /\ applyReplace(d).source = how(p)
        /\ how(p) = "mvs" => applyReplace(d).to = d /\ applyReplace(d).original = NoCoord
        /\ how(p) # "mvs" => applyReplace(d).original = d
        /\ how(p) = "replace" => applyReplace(d).to = forkOf(p)
    BY <2>3, ApplyAt
  <2>5. how(p) \in {"mvs", "replace", "local_replace"} /\ d # NoCoord
    BY <2>3, <2>4, ApplyTyped, CoordinateFacts
  <2>6. how(p) \in {"mvs", "replace"}
    BY <1>2, <2>5 DEF p
  <2>7. p \in roots => q.expand
    BY <1>2 DEF p
  <2>8. q.pinned = (how(p) = "replace")
    BY <2>1, <2>2, <2>4, <2>5, <2>6
  <2>9. Fits(q)
    BY <2>1, <2>2, <2>3, <2>4, <2>6, <2>7, <2>8 DEF Fits
  <2> QED BY <2>9 DEF q
<1> QED BY <1>1, <1>2, QueueIsKept

---------------------------------------------------------------------------
(* The fork a replace names is never the target.                           *)
LEMMA TargetIsNoFork ==
    ASSUME IsWorld(world), ordinaryReplaces
    PROVE  TargetCoord \notin forks
<1>1. \A r \in replaceMap : r.new # NoCoord => r.new[1] # Target
  BY DEF ordinaryReplaces
<1>2. TargetCoord # NoCoord /\ TargetCoord[1] = Target
  BY CoordinateFacts
<1> QED BY <1>1, <1>2 DEF forks

(* A path set to another version is queued again, so its node will be      *)
(* fetched (the wins branches).                                            *)
LEMMA SetFetched ==
    ASSUME IsWorld(world), ordinaryReplaces, NEW s \in States, NEW t \in States,
           NEW c \in Coordinates, NEW source, Sets(s, t, c, source), NEW F, NEW expand,
           source \in resolved => Queued(t, c[1]),
           Queues(s, t, c, expand), Fetched(s, F), Placed(s)
    PROVE  Fetched(t, F)
<1>1. SetTo(s, t, c, source) /\ t.processed = s.processed /\ t.parsed = s.parsed
      /\ t.partial = s.partial
  BY DEF Sets, Frame
<1>2. hasFailed(t) = hasFailed(s)
  BY <1>1 DEF hasFailed
<1>3. ASSUME NEW d \in t.processed PROVE Passed(t, F, d)
  <2>1. Passed(s, F, d) /\ d \in Coordinates
    BY <1>1, <1>3, StateFacts DEF Fetched
  <2>2. d[1] \in DOMAIN s.selected /\ d[2] <= s.selected[d[1]] =>
          d[1] \in DOMAIN t.selected /\ d[2] <= t.selected[d[1]]
    <3> SUFFICES ASSUME d[1] \in DOMAIN s.selected, d[2] <= s.selected[d[1]]
                 PROVE  d[1] \in DOMAIN t.selected /\ d[2] <= t.selected[d[1]]
      OBVIOUS
    <3>1. CASE d[1] = c[1]
      <4>1. c[2] > s.selected[c[1]] /\ t.selected[c[1]] = c[2] /\ c[1] \in DOMAIN t.selected
        BY <1>1, <3>1 DEF Sets, SetTo, wins, versionGT
      <4>2. d[2] \in Int /\ c[2] \in Int /\ s.selected[c[1]] \in Int
        BY <2>1, <3>1, CoordinateFacts, StateFacts
      <4> QED BY <3>1, <4>1, <4>2
    <3>2. CASE d[1] # c[1]
      BY <1>1, <3>2 DEF SetTo
    <3> QED BY <3>1, <3>2
  <2> QED BY <1>1, <1>2, <2>1, <2>2 DEF Passed
<1>4. ASSUME NEW p \in DOMAIN t.nodes, t.nodes[p].source \in resolved
      PROVE  IsFetched(t, F, p)
  <2>1. CASE p # c[1]
    <3>1. p \in DOMAIN s.nodes /\ t.nodes[p] = s.nodes[p] /\ IsFetched(s, F, p)
      BY <1>1, <1>4, <2>1 DEF SetTo, Fetched
    <3>2. Queued(s, p) => Queued(t, p)
      BY QueueIsKept
    <3> QED BY <1>1, <1>2, <3>1, <3>2 DEF IsFetched
  <2>2. CASE p = c[1]
    <3>1. source \in resolved /\ Queued(t, p) /\ t.nodes[p].coord = applyReplace(c).to
      BY <1>1, <1>4, <2>2 DEF SetTo
    <3>2. SUFFICES ASSUME applyReplace(c).to \in s.processed
                   PROVE  applyReplace(c).to \in s.parsed \cup F
                          \/ (applyReplace(c).to \in forks /\ hasFailed(s))
      BY <1>1, <1>2, <3>1 DEF IsFetched
    <3> DEFINE d == applyReplace(c).to
    <3>3. Passed(s, F, d)
      BY <3>2 DEF Fetched
    <3>4. d \in forks
      <4>1. applyReplace(c).source # "local_replace"
        BY <3>1 DEF Sets
      <4>2. /\ applyReplace(c).source = how(c[1])
            /\ how(c[1]) = "mvs" => d = c
            /\ how(c[1]) = "replace" => d \in forks
        BY ApplyAt
      <4>3. how(c[1]) \in {"mvs", "replace"}
        BY <4>1, <4>2, ApplyTyped
      <4>4. CASE how(c[1]) = "mvs"
        <5>1. d = c
          BY <4>2, <4>4
        <5>2. ~(c[1] \in DOMAIN s.selected /\ c[2] <= s.selected[c[1]])
          <6>1. c[2] \in Int /\ \A x \in DOMAIN s.selected : s.selected[x] \in Int
            BY CoordinateFacts, StateFacts
          <6> QED BY <6>1 DEF Sets, wins, versionGT
        <5> QED BY <3>3, <5>1, <5>2 DEF Passed
      <4> QED BY <4>2, <4>3, <4>4
    <3>5. d # TargetCoord
      BY <3>4, TargetIsNoFork
    <3> QED BY <3>3, <3>4, <3>5 DEF Passed
  <2> QED BY <2>1, <2>2
<1> QED BY <1>3, <1>4 DEF Fetched

(* A known path stays fetched or to be fetched.                            *)
LEMMA KnownFetched ==
    ASSUME NEW s \in States, NEW t \in States, NEW c, NEW F, NEW expand, Frame(s, t),
           SameNodes(s, t), Queues(s, t, c, expand), Fetched(s, F)
    PROVE  Fetched(t, F)
<1>1. /\ t.processed = s.processed /\ t.parsed = s.parsed /\ t.partial = s.partial
      /\ t.selected = s.selected /\ hasFailed(t) = hasFailed(s)
  BY DEF Frame, SameNodes, hasFailed
<1>2. \A d \in t.processed : Passed(t, F, d)
  BY <1>1 DEF Fetched, Passed
<1>3. ASSUME NEW p \in DOMAIN t.nodes, t.nodes[p].source \in resolved
      PROVE  IsFetched(t, F, p)
  <2>1. p \in DOMAIN s.nodes /\ t.nodes[p].coord = s.nodes[p].coord /\ IsFetched(s, F, p)
    BY <1>3 DEF SameNodes, Fetched
  <2>2. Queued(s, p) => Queued(t, p)
    BY QueueIsKept
  <2> QED BY <1>1, <2>1, <2>2 DEF IsFetched
<1> QED BY <1>2, <1>3 DEF Fetched

---------------------------------------------------------------------------
(* What only grows, so that what was satisfied stays so.                   *)
Grows(s, t) ==
    /\ DOMAIN s.nodes \subseteq DOMAIN t.nodes
    /\ \A p \in DOMAIN s.selected : p \in DOMAIN t.selected /\ s.selected[p] <= t.selected[p]
    /\ s.expandedKeys \subseteq t.expandedKeys
    /\ \A p : ToExpand(s, p) => ToExpand(t, p)
    /\ s.truncated => t.truncated

(* What is followed stays followed as versions are raised.                 *)
LEMMA CoveredGrows ==
    ASSUME NEW s \in States, NEW t \in States, Grows(s, t), NEW X, NEW p,
           NEW v \in Int, Covered(s, X, p, v)
    PROVE  Covered(t, X, p, v)
<1>1. /\ p \in DOMAIN s.selected /\ p \in DOMAIN t.selected
      /\ v <= s.selected[p] /\ s.selected[p] <= t.selected[p]
      /\ s.expandedKeys \subseteq t.expandedKeys
      /\ ToExpand(s, p) => ToExpand(t, p)
  BY DEF Covered, Grows
<1>2. s.selected[p] \in Int /\ t.selected[p] \in Int
  BY <1>1, StateFacts
<1>3. CASE \E w \in v..s.selected[p] : applyReplace(<<p, w>>).to \in s.expandedKeys \cup X
  BY <1>1, <1>2, <1>3 DEF Covered
<1>4. CASE ToExpand(s, p)
  BY <1>1, <1>2, <1>4 DEF Covered
<1> QED BY <1>3, <1>4 DEF Covered

(* A requirement once satisfied stays satisfied.                           *)
LEMMA SatisfiedGrows ==
    ASSUME NEW s \in States, NEW t \in States, Grows(s, t), NEW X, NEW c,
           NEW r \in Requirement, Satisfied(s, X, c, r)
    PROVE  Satisfied(t, X, c, r)
<1>1. r.coord[2] \in Int
  BY CoordinateFacts DEF Requirement
<1>2. Covered(s, X, r.coord[1], r.coord[2]) => Covered(t, X, r.coord[1], r.coord[2])
  BY <1>1, CoveredGrows
<1>3. DOMAIN s.nodes \subseteq DOMAIN t.nodes /\ (s.truncated => t.truncated)
  BY DEF Grows
<1> QED BY <1>2, <1>3 DEF Satisfied

(* filterRequires keeps requirements.                                      *)
LEMMA FilteredTyped ==
    ASSUME NEW reqs \in Seq(Requirement)
    PROVE  filterRequires(reqs) \in Seq(Requirement)
<1> DEFINE St == Seq(Requirement)
<1>1. <<>> \in St /\ \A kept \in St, r \in Requirement : addDirect(kept, r) \in St
  BY DEF addDirect
<1> HIDE DEF St
<1>2. PICK tr \in [0..Len(reqs) -> St] : tr[Len(reqs)] = directs(<<>>, reqs)
  <2>1. DirectClosed(St, Requirement)
    BY <1>1 DEF DirectClosed
  <2>2. DirectTraced(St, <<>>, reqs)
    BY <1>1, <2>1, DirectTrace
  <2> QED BY <2>2 DEF DirectTraced
<1>3. tr[Len(reqs)] \in St
  <2>1. Len(reqs) \in 0..Len(reqs)
    OBVIOUS
  <2> QED BY <2>1
<1> QED BY <1>2, <1>3 DEF filterRequires, directs, St

(* Handling a requirement leaves the followed modules followed.            *)
LEMMA FollowedGrows ==
    ASSUME IsWorld(world), NEW s \in States, NEW t \in States, Grows(s, t),
           NEW X, NEW D, t.parsed = s.parsed, t.expandedKeys \ D = s.expandedKeys \ D,
           Followed(s, X, D), RootsCovered(t, X)
    PROVE  Followed(t, X, D)
<1>1. ASSUME NEW c \in (t.expandedKeys \cap t.parsed) \ D PROVE AllSatisfied(t, X, c)
  <2>1. AllSatisfied(s, X, c)
    BY <1>1 DEF Followed
  <2>2. filterRequires(goMod(c).requires) \in Seq(Requirement)
    BY GoModTyped, FilteredTyped
  <2>3. \A r \in ToSet(filterRequires(goMod(c).requires)) : r \in Requirement
    BY <2>2 DEF ToSet
  <2> QED BY <2>1, <2>3, SatisfiedGrows DEF AllSatisfied
<1> QED BY <1>1 DEF Followed

(* A requirement of a known path only adds, and the roots stay covered.    *)
LEMMA KnownGrows ==
    ASSUME NEW s \in States, NEW t \in States, NEW c, NEW expand, Known(s, t, c),
           Queues(s, t, c, expand), NEW X, RootsCovered(s, X)
    PROVE  Grows(s, t) /\ RootsCovered(t, X)
<1>1. /\ SameNodes(s, t) /\ t.expandedKeys = s.expandedKeys /\ (s.truncated => t.truncated)
  BY DEF Known, Frame
<1>2. Grows(s, t)
  <2>1. \A p \in DOMAIN s.selected : s.selected[p] <= s.selected[p]
    BY StateFacts
  <2> QED BY <1>1, <2>1, QueueIsKept DEF SameNodes, Grows
<1>3. ASSUME NEW p \in roots \cap DOMAIN t.nodes, t.nodes[p].source \in resolved
      PROVE  Covered(t, X, p, t.selected[p])
  <2>1. p \in DOMAIN s.nodes /\ s.nodes[p].source \in resolved /\ t.selected = s.selected
    BY <1>1, <1>3 DEF SameNodes
  <2>2. Covered(s, X, p, s.selected[p])
    BY <1>3, <2>1 DEF RootsCovered
  <2>3. s.selected[p] \in Int
    BY <2>2, StateFacts DEF Covered
  <2> QED BY <1>2, <2>1, <2>2, <2>3, CoveredGrows
<1> QED BY <1>2, <1>3 DEF RootsCovered

(* A raise only adds, and a raised root is queued to be expanded.          *)
LEMMA SetGrows ==
    ASSUME NEW s \in States, NEW t \in States, NEW c \in Coordinates, NEW expand, NEW source,
           Sets(s, t, c, source), Queues(s, t, c, expand), NEW X, RootsCovered(s, X),
           DOMAIN s.selected = DOMAIN s.nodes,
           source \in resolved /\ c[1] \in roots => ToExpand(t, c[1])
    PROVE  Grows(s, t) /\ RootsCovered(t, X)
<1>1. SetTo(s, t, c, source) /\ t.expandedKeys = s.expandedKeys /\ (s.truncated => t.truncated)
  BY DEF Sets, Frame
<1>2. ASSUME NEW p \in DOMAIN s.selected
      PROVE  p \in DOMAIN t.selected /\ s.selected[p] <= t.selected[p]
  <2>1. CASE p = c[1]
    <3>1. c[2] > s.selected[p] /\ t.selected[p] = c[2] /\ p \in DOMAIN t.selected
      BY <1>1, <2>1 DEF SetTo, Sets, wins, versionGT
    <3>2. c[2] \in Int /\ s.selected[p] \in Int
      BY CoordinateFacts, StateFacts
    <3> QED BY <3>1, <3>2
  <2>2. CASE p # c[1]
    <3>1. p \in DOMAIN t.selected /\ t.selected[p] = s.selected[p] /\ s.selected[p] \in Int
      BY <1>1, <2>2, StateFacts DEF SetTo
    <3> QED BY <3>1
  <2> QED BY <2>1, <2>2
<1>3. Grows(s, t)
  BY <1>1, <1>2, QueueIsKept DEF SetTo, Grows
<1>4. ASSUME NEW p \in roots \cap DOMAIN t.nodes, t.nodes[p].source \in resolved
      PROVE  Covered(t, X, p, t.selected[p])
  <2>1. CASE p = c[1]
    <3>1. ToExpand(t, p) /\ p \in DOMAIN t.selected
      BY <1>1, <1>4, <2>1 DEF SetTo
    <3>2. t.selected[p] \in Int
      BY <3>1, StateFacts
    <3> QED BY <3>1, <3>2 DEF Covered
  <2>2. CASE p # c[1]
    <3>1. p \in DOMAIN s.nodes /\ s.nodes[p].source \in resolved /\ t.selected[p] = s.selected[p]
      BY <1>1, <1>4, <2>2 DEF SetTo
    <3>2. Covered(s, X, p, s.selected[p])
      BY <1>4, <3>1 DEF RootsCovered
    <3>3. s.selected[p] \in Int
      BY <3>2, StateFacts DEF Covered
    <3> QED BY <1>3, <3>1, <3>2, <3>3, CoveredGrows
  <2> QED BY <2>1, <2>2
<1> QED BY <1>3, <1>4 DEF RootsCovered

---------------------------------------------------------------------------
(* A requirement keeps the invariant, and what is satisfied satisfied.     *)
LEMMA FreshFrame ==
    ASSUME NEW s, NEW t, Frame(s, t), NEW F, NEW X, Fresh(s, F, X)
    PROVE  Fresh(t, F, X)
  BY DEF Frame, Fresh

(* Whichever way a requirement is handled, the level invariant is kept.    *)
LEMMA HandledKeeps ==
    ASSUME IsWorld(world), ordinaryReplaces, NEW s, NEW t \in States, NEW c \in Coordinates,
           NEW expand, NEW F, NEW X, NEW D, Inv(s, F, X, D), Handled(s, t, c, expand),
           c[1] \in roots => expand
    PROVE  Inv(t, F, X, D) /\ Grows(s, t)
<1> USE DEF Inv
<1>0. s \in States /\ Placed(s) /\ RootsCovered(s, X) /\ DOMAIN s.selected = DOMAIN s.nodes
  BY DEF Followed, Placed
<1>1. CASE t = s
  <2>1. \A p \in DOMAIN s.selected : s.selected[p] <= s.selected[p]
    BY <1>0, StateFacts
  <2> QED BY <1>1, <2>1 DEF Grows
<1>2. CASE Known(s, t, c)
  <2>1. Placed(t)
    BY <1>2, KnownPlaced DEF Known
  <2>2. Asked(t)
    BY <1>2, KnownAsked
  <2>3. Queues(s, t, c, expand)
    <3>1. ASSUME s.nodes[c[1]].source # "local_replace" PROVE how(c[1]) # "local_replace"
      BY <1>2, <3>1 DEF Known, Placed, AtSelected
    <3> QED BY <1>2, <3>1 DEF Known, Queues
  <2>4. InLine(t)
    BY <2>1, <2>3, QueuesInLine
  <2>5. Fetched(t, F)
    BY <1>2, <2>3, KnownFetched DEF Known
  <2>6. Grows(s, t) /\ RootsCovered(t, X)
    BY <1>0, <1>2, <2>3, KnownGrows
  <2>7. t.parsed = s.parsed /\ t.expandedKeys = s.expandedKeys /\ Frame(s, t)
    BY <1>2 DEF Known, Frame
  <2>8. Followed(t, X, D)
    BY <2>6, <2>7, FollowedGrows
  <2> QED BY <2>1, <2>2, <2>4, <2>5, <2>6, <2>7, <2>8, FreshFrame
<1>3. ASSUME NEW source, Sets(s, t, c, source), Queues(s, t, c, expand),
             source \in resolved => Queued(t, c[1]),
             source \in resolved /\ c[1] \in roots => ToExpand(t, c[1])
      PROVE  Inv(t, F, X, D) /\ Grows(s, t)
  <2>1. Placed(t)
    BY <1>3, SetPlaced
  <2>2. Asked(t)
    BY <1>3, SetAsked
  <2>3. InLine(t)
    BY <1>3, <2>1, QueuesInLine
  <2>4. Fetched(t, F)
    BY <1>3, SetFetched
  <2>5. Grows(s, t) /\ RootsCovered(t, X)
    BY <1>0, <1>3, SetGrows
  <2>6. t.parsed = s.parsed /\ t.expandedKeys = s.expandedKeys /\ Frame(s, t)
    BY <1>3 DEF Sets, Frame
  <2>7. Followed(t, X, D)
    BY <2>5, <2>6, FollowedGrows
  <2> QED BY <2>1, <2>2, <2>3, <2>4, <2>5, <2>6, <2>7, FreshFrame
<1>4. CASE Placeheld(s, t, c)
  <2>1. PICK source \in {"local_replace", "depth_bounded"} : Sets(s, t, c, source)
    BY <1>4, PlaceheldSets
  <2>2. Queues(s, t, c, expand) /\ source \notin resolved
    BY <1>4 DEF Placeheld, Queues, resolved
  <2> QED BY <1>3, <2>1, <2>2
<1>5. CASE Raised(s, t, c, expand)
  <2>1. Sets(s, t, c, applyReplace(c).source) /\ applyReplace(c).source # "local_replace"
    BY <1>5, RaisedSets
  <2>2. PICK q \in Item : /\ t.queue = Append(s.queue, q) /\ ItemFor(q, t, c[1])
                          /\ q.expand = expand
    BY <1>5 DEF Raised
  <2>3. Queued(t, c[1]) /\ (expand => ToExpand(t, c[1]))
    BY <1>0, <2>2, AppendedToExpand DEF ItemFor
  <2>4. how(c[1]) # "local_replace"
    BY <2>1, ApplyAt
  <2>5. Queues(s, t, c, expand)
    BY <2>2, <2>4 DEF Queues
  <2> QED BY <1>3, <2>1, <2>3, <2>5
<1> QED BY <1>1, <1>2, <1>4, <1>5 DEF Handled

---------------------------------------------------------------------------
(* The start: the target alone, and the requirements it has itself.        *)
LEMMA EmptyTyped ==
    ASSUME IsWorld(world)
    PROVE  emptyState \in States
<1> DEFINE n == [coord |-> TargetCoord, direct |-> FALSE, original |-> NoCoord,
                 source |-> IF world.kind = "project" THEN "local_main" ELSE "target"]
<1>1. n \in NodeType
  BY CoordinateFacts DEF NodeType, Sources
<1>2. [p \in {Target} |-> n] \in PartialFns(NodeType)
  <2> HIDE DEF n
  <2>1. {Target} \in SUBSET Paths /\ [p \in {Target} |-> n] \in [{Target} -> NodeType]
    BY <1>1, Bounds
  <2> QED BY <2>1 DEF PartialFns
<1>3. [p \in {Target} |-> TargetCoord[2]] \in PartialFns(0..MaxVersion)
  <2>1. {Target} \in SUBSET Paths
        /\ [p \in {Target} |-> TargetCoord[2]] \in [{Target} -> 0..MaxVersion]
    BY Bounds, CoordinateFacts
  <2> QED BY <2>1 DEF PartialFns
<1>4. <<>> \in Seq(Item) /\ DOMAIN <<>> = {} /\ {TargetCoord} \subseteq Coordinates
  BY CoordinateFacts
<1> HIDE DEF n
<1>5. emptyState = [selected |-> [p \in {Target} |-> TargetCoord[2]], processed |-> {TargetCoord},
                    nodes |-> [p \in {Target} |-> n],
                    parsed |-> {}, expandedKeys |-> {}, edges |-> {}, queue |-> <<>>,
                    partial |-> {}, truncated |-> FALSE]
  BY DEF emptyState, n
<1> QED BY <1>2, <1>3, <1>4, <1>5 DEF States

(* The level invariant holds of the target alone.                          *)
LEMMA EmptyInv ==
    ASSUME IsWorld(world), ordinaryReplaces
    PROVE  Inv(emptyState, {}, {}, {})
<1> DEFINE s == emptyState
<1>1. /\ DOMAIN s.selected = {Target} /\ DOMAIN s.nodes = {Target} /\ DOMAIN s.queue = {}
      /\ s.selected[Target] = TargetCoord[2] /\ s.nodes[Target].coord = TargetCoord
      /\ s.nodes[Target].original = NoCoord
      /\ s.nodes[Target].source \in {"local_main", "target"}
      /\ s.processed = {TargetCoord} /\ s.edges = {} /\ s.parsed = {} /\ s.expandedKeys = {}
  BY DEF emptyState
<1>2. s \in States
  BY EmptyTyped
<1> HIDE DEF s
<1>3. /\ <<Target, TargetCoord[2]>> = TargetCoord /\ TargetCoord \in Coordinates
      /\ TargetCoord[1] = Target /\ TargetCoord[2] \in Int
  BY CoordinateFacts
<1>4. how(Target) = "mvs"
  BY HowMvsTarget
<1>5. Placed(s)
  <2>1. applyReplace(TargetCoord).to = TargetCoord /\ applyReplace(TargetCoord).original = NoCoord
    BY <1>3, <1>4, ApplyAt
  <2> QED BY <1>1, <1>3, <1>4, <2>1 DEF Placed, AtSelected, resolved
<1>6. Asked(s)
  BY <1>1, <1>3 DEF Asked, IsAsked
<1>7. InLine(s)
  BY <1>1 DEF InLine
<1>8. Fetched(s, {})
  BY <1>1, <1>3 DEF Fetched, Passed, resolved
<1>9. Followed(s, {}, {})
  BY <1>1 DEF Followed, RootsCovered, resolved
<1>10. Fresh(s, {}, {})
  BY <1>1 DEF Fresh
<1> QED BY <1>2, <1>5, <1>6, <1>7, <1>8, <1>9, <1>10 DEF Inv, s

(* seedDirectDeps makes a resolveState.                                    *)
LEMMA SeedTyped ==
    ASSUME IsWorld(world), NEW s \in States
    PROVE  seedDirectDeps(s) \in States
<1> DEFINE q == filterRequires(world.requires)
<1>1. q \in Seq(Requirement)
  BY FilteredTyped DEF IsWorld
<1>2. \A t \in States, r \in Requirement : seedDirectDep(t, r) \in States
  BY SeedShape
<1> HIDE DEF q
<1>3. PICK tr \in [0..Len(q) -> States] : tr[Len(q)] = seeds(s, q)
  <2>1. SeedClosed(States, Requirement)
    BY <1>2 DEF SeedClosed
  <2>2. SeedTraced(States, s, q)
    BY <1>1, <2>1, SeedTrace
  <2> QED BY <2>2 DEF SeedTraced
<1>4. tr[Len(q)] \in States
  <2>1. Len(q) \in 0..Len(q)
    BY <1>1
  <2> QED BY <2>1
<1> QED BY <1>3, <1>4 DEF seedDirectDeps, seeds, q

(* The level invariant holds of the target's requirements.                 *)
LEMMA SeedInv ==
    ASSUME IsWorld(world), ordinaryReplaces, NEW s, Inv(s, {}, {}, {})
    PROVE  Inv(seedDirectDeps(s), {}, {}, {})
<1> DEFINE q == filterRequires(world.requires)
           St == {t \in States : Inv(t, {}, {}, {})}
<1>1. q \in Seq(Requirement)
  BY FilteredTyped DEF IsWorld
<1>2. s \in St
  BY DEF Inv
<1>3. ASSUME NEW t \in St, NEW r \in Requirement PROVE seedDirectDep(t, r) \in St
  <2>1. seedDirectDep(t, r) \in States /\ Handled(t, seedDirectDep(t, r), r.coord, TRUE)
    BY SeedShape
  <2>2. r.coord \in Coordinates
    BY CoordinateFacts DEF Requirement
  <2> QED BY <2>1, <2>2, HandledKeeps
<1> HIDE DEF q, St
<1>4. PICK tr \in [0..Len(q) -> St] : tr[Len(q)] = seeds(s, q)
  <2>1. SeedClosed(St, Requirement)
    BY <1>3 DEF SeedClosed
  <2>2. SeedTraced(St, s, q)
    BY <1>1, <1>2, <2>1, SeedTrace
  <2> QED BY <2>2 DEF SeedTraced
<1>5. tr[Len(q)] \in St
  <2>1. Len(q) \in 0..Len(q)
    BY <1>1
  <2> QED BY <2>1
<1> QED BY <1>4, <1>5 DEF seedDirectDeps, seeds, q, St

---------------------------------------------------------------------------
(* A level: what is queued is fetched and expanded where its node stands.  *)
coordsOf(ts) == {ts[i].coord : i \in DOMAIN ts}

(* A task of a level stands at the node of its path.                       *)
AtNode(s, t) ==
    /\ t.key \in DOMAIN s.nodes /\ t.coord = s.nodes[t.key].coord
    /\ how(t.key) # "local_replace"

(* What a level is made of.                                                *)
Parts == [fetch : Seq(Task), expand : Seq(Task), seen : SUBSET Coordinates]
noParts == [fetch |-> <<>>, expand |-> <<>>, seen |-> {}]

(* The task an item makes.                                                 *)
placed(s, item) ==
    [coord |-> coerced(s, item), key |-> item.key, depth |-> item.depth,
     atMaxDepth |-> world.maxDepth > 0 /\ item.depth >= world.maxDepth]

(* An item of the queue makes a task.                                      *)
LEMMA PlacedTyped ==
    ASSUME IsWorld(world), NEW s \in States, NEW item \in Item, item.key \in DOMAIN s.selected
    PROVE  placed(s, item) \in Task
<1>1. coerced(s, item) \in Coordinates
  <2>1. item.coord \in Coordinates /\ s.selected[item.key] \in 0..MaxVersion
    BY StateFacts DEF Item
  <2> QED BY <2>1, CoordinateFacts DEF coerced
<1>2. (world.maxDepth > 0 /\ item.depth >= world.maxDepth) \in BOOLEAN
  OBVIOUS
<1> QED BY <1>1, <1>2 DEF placed, Task, Item

(* What one item adds to the parts of its level.                           *)
LEMMA PlaceStep ==
    ASSUME NEW s, NEW acc \in Parts, NEW item, placed(s, item) \in Task,
           NEW next, next = place(s, acc, item)
    PROVE  LET c == coerced(s, item)
               bi == placed(s, item)
               in == \E e \in ToSet(acc.expand) : e.coord = c
           IN  /\ next \in Parts /\ next.seen = acc.seen \cup {c}
               /\ next.fetch = IF c \in s.processed \cup acc.seen THEN acc.fetch
                               ELSE Append(acc.fetch, bi)
               /\ next.expand = IF item.expand /\ c \notin s.expandedKeys /\ ~in
                                THEN Append(acc.expand, bi) ELSE acc.expand
<1> DEFINE c == coerced(s, item)
           bi == placed(s, item)
           in == \E e \in ToSet(acc.expand) : e.coord = c
           fetch == IF c \in s.processed \cup acc.seen THEN acc.fetch ELSE Append(acc.fetch, bi)
           expand == IF item.expand /\ c \notin s.expandedKeys /\ ~in
                     THEN Append(acc.expand, bi) ELSE acc.expand
<1>1. next = [fetch |-> fetch, expand |-> expand, seen |-> acc.seen \cup {c}]
  BY DEF place, placed
<1>2. c \in Coordinates
  BY DEF placed, Task
<1> HIDE DEF c, bi, in
<1>3. acc.fetch \in Seq(Task) /\ acc.expand \in Seq(Task) /\ acc.seen \subseteq Coordinates
      /\ bi \in Task
  BY DEF Parts, bi
<1>4. fetch \in Seq(Task) /\ expand \in Seq(Task) /\ acc.seen \cup {c} \subseteq Coordinates
  BY <1>2, <1>3
<1> HIDE DEF fetch, expand
<1>5. next \in Parts /\ next.seen = acc.seen \cup {c} /\ next.fetch = fetch /\ next.expand = expand
  BY <1>1, <1>4 DEF Parts
<1> QED BY <1>5 DEF c, bi, in, fetch, expand

(* us holds the tasks of ts and bi.                                        *)
Appended(ts, bi, us) ==
    /\ \A i \in DOMAIN us : us[i] = bi \/ (i \in DOMAIN ts /\ us[i] = ts[i])
    /\ coordsOf(us) = coordsOf(ts) \cup {bi.coord}

(* An appended task adds its coordinate and no other.                      *)
LEMMA AppendedTask ==
    ASSUME NEW ts \in Seq(Task), NEW bi \in Task, NEW us, us = Append(ts, bi)
    PROVE  Appended(ts, bi, us)
<1>1. /\ DOMAIN us = 1..(Len(ts) + 1) /\ us[Len(ts) + 1] = bi /\ DOMAIN ts = 1..Len(ts)
      /\ Len(ts) \in Nat /\ \A i \in 1..Len(ts) : us[i] = ts[i]
  OBVIOUS
<1>2. \A i \in DOMAIN us : us[i] = bi \/ (i \in DOMAIN ts /\ us[i] = ts[i])
  BY <1>1
<1>3. Len(ts) + 1 \in DOMAIN us /\ \A i \in DOMAIN ts : i \in DOMAIN us
  BY <1>1
<1>4. coordsOf(us) = coordsOf(ts) \cup {bi.coord}
  BY <1>1, <1>2, <1>3 DEF coordsOf
<1> QED BY <1>2, <1>4 DEF Appended

(* partitionWave makes tasks for paths that have nodes.                    *)
LEMMA PartitionTyped ==
    ASSUME IsWorld(world), NEW s \in States
    PROVE  /\ partitionWave(s) \in Parts
           /\ \A i \in DOMAIN partitionWave(s).fetch :
                partitionWave(s).fetch[i].key \in DOMAIN s.nodes
<1> DEFINE E == {q \in Item : q.key \in DOMAIN s.selected}
           St == {acc \in Parts : \A i \in DOMAIN acc.fetch : acc.fetch[i].key \in DOMAIN s.nodes}
           b == noParts
<1>1. b \in St
  BY DEF noParts, Parts
<1>2. s.queue \in Seq(E)
  <2>1. s.queue \in Seq(Item) /\ \A i \in DOMAIN s.queue : s.queue[i] \in E
    BY StateFacts
  <2> QED BY <2>1
<1>3. ASSUME NEW acc \in St, NEW item \in E PROVE place(s, acc, item) \in St
  <2>0. acc \in Parts /\ item \in Item /\ item.key \in DOMAIN s.selected
        /\ \A i \in DOMAIN acc.fetch : acc.fetch[i].key \in DOMAIN s.nodes
    OBVIOUS
  <2> HIDE DEF St, E
  <2>1. placed(s, item) \in Task /\ placed(s, item).key \in DOMAIN s.nodes
    BY <2>0, PlacedTyped, StateFacts DEF placed
  <2> DEFINE next == place(s, acc, item)
  <2>2. /\ next \in Parts
        /\ next.fetch = acc.fetch \/ next.fetch = Append(acc.fetch, placed(s, item))
    <3>1. next = place(s, acc, item)
      OBVIOUS
    <3> HIDE DEF next
    <3>2. /\ next \in Parts
          /\ next.fetch = IF coerced(s, item) \in s.processed \cup acc.seen THEN acc.fetch
                          ELSE Append(acc.fetch, placed(s, item))
      BY <2>0, <2>1, <3>1, PlaceStep
    <3> QED BY <3>2
  <2>3. acc.fetch \in Seq(Task)
    BY <2>0 DEF Parts
  <2> HIDE DEF next
  <2>4. \A i \in DOMAIN next.fetch : next.fetch[i].key \in DOMAIN s.nodes
    <3>1. CASE next.fetch = acc.fetch
      BY <2>0, <3>1
    <3>2. CASE next.fetch = Append(acc.fetch, placed(s, item))
      <4>1. \A i \in DOMAIN next.fetch :
              \/ next.fetch[i] = placed(s, item)
              \/ i \in DOMAIN acc.fetch /\ next.fetch[i] = acc.fetch[i]
        <5>1. Appended(acc.fetch, placed(s, item), next.fetch)
          BY <2>1, <2>3, <3>2, AppendedTask
        <5> QED BY <5>1 DEF Appended
      <4> QED BY <2>0, <2>1, <4>1
    <3> QED BY <2>2, <3>1, <3>2
  <2> QED BY <2>2, <2>4 DEF next, St
<1> HIDE DEF E, St, b
<1>4. PICK tr \in [0..Len(s.queue) -> St] :
        /\ tr[0] = b /\ tr[Len(s.queue)] = places(s, b, s.queue)
        /\ \A k \in 1..Len(s.queue) : tr[k] = place(s, tr[k - 1], s.queue[k])
  <2>1. PlaceClosed(s, St, E)
    BY <1>3 DEF PlaceClosed
  <2>2. PlaceTraced(s, St, b, s.queue)
    BY <1>1, <1>2, <2>1, PlaceTrace
  <2> QED BY <2>2 DEF PlaceTraced
<1>5. tr[Len(s.queue)] \in St
  <2>1. Len(s.queue) \in 0..Len(s.queue)
    BY <1>2
  <2> QED BY <2>1
<1>6. partitionWave(s) = places(s, b, s.queue)
  BY DEF partitionWave, places, b, noParts
<1> QED BY <1>4, <1>5, <1>6 DEF St

(* Where the replaces and the queue's invariant coerce an item to.         *)
LEMMA CoercedIs ==
    ASSUME IsWorld(world), ordinaryReplaces, NEW s \in States, Placed(s),
           NEW item \in Item, item.key \in DOMAIN s.selected, Fits(item)
    PROVE  coerced(s, item) = s.nodes[item.key].coord
<1> DEFINE p == item.key
           d == <<p, s.selected[p]>>
<1>1. s.nodes[p].coord = applyReplace(d).to
  BY DEF Placed, AtSelected
<1>2. d \in Coordinates /\ d[1] = p
  BY StateFacts, CoordinateFacts DEF Item
<1>3. /\ applyReplace(d).source = how(p)
      /\ how(p) = "mvs" => applyReplace(d).to = d
      /\ how(p) = "replace" => applyReplace(d).to = forkOf(p)
  <2> HIDE DEF d
  <2> QED BY <1>2, ApplyAt
<1>4. how(p) \in {"mvs", "replace"}
  <2> HIDE DEF d
  <2> QED BY <1>2, <1>3, ApplyTyped DEF Fits
<1>5. item.pinned \in BOOLEAN
  BY DEF Item
<1> QED BY <1>1, <1>3, <1>4, <1>5 DEF Fits, coerced

(* The parts of a level after some of its items.                           *)
PartsOf(s, acc) ==
    /\ \A i \in DOMAIN acc.fetch : AtNode(s, acc.fetch[i])
    /\ coordsOf(acc.fetch) = acc.seen \ s.processed
    /\ \A c \in acc.seen : \E p \in DOMAIN s.nodes : c = s.nodes[p].coord
    /\ coordsOf(acc.expand) \subseteq acc.seen \ s.expandedKeys

(* An item of the queue is in its level.                                   *)
InParts(s, acc, item) ==
    /\ s.nodes[item.key].coord \in acc.seen
    /\ item.expand => s.nodes[item.key].coord \in s.expandedKeys \cup coordsOf(acc.expand)

(* An item is placed where its node stands, and what is placed stays       *)
(* placed.                                                                 *)
LEMMA PlaceKeeps ==
    ASSUME IsWorld(world), ordinaryReplaces, NEW s \in States, Placed(s),
           NEW item \in Item, item.key \in DOMAIN s.selected, Fits(item),
           NEW acc \in Parts, PartsOf(s, acc), NEW next, next = place(s, acc, item)
    PROVE  /\ next \in Parts /\ PartsOf(s, next) /\ InParts(s, next, item)
           /\ acc.seen \subseteq next.seen
           /\ coordsOf(acc.expand) \subseteq coordsOf(next.expand)
<1> DEFINE c == coerced(s, item)
           bi == placed(s, item)
           in == \E e \in ToSet(acc.expand) : e.coord = c
<1>1. c = s.nodes[item.key].coord /\ item.key \in DOMAIN s.nodes
  BY CoercedIs, StateFacts
<1>2. bi \in Task /\ bi.coord = c /\ bi.key = item.key /\ AtNode(s, bi)
  BY <1>1, PlacedTyped DEF placed, AtNode, Fits
<1>3. /\ next \in Parts /\ next.seen = acc.seen \cup {c}
      /\ next.fetch = IF c \in s.processed \cup acc.seen THEN acc.fetch ELSE Append(acc.fetch, bi)
      /\ next.expand = IF item.expand /\ c \notin s.expandedKeys /\ ~in
                       THEN Append(acc.expand, bi) ELSE acc.expand
  BY <1>2, PlaceStep
<1>4. (in <=> c \in coordsOf(acc.expand)) /\ acc.fetch \in Seq(Task) /\ acc.expand \in Seq(Task)
  <2>1. acc.fetch \in Seq(Task) /\ acc.expand \in Seq(Task)
    BY DEF Parts
  <2> HIDE DEF c
  <2>2. in <=> c \in coordsOf(acc.expand)
    BY DEF coordsOf, ToSet
  <2> QED BY <2>1, <2>2
<1> HIDE DEF c, bi, in
<1>5. /\ \A i \in DOMAIN next.fetch : AtNode(s, next.fetch[i])
      /\ coordsOf(next.fetch) = next.seen \ s.processed
  <2>1. CASE c \in s.processed \cup acc.seen
    BY <1>3, <2>1 DEF PartsOf
  <2>2. CASE c \notin s.processed \cup acc.seen
    <3>1. next.fetch = Append(acc.fetch, bi)
      BY <1>3, <2>2
    <3>2. /\ \A i \in DOMAIN next.fetch :
                next.fetch[i] = bi \/ (i \in DOMAIN acc.fetch /\ next.fetch[i] = acc.fetch[i])
          /\ coordsOf(next.fetch) = coordsOf(acc.fetch) \cup {bi.coord}
      <4>1. Appended(acc.fetch, bi, next.fetch)
        BY <1>2, <1>4, <3>1, AppendedTask
      <4> QED BY <4>1 DEF Appended
    <3> QED BY <1>2, <1>3, <2>2, <3>2 DEF PartsOf
  <2> QED BY <2>1, <2>2
<1>6. /\ coordsOf(next.expand) = coordsOf(acc.expand)
             \cup (IF item.expand /\ c \notin s.expandedKeys THEN {c} ELSE {})
  <2>1. CASE item.expand /\ c \notin s.expandedKeys /\ ~in
    <3>1. next.expand = Append(acc.expand, bi)
      BY <1>3, <2>1
    <3>2. coordsOf(next.expand) = coordsOf(acc.expand) \cup {c}
      <4>1. Appended(acc.expand, bi, next.expand)
        BY <1>2, <1>4, <3>1, AppendedTask
      <4> QED BY <1>2, <4>1 DEF Appended
    <3> QED BY <2>1, <3>2
  <2>2. CASE ~(item.expand /\ c \notin s.expandedKeys /\ ~in)
    <3>1. next.expand = acc.expand
      BY <1>3, <2>2
    <3> QED BY <1>4, <2>2, <3>1
  <2> QED BY <2>1, <2>2
<1>7. item.expand \in BOOLEAN
  BY DEF Item
<1>8. PartsOf(s, next)
  BY <1>1, <1>3, <1>5, <1>6 DEF PartsOf
<1>9. InParts(s, next, item)
  BY <1>1, <1>3, <1>6, <1>7 DEF InParts
<1> QED BY <1>3, <1>6, <1>8, <1>9

(* Every item of the queue is fetched and expanded where its node stands,  *)
(* unless it was before.                                                   *)
LEMMA PartitionIs ==
    ASSUME IsWorld(world), ordinaryReplaces, NEW s \in States, Placed(s), InLine(s)
    PROVE  /\ PartsOf(s, partitionWave(s))
           /\ \A i \in DOMAIN s.queue : InParts(s, partitionWave(s), s.queue[i])
<1> DEFINE E == {q \in Item : q.key \in DOMAIN s.selected /\ Fits(q)}
           St == {acc \in Parts : PartsOf(s, acc)}
           b == noParts
           n == Len(s.queue)
<1>1. b \in St
  BY DEF noParts, Parts, PartsOf, coordsOf
<1>2. s.queue \in Seq(E) /\ n \in Nat /\ DOMAIN s.queue = 1..n
  <2>1. s.queue \in Seq(Item) /\ \A i \in DOMAIN s.queue : s.queue[i] \in E
    BY StateFacts DEF InLine
  <2> QED BY <2>1
<1>3. ASSUME NEW acc \in St, NEW item \in E
      PROVE  /\ place(s, acc, item) \in St /\ InParts(s, place(s, acc, item), item)
             /\ acc.seen \subseteq place(s, acc, item).seen
             /\ coordsOf(acc.expand) \subseteq coordsOf(place(s, acc, item).expand)
  BY PlaceKeeps
<1> HIDE DEF E, St, b
<1>4. PICK tr \in [0..n -> St] :
        /\ tr[0] = b /\ tr[n] = places(s, b, s.queue)
        /\ \A k \in 1..n : tr[k] = place(s, tr[k - 1], s.queue[k])
  <2>1. PlaceClosed(s, St, E)
    BY <1>3 DEF PlaceClosed
  <2>2. PlaceTraced(s, St, b, s.queue)
    BY <1>1, <1>2, <2>1, PlaceTrace
  <2> QED BY <2>2 DEF PlaceTraced
<1> DEFINE S == {k \in 0..n : \A i \in 1..k : InParts(s, tr[k], s.queue[i])}
<1>5. 0 \in S
  BY <1>2
<1>6. ASSUME NEW k \in 1..n, k - 1 \in S PROVE k \in S
  <2>1. tr[k - 1] \in St /\ s.queue[k] \in E /\ tr[k] = place(s, tr[k - 1], s.queue[k])
    BY <1>2, <1>4
  <2>2. /\ InParts(s, tr[k], s.queue[k]) /\ tr[k - 1].seen \subseteq tr[k].seen
        /\ coordsOf(tr[k - 1].expand) \subseteq coordsOf(tr[k].expand)
    BY <1>3, <2>1
  <2>3. ASSUME NEW i \in 1..(k - 1) PROVE InParts(s, tr[k], s.queue[i])
    <3>1. InParts(s, tr[k - 1], s.queue[i])
      BY <1>6
    <3> QED BY <2>2, <3>1 DEF InParts
  <2>4. \A i \in 1..k : i = k \/ i \in 1..(k - 1)
    BY <1>2
  <2> QED BY <1>2, <2>2, <2>3, <2>4
<1> HIDE DEF n, S
<1>7. n \in S
  <2>1. \A k \in 0..n : k \in S
    BY <1>2, <1>5, <1>6, CountUp
  <2> QED BY <1>2, <2>1
<1>8. tr[n] \in St /\ \A i \in 1..n : InParts(s, tr[n], s.queue[i])
  BY <1>2, <1>4, <1>7 DEF S
<1>9. partitionWave(s) = tr[n]
  BY <1>4 DEF partitionWave, places, b, noParts
<1> QED BY <1>2, <1>8, <1>9 DEF St

(* The level starts: the queue becomes what is being fetched and expanded. *)
Started(s, t, parts) ==
    /\ t.selected = s.selected /\ t.nodes = s.nodes /\ t.edges = s.edges
    /\ t.truncated = s.truncated /\ t.parsed = s.parsed /\ t.partial = s.partial
    /\ t.expandedKeys = s.expandedKeys /\ t.queue = <<>>
    /\ t.processed = s.processed \cup parts.seen

(* A node stands at a fork, or at its own path and no version above the    *)
(* selected one.                                                           *)
LEMMA NodeStands ==
    ASSUME IsWorld(world), ordinaryReplaces, NEW s \in States, Placed(s), NEW p \in DOMAIN s.nodes
    PROVE  \/ s.nodes[p].coord \in forks
           \/ /\ s.nodes[p].coord[1] = p /\ p \in DOMAIN s.selected
              /\ s.nodes[p].coord[2] <= s.selected[p]
<1> DEFINE d == <<p, s.selected[p]>>
<1>1. s.nodes[p].coord = applyReplace(d).to /\ p \in DOMAIN s.selected
  BY DEF Placed, AtSelected
<1>2. d \in Coordinates /\ d[1] = p /\ d[2] = s.selected[p]
  BY <1>1, StateFacts, CoordinateFacts
<1>3. s.selected[p] \in 0..MaxVersion /\ MaxVersion \in Nat
  BY <1>1, StateFacts, Bounds
<1> HIDE DEF d
<1>4. /\ applyReplace(d).source = how(p)
      /\ how(p) = "mvs" => applyReplace(d).to = d
      /\ how(p) = "local_replace" => applyReplace(d).to = <<p, 0>>
      /\ how(p) = "replace" => applyReplace(d).to = forkOf(p) /\ forkOf(p) \in forks
  BY <1>2, ApplyAt
<1>5. how(p) \in {"mvs", "replace", "local_replace"}
  BY <1>2, <1>4, ApplyTyped
<1> QED BY <1>1, <1>2, <1>3, <1>4, <1>5

(* When a level starts, what was queued is being fetched and expanded, and *)
(* nothing is lost.                                                        *)
LEMMA StartKeeps ==
    ASSUME IsWorld(world), ordinaryReplaces, NEW s, Inv(s, {}, {}, {}),
           NEW parts, PartsOf(s, parts),
           \A i \in DOMAIN s.queue : InParts(s, parts, s.queue[i]),
           NEW t \in States, Started(s, t, parts)
    PROVE  Inv(t, coordsOf(parts.fetch), coordsOf(parts.expand), {})
<1> DEFINE F == coordsOf(parts.fetch)
           X == coordsOf(parts.expand)
<1>1. s \in States /\ Placed(s) /\ Asked(s) /\ Fetched(s, {}) /\ Followed(s, {}, {}) /\ Fresh(s, {}, {})
  BY DEF Inv
<1>2. SameNodes(s, t) /\ t.queue = <<>> /\ hasFailed(t) = hasFailed(s)
  BY DEF Started, SameNodes, hasFailed
<1>3. /\ F = parts.seen \ s.processed /\ X \subseteq parts.seen
      /\ \A c \in parts.seen : \E p \in DOMAIN s.nodes : c = s.nodes[p].coord
  BY DEF PartsOf
<1>4. /\ \A p : Queued(s, p) => s.nodes[p].coord \in parts.seen
      /\ \A p : ToExpand(s, p) => s.nodes[p].coord \in s.expandedKeys \cup X
  BY DEF InParts, Queued, ToExpand
<1> HIDE DEF F, X
<1>5. Placed(t)
  BY <1>1, <1>2, KnownPlaced
<1>6. Asked(t)
  <2>1. t.selected = s.selected /\ t.edges = s.edges /\ t.truncated = s.truncated
    BY DEF Started
  <2> QED BY <1>1, <2>1 DEF Asked, EdgeAsks, IsAsked
<1>7. InLine(t)
  BY <1>2 DEF InLine
<1>8. Fetched(t, F)
  <2>1. ASSUME NEW p \in DOMAIN t.nodes, t.nodes[p].source \in resolved PROVE IsFetched(t, F, p)
    <3>1. t.nodes[p] = s.nodes[p] /\ IsFetched(s, {}, p)
      BY <1>1, <2>1 DEF Started, Fetched
    <3>2. t.nodes[p].coord \in t.processed
      BY <1>4, <3>1 DEF IsFetched, Started
    <3>3. CASE t.nodes[p].coord \in s.processed
      BY <1>2, <3>1, <3>2, <3>3 DEF IsFetched, Started
    <3>4. CASE t.nodes[p].coord \notin s.processed
      BY <1>3, <3>2, <3>4 DEF IsFetched, Started
    <3> QED BY <3>3, <3>4
  <2>2. ASSUME NEW c \in t.processed PROVE Passed(t, F, c)
    <3>1. CASE c \in s.processed
      <4>1. Passed(s, {}, c)
        BY <1>1, <3>1 DEF Fetched
      <4> QED BY <1>2, <4>1 DEF Passed, Started
    <3>2. CASE c \notin s.processed
      <4>1. c \in F /\ c \in parts.seen
        BY <1>3, <2>2, <3>2 DEF Started
      <4>2. PICK p \in DOMAIN s.nodes : c = s.nodes[p].coord
        BY <1>3, <4>1
      <4>3. c \in forks \/ (c[1] \in DOMAIN s.selected /\ c[2] <= s.selected[c[1]])
        BY <1>1, <4>2, NodeStands
      <4> QED BY <4>1, <4>3 DEF Passed, Started
    <3> QED BY <3>1, <3>2
  <2> QED BY <2>1, <2>2 DEF Fetched
<1>9. ASSUME NEW p, NEW v \in Int, Covered(s, {}, p, v) PROVE Covered(t, X, p, v)
  <2>1. /\ t.selected = s.selected /\ t.expandedKeys = s.expandedKeys
        /\ p \in DOMAIN s.selected /\ v <= s.selected[p] /\ s.selected[p] \in Int
    BY <1>1, <1>9, StateFacts DEF Covered, Started
  <2>2. CASE \E w \in v..s.selected[p] : applyReplace(<<p, w>>).to \in s.expandedKeys \cup {}
    BY <2>1, <2>2 DEF Covered
  <2>3. CASE ToExpand(s, p)
    <3>1. s.nodes[p].coord = applyReplace(<<p, s.selected[p]>>).to
      BY <1>1, <2>1 DEF Placed, AtSelected
    <3>2. applyReplace(<<p, s.selected[p]>>).to \in s.expandedKeys \cup X
      BY <1>4, <2>3, <3>1
    <3>3. s.selected[p] \in v..s.selected[p]
      BY <2>1
    <3> QED BY <2>1, <3>2, <3>3 DEF Covered
  <2> QED BY <1>9, <2>2, <2>3 DEF Covered
<1>10. RootsCovered(t, X)
  <2> SUFFICES ASSUME NEW p \in roots \cap DOMAIN t.nodes, t.nodes[p].source \in resolved
               PROVE  Covered(t, X, p, t.selected[p])
    BY DEF RootsCovered
  <2>1. Covered(s, {}, p, s.selected[p])
    BY <1>1 DEF Followed, RootsCovered, Started
  <2>2. s.selected[p] \in Int
    BY <1>1, <2>1, StateFacts DEF Covered
  <2> QED BY <1>9, <2>1, <2>2 DEF Started
<1>11. Followed(t, X, {})
  <2>1. ASSUME NEW c \in (t.expandedKeys \cap t.parsed) \ {} PROVE AllSatisfied(t, X, c)
    <3>1. AllSatisfied(s, {}, c)
      BY <1>1, <2>1 DEF Followed, Started
    <3>2. filterRequires(goMod(c).requires) \in Seq(Requirement)
      BY GoModTyped, FilteredTyped
    <3>3. \A r \in ToSet(filterRequires(goMod(c).requires)) : r \in Requirement
      BY <3>2 DEF ToSet
    <3>4. ASSUME NEW r \in Requirement, Satisfied(s, {}, c, r) PROVE Satisfied(t, X, c, r)
      <4>1. r.coord[2] \in Int
        BY CoordinateFacts DEF Requirement
      <4>2. Covered(s, {}, r.coord[1], r.coord[2]) => Covered(t, X, r.coord[1], r.coord[2])
        BY <1>9, <4>1
      <4> QED BY <3>4, <4>2 DEF Satisfied, Started
    <3> QED BY <3>1, <3>3, <3>4 DEF AllSatisfied
  <2> QED BY <1>10, <2>1 DEF Followed
<1>12. Fresh(t, F, X)
  BY <1>1, <1>3 DEF Fresh, Started
<1> QED BY <1>5, <1>6, <1>7, <1>8, <1>11, <1>12 DEF Inv, F, X

---------------------------------------------------------------------------
(* The results of a level, one after the other.                            *)
Outcomes == {"ok", "fetch_failed", "parse_failed"}

(* What a result does to the state.                                        *)
Resulted(s, t, bi, result) ==
    /\ t.selected = s.selected /\ t.processed = s.processed /\ t.edges = s.edges
    /\ t.expandedKeys = s.expandedKeys /\ t.queue = s.queue /\ t.truncated = s.truncated
    /\ DOMAIN t.nodes = DOMAIN s.nodes
    /\ \A p \in DOMAIN s.nodes \ {bi.key} : t.nodes[p] = s.nodes[p]
    /\ t.nodes[bi.key].coord = bi.coord
    /\ t.nodes[bi.key].original = s.nodes[bi.key].original
    /\ t.nodes[bi.key].source = IF result = "ok" THEN s.nodes[bi.key].source ELSE result
    /\ t.parsed = IF result = "ok" THEN s.parsed \cup {bi.coord} ELSE s.parsed
    /\ t.partial = IF result = "ok" THEN s.partial ELSE s.partial \cup {result}

(* applyFetchParse rewrites the node of its task and no other.             *)
LEMMA ResultShape ==
    ASSUME NEW s \in States, NEW bi \in Task, bi.key \in DOMAIN s.nodes, NEW result \in Outcomes,
           NEW t, t = applyFetchParse(s, bi, result)
    PROVE  t \in States /\ Resulted(s, t, bi, result)
<1> DEFINE n == [s.nodes[bi.key] EXCEPT !.coord = bi.coord]
           m == IF result = "ok" THEN n ELSE [n EXCEPT !.source = result]
           N == [s.nodes EXCEPT ![bi.key] = m]
<1>1. s.nodes[bi.key] \in NodeType /\ bi.coord \in Coordinates
  BY StateFacts DEF Task
<1>2. /\ m \in NodeType /\ m.coord = bi.coord /\ m.original = s.nodes[bi.key].original
      /\ m.source = IF result = "ok" THEN s.nodes[bi.key].source ELSE result
  BY <1>1 DEF NodeType, Sources, Outcomes
<1>3. t = IF result = "ok"
          THEN [s EXCEPT !.nodes = [s.nodes EXCEPT ![bi.key] = m], !.parsed = s.parsed \cup {bi.coord}]
          ELSE [s EXCEPT !.nodes = [s.nodes EXCEPT ![bi.key] = m], !.partial = s.partial \cup {result}]
  <2>1. s \in StateFields
    BY FieldsTyped
  <2> QED BY <2>1 DEF applyFetchParse, StateFields
<1> HIDE DEF m, n
<1>4. /\ N \in PartialFns(NodeType) /\ DOMAIN N = DOMAIN s.nodes
      /\ \A p \in DOMAIN s.nodes : N[p] = IF p = bi.key THEN m ELSE s.nodes[p]
  BY <1>2, StateFacts, ChangedTyped
<1>5. t = IF result = "ok" THEN [s EXCEPT !.nodes = N, !.parsed = s.parsed \cup {bi.coord}]
          ELSE [s EXCEPT !.nodes = N, !.partial = s.partial \cup {result}]
  BY <1>3
<1> HIDE DEF N
<1>6. result # "ok" => result \in Reasons
  BY DEF Outcomes, Reasons
<1>7. s \in StateFields
  BY FieldsTyped
<1>8. /\ t \in StateFields /\ t.nodes = N
      /\ t.selected = s.selected /\ t.processed = s.processed /\ t.edges = s.edges
      /\ t.expandedKeys = s.expandedKeys /\ t.queue = s.queue /\ t.truncated = s.truncated
      /\ t.parsed = IF result = "ok" THEN s.parsed \cup {bi.coord} ELSE s.parsed
      /\ t.partial = IF result = "ok" THEN s.partial ELSE s.partial \cup {result}
  <2> DEFINE P == IF result = "ok" THEN s.parsed \cup {bi.coord} ELSE s.parsed
             Q == IF result = "ok" THEN s.partial ELSE s.partial \cup {result}
  <2>1. P \subseteq Coordinates /\ Q \subseteq Reasons
    BY <1>1, <1>6, <1>7 DEF StateFields
  <2>2. t = [s EXCEPT !.nodes = N, !.parsed = P, !.partial = Q]
    <3>1. result = "ok" => Q = s.partial
      OBVIOUS
    <3>2. result # "ok" => P = s.parsed
      OBVIOUS
    <3> QED BY <1>5, <1>7, <3>1, <3>2 DEF StateFields
  <2>3. t.parsed = P /\ t.partial = Q => 
           /\ t.parsed = IF result = "ok" THEN s.parsed \cup {bi.coord} ELSE s.parsed
           /\ t.partial = IF result = "ok" THEN s.partial ELSE s.partial \cup {result}
    OBVIOUS
  <2> HIDE DEF P, Q
  <2>4. /\ t \in StateFields /\ t.nodes = N
        /\ t.selected = s.selected /\ t.processed = s.processed /\ t.edges = s.edges
        /\ t.expandedKeys = s.expandedKeys /\ t.queue = s.queue /\ t.truncated = s.truncated
        /\ t.parsed = P /\ t.partial = Q
    BY <1>4, <1>7, <2>1, <2>2 DEF StateFields
  <2> QED BY <2>3, <2>4
<1>9. t \in States
  BY <1>4, <1>8, StateFacts, QueueKeys
<1> QED BY <1>2, <1>4, <1>8, <1>9 DEF Resulted

(* Two paths share a coordinate only where a replace put one of them.      *)
LEMMA SharedIsFork ==
    ASSUME IsWorld(world), ordinaryReplaces, NEW s \in States, Placed(s),
           NEW p \in DOMAIN s.nodes, NEW q \in DOMAIN s.nodes, p # q,
           how(p) # "local_replace", how(q) # "local_replace",
           s.nodes[p].coord = s.nodes[q].coord
    PROVE  s.nodes[p].coord \in forks
<1>1. ASSUME NEW x \in DOMAIN s.nodes, how(x) # "local_replace"
      PROVE  s.nodes[x].coord \in forks \/ s.nodes[x].coord[1] = x
  BY NodeStands
<1> QED BY <1>1

(* A result leaves the node where it stands, and what was being fetched is *)
(* fetched or marked as failed.                                            *)
LEMMA ResultKeeps ==
    ASSUME IsWorld(world), ordinaryReplaces, NEW s, NEW F, NEW X, NEW G, Inv(s, F, X, {}),
           NEW bi \in Task, AtNode(s, bi), bi.coord \in F, G \subseteq F, F \subseteq G \cup {bi.coord},
           NEW result \in Outcomes, NEW t \in States, Resulted(s, t, bi, result)
    PROVE  Inv(t, G, X, {})
<1>1. /\ s \in States /\ Placed(s) /\ Asked(s) /\ InLine(s) /\ Fetched(s, F)
      /\ Followed(s, X, {}) /\ Fresh(s, F, X)
  BY DEF Inv
<1>2. /\ bi.key \in DOMAIN s.nodes /\ bi.coord = s.nodes[bi.key].coord
      /\ how(bi.key) # "local_replace"
  BY DEF AtNode
<1>3. \A p \in DOMAIN s.nodes :
        /\ t.nodes[p].coord = s.nodes[p].coord /\ t.nodes[p].original = s.nodes[p].original
        /\ t.nodes[p].source = s.nodes[p].source \/ (p = bi.key /\ result # "ok" /\ t.nodes[p].source = result)
  BY <1>2 DEF Resulted
<1>4. result # "ok" => result \in failures /\ result \notin resolved /\ result # "local_replace" /\ hasFailed(t)
  BY DEF Outcomes, failures, resolved, Resulted, hasFailed
<1>5. /\ hasFailed(s) => hasFailed(t)
      /\ s.parsed \subseteq t.parsed /\ (result = "ok" => bi.coord \in t.parsed)
  BY DEF hasFailed, Resulted
<1>6. \A p \in DOMAIN s.nodes : t.nodes[p].source \in resolved =>
         s.nodes[p].source \in resolved /\ (p = bi.key => result = "ok")
  BY <1>3, <1>4 DEF Resulted
<1>7. Placed(t)
  <2>1. ASSUME NEW p \in DOMAIN s.nodes PROVE AtSelected(t, p)
    <3>1. AtSelected(s, p) /\ t.selected = s.selected
      BY <1>1 DEF Placed, Resulted
    <3>2. t.nodes[p].source = "local_replace" <=> s.nodes[p].source = "local_replace"
      BY <1>2, <1>3, <1>4, <3>1 DEF AtSelected
    <3> QED BY <1>3, <3>1, <3>2 DEF AtSelected
  <2>2. t.selected = s.selected /\ DOMAIN t.nodes = DOMAIN s.nodes
    BY DEF Resulted
  <2> QED BY <1>1, <1>6, <2>1, <2>2 DEF Placed
<1>8. Asked(t)
  <2>1. t.selected = s.selected /\ t.edges = s.edges /\ t.truncated = s.truncated
    BY DEF Resulted
  <2> QED BY <1>1, <2>1 DEF Asked, EdgeAsks, IsAsked
<1>9. InLine(t)
  BY <1>1 DEF InLine, Resulted
<1>10. Fetched(t, G)
  <2>1. ASSUME NEW p \in DOMAIN t.nodes, t.nodes[p].source \in resolved PROVE IsFetched(t, G, p)
    <3>1. /\ p \in DOMAIN s.nodes /\ s.nodes[p].source \in resolved /\ IsFetched(s, F, p)
          /\ p = bi.key => result = "ok"
      BY <1>1, <1>6, <2>1 DEF Resulted, Fetched
    <3>2. t.nodes[p].coord = s.nodes[p].coord /\ t.processed = s.processed /\ (Queued(s, p) => Queued(t, p))
      BY <1>3, <3>1 DEF Resulted, Queued
    <3>3. CASE s.nodes[p].coord # bi.coord
      BY <1>5, <3>1, <3>2, <3>3 DEF IsFetched
    <3>4. CASE s.nodes[p].coord = bi.coord /\ result = "ok"
      BY <1>5, <3>1, <3>2, <3>4 DEF IsFetched
    <3>5. CASE s.nodes[p].coord = bi.coord /\ result # "ok"
      <4>1. p # bi.key /\ how(p) # "local_replace"
        BY <1>1, <3>1, <3>5 DEF Placed, AtSelected, resolved
      <4>2. s.nodes[p].coord \in forks
        BY <1>1, <1>2, <3>1, <3>5, <4>1, SharedIsFork
      <4> QED BY <1>4, <3>1, <3>2, <3>5, <4>2 DEF IsFetched
    <3> QED BY <3>3, <3>4, <3>5
  <2>2. ASSUME NEW c \in t.processed PROVE Passed(t, G, c)
    <3>1. Passed(s, F, c) /\ t.selected = s.selected
      BY <1>1, <2>2 DEF Fetched, Resulted
    <3>2. c = bi.coord => c \in t.parsed \/ hasFailed(t)
      BY <1>4, <1>5
    <3> QED BY <1>5, <3>1, <3>2 DEF Passed
  <2> QED BY <2>1, <2>2 DEF Fetched
<1>11. Grows(s, t)
  <2>1. \A p \in DOMAIN s.selected : s.selected[p] <= s.selected[p]
    BY <1>1, StateFacts
  <2> QED BY <2>1 DEF Grows, Resulted, ToExpand
<1>12. RootsCovered(t, X)
  <2> SUFFICES ASSUME NEW p \in roots \cap DOMAIN t.nodes, t.nodes[p].source \in resolved
               PROVE  Covered(t, X, p, t.selected[p])
    BY DEF RootsCovered
  <2>1. Covered(s, X, p, s.selected[p]) /\ t.selected = s.selected
    BY <1>1, <1>6 DEF Followed, RootsCovered, Resulted
  <2>2. s.selected[p] \in Int
    BY <1>1, <2>1, StateFacts DEF Covered
  <2> QED BY <1>1, <1>11, <2>1, <2>2, CoveredGrows
<1>13. Followed(t, X, {})
  <2>1. ASSUME NEW c \in (t.expandedKeys \cap t.parsed) \ {} PROVE AllSatisfied(t, X, c)
    <3>1. c \in s.expandedKeys /\ c \in s.parsed
      BY <1>1, <2>1 DEF Fresh, Resulted
    <3>2. AllSatisfied(s, X, c)
      BY <1>1, <3>1 DEF Followed
    <3>3. filterRequires(goMod(c).requires) \in Seq(Requirement)
      BY GoModTyped, FilteredTyped
    <3>4. \A r \in ToSet(filterRequires(goMod(c).requires)) : r \in Requirement
      BY <3>3 DEF ToSet
    <3> QED BY <1>1, <1>11, <3>2, <3>4, SatisfiedGrows DEF AllSatisfied
  <2> QED BY <1>12, <2>1 DEF Followed
<1>14. Fresh(t, G, X)
  BY <1>1 DEF Fresh, Resulted
<1> QED BY <1>7, <1>8, <1>9, <1>10, <1>13, <1>14 DEF Inv

---------------------------------------------------------------------------
(* What is at hand when a level's results are all there.                   *)
LevelTyped ==
    /\ toFetch \in Seq(Task) /\ DOMAIN results = DOMAIN toFetch
    /\ \A i \in DOMAIN results : results[i] \in Outcomes

(* applyResults folds the positions of the level in their order.           *)
LEMMA PositionsFold ==
    ASSUME LevelTyped, NEW s
    PROVE  \E q \in Seq(DOMAIN toFetch) :
             /\ Len(q) = Len(toFetch) /\ \A i \in 1..Len(toFetch) : q[i] = i
             /\ applyResults(s) = applies(s, q)
<1> DEFINE q == [i \in DOMAIN toFetch |-> i]
<1>1. DOMAIN toFetch = 1..Len(toFetch) /\ Len(toFetch) \in Nat
  BY DEF LevelTyped
<1>2. q \in Seq(DOMAIN toFetch) /\ Len(q) = Len(toFetch) /\ \A i \in 1..Len(toFetch) : q[i] = i
  BY <1>1
<1>3. applyResults(s) = applies(s, q)
  BY DEF applyResults, applies, FoldLeftDomain
<1> QED BY <1>2, <1>3

(* applyResults passes through a trace of applyResult, position by         *)
(* position.                                                               *)
LEMMA ResultsTrace ==
    ASSUME LevelTyped, NEW St, NEW s \in St,
           \A t \in St, i \in DOMAIN toFetch : applyResult(t, i) \in St
    PROVE  \E tr \in [0..Len(toFetch) -> St] :
             /\ tr[0] = s /\ tr[Len(toFetch)] = applyResults(s)
             /\ \A k \in 1..Len(toFetch) : tr[k] = applyResult(tr[k - 1], k)
<1>1. PICK q \in Seq(DOMAIN toFetch) :
             /\ Len(q) = Len(toFetch) /\ \A i \in 1..Len(toFetch) : q[i] = i
             /\ applyResults(s) = applies(s, q)
  BY PositionsFold
<1>2. PICK tr \in [0..Len(q) -> St] :
        /\ tr[0] = s /\ tr[Len(q)] = applies(s, q)
        /\ \A k \in 1..Len(q) : tr[k] = applyResult(tr[k - 1], q[k])
  <2>1. ResultClosed(St, DOMAIN toFetch)
    BY DEF ResultClosed
  <2>2. ResultTraced(St, s, q)
    BY <1>1, <2>1, ResultTrace
  <2> QED BY <2>2 DEF ResultTraced
<1> QED BY <1>1, <1>2

(* applyResults makes a resolveState.                                      *)
LEMMA ApplyTypedResults ==
    ASSUME LevelTyped, NEW s \in States, \A i \in DOMAIN toFetch : toFetch[i].key \in DOMAIN s.nodes
    PROVE  applyResults(s) \in States
<1> DEFINE St == {t \in States : \A i \in DOMAIN toFetch : toFetch[i].key \in DOMAIN t.nodes}
<1>1. ASSUME NEW t \in St, NEW i \in DOMAIN toFetch PROVE applyResult(t, i) \in St
  <2>1. t \in States /\ toFetch[i] \in Task /\ results[i] \in Outcomes
        /\ toFetch[i].key \in DOMAIN t.nodes
    BY DEF LevelTyped
  <2> DEFINE u == applyResult(t, i)
  <2>2. u = applyFetchParse(t, toFetch[i], results[i])
    BY DEF applyResult
  <2> HIDE DEF u, St
  <2>3. u \in States /\ Resulted(t, u, toFetch[i], results[i])
    BY <2>1, <2>2, ResultShape
  <2>4. DOMAIN u.nodes = DOMAIN t.nodes
    BY <2>3 DEF Resulted
  <2>5. \A j \in DOMAIN toFetch : toFetch[j].key \in DOMAIN t.nodes
    BY DEF St
  <2> QED BY <2>3, <2>4, <2>5 DEF u, St
<1>2. s \in St
  OBVIOUS
<1> HIDE DEF St
<1>3. PICK tr \in [0..Len(toFetch) -> St] :
             /\ tr[0] = s /\ tr[Len(toFetch)] = applyResults(s)
             /\ \A k \in 1..Len(toFetch) : tr[k] = applyResult(tr[k - 1], k)
  BY <1>1, <1>2, ResultsTrace
<1>4. Len(toFetch) \in 0..Len(toFetch)
  BY DEF LevelTyped
<1> QED BY <1>3, <1>4 DEF St

(* When all results are applied nothing is being fetched, and the level    *)
(* invariant holds.                                                        *)
LEMMA ApplyKeeps ==
    ASSUME IsWorld(world), ordinaryReplaces, LevelTyped, NEW s, NEW X,
           Inv(s, coordsOf(toFetch), X, {}), \A i \in DOMAIN toFetch : AtNode(s, toFetch[i])
    PROVE  Inv(applyResults(s), {}, X, {})
<1> DEFINE St == {t \in States : \A i \in DOMAIN toFetch : AtNode(t, toFetch[i])}
           n == Len(toFetch)
           Left(k) == {toFetch[j].coord : j \in (k + 1)..n}
<1>0. n \in Nat /\ DOMAIN toFetch = 1..n
  BY DEF LevelTyped
<1>1. ASSUME NEW t \in St, NEW i \in DOMAIN toFetch
      PROVE  /\ applyResult(t, i) \in St /\ toFetch[i] \in Task /\ results[i] \in Outcomes
             /\ Resulted(t, applyResult(t, i), toFetch[i], results[i])
  <2>1. t \in States /\ toFetch[i] \in Task /\ results[i] \in Outcomes
        /\ \A j \in DOMAIN toFetch : AtNode(t, toFetch[j])
    BY DEF LevelTyped
  <2> DEFINE u == applyResult(t, i)
  <2>2. u = applyFetchParse(t, toFetch[i], results[i])
    BY DEF applyResult
  <2> HIDE DEF u
  <2>3. u \in States /\ Resulted(t, u, toFetch[i], results[i])
    BY <2>1, <2>2, ResultShape DEF AtNode
  <2>4. \A j \in DOMAIN toFetch : AtNode(u, toFetch[j])
    <3>1. \A p \in DOMAIN t.nodes : u.nodes[p].coord = t.nodes[p].coord
      BY <2>1, <2>3 DEF Resulted, AtNode
    <3> QED BY <2>1, <2>3, <3>1 DEF Resulted, AtNode
  <2> QED BY <2>1, <2>3, <2>4 DEF u
<1>2. s \in St
  BY DEF Inv
<1>3. PICK tr \in [0..n -> St] :
             /\ tr[0] = s /\ tr[n] = applyResults(s)
             /\ \A k \in 1..n : tr[k] = applyResult(tr[k - 1], k)
  <2> HIDE DEF St
  <2> QED BY <1>1, <1>2, ResultsTrace
<1> DEFINE S == {k \in 0..n : Inv(tr[k], Left(k), X, {})}
<1>4. 0 \in S
  <2>1. Left(0) = coordsOf(toFetch)
    BY <1>0 DEF coordsOf
  <2> QED BY <1>0, <1>3, <2>1
<1>5. ASSUME NEW k \in 1..n, k - 1 \in S PROVE k \in S
  <2> DEFINE bi == toFetch[k]
  <2>1. /\ tr[k - 1] \in St /\ tr[k] \in States /\ k \in DOMAIN toFetch
        /\ tr[k] = applyResult(tr[k - 1], k) /\ Inv(tr[k - 1], Left(k - 1), X, {})
    BY <1>0, <1>3, <1>5
  <2>2. bi \in Task /\ results[k] \in Outcomes /\ Resulted(tr[k - 1], tr[k], bi, results[k])
        /\ AtNode(tr[k - 1], bi)
    BY <1>1, <2>1
  <2>3. bi.coord \in Left(k - 1) /\ Left(k) \subseteq Left(k - 1)
        /\ Left(k - 1) \subseteq Left(k) \cup {bi.coord}
    <3>1. \A j : j \in ((k - 1) + 1)..n <=> j = k \/ j \in (k + 1)..n
      BY <1>0
    <3> QED BY <3>1
  <2> HIDE DEF St, bi, Left
  <2>4. Inv(tr[k], Left(k), X, {})
    BY <2>1, <2>2, <2>3, ResultKeeps
  <2> QED BY <1>0, <2>4
<1>6. Left(n) = {}
  BY <1>0
<1> HIDE DEF S, n, Left
<1>7. n \in S
  <2>1. \A k \in 0..n : k \in S
    BY <1>0, <1>4, <1>5, CountUp
  <2> QED BY <1>0, <2>1
<1> QED BY <1>3, <1>6, <1>7 DEF S

---------------------------------------------------------------------------
(* A module of the level is expanded: each of its requirements is met.     *)
LEMMA FollowsTyped ==
    ASSUME IsWorld(world), NEW s \in States, NEW bi \in Task
    PROVE  expandModule(s, bi) \in States
<1> DEFINE t == [s EXCEPT !.expandedKeys = @ \cup {bi.coord}]
           q == filterRequires(goMod(bi.coord).requires)
<1>1. t \in States
  <2>1. s.expandedKeys \cup {bi.coord} \subseteq Coordinates
    BY StateFacts DEF Task
  <2> DEFINE K == s.expandedKeys \cup {bi.coord}
  <2>2. K \subseteq Coordinates /\ t = [s EXCEPT !.expandedKeys = K]
    BY <2>1
  <2> HIDE DEF K, t
  <2>3. s \in StateFields
    BY FieldsTyped
  <2>4. t \in StateFields /\ t.selected = s.selected /\ t.nodes = s.nodes /\ t.queue = s.queue
    BY <2>2, <2>3 DEF StateFields
  <2> QED BY <2>4, StateFacts, QueueKeys
<1>2. q \in Seq(Requirement)
  BY GoModTyped, FilteredTyped
<1>3. FollowClosed(States, Requirement, bi)
  BY FollowShape DEF FollowClosed
<1> HIDE DEF q, t
<1>4. PICK tr \in [0..Len(q) -> States] :
        /\ tr[0] = t /\ tr[Len(q)] = follows(bi, t, q)
        /\ \A k \in 1..Len(q) : tr[k] = enqueueTransitive(tr[k - 1], bi, q[k])
  <2>1. FollowTraced(States, t, q, bi)
    BY <1>1, <1>2, <1>3, FollowTrace
  <2> QED BY <2>1 DEF FollowTraced
<1>5. follows(bi, t, q) \in States
  <2>1. Len(q) \in 0..Len(q)
    BY <1>2
  <2> QED BY <1>4, <2>1
<1>6. expandModule(s, bi) = IF bi.coord \notin s.parsed THEN t ELSE follows(bi, t, q)
  BY DEF expandModule, follows, t, q
<1> QED BY <1>1, <1>5, <1>6

(* A requirement enqueueTransitive has met is satisfied.                   *)
LEMMA MetIsSatisfied ==
    ASSUME IsWorld(world), ordinaryReplaces, NEW t \in States, Placed(t), NEW bi \in Task,
           NEW r \in Requirement, IsMet(t, r.coord, worthy(bi, r.coord)), NEW X
    PROVE  Satisfied(t, X, bi.coord, r)
<1> DEFINE c == r.coord
           p == r.coord[1]
<1>1. c \in Coordinates /\ c[2] \in Int /\ applyReplace(c).source = how(p)
  BY CoordinateFacts, ApplyAt DEF Requirement
<1>2. SUFFICES ASSUME ~isExcluded(applyReplace(c).to), ~t.truncated
               PROVE  /\ p \in DOMAIN t.nodes
                      /\ goMod(bi.coord).prePruning =>
                           applyReplace(c).source = "local_replace" \/ Covered(t, X, p, c[2])
  BY DEF Satisfied
<1>3. /\ p \in DOMAIN t.nodes
      /\ worthy(bi, c) /\ applyReplace(c).source # "local_replace" =>
            /\ p \in DOMAIN t.selected /\ c[2] <= t.selected[p]
            /\ \/ t.nodes[p].source = "local_replace"
               \/ t.nodes[p].coord \in t.expandedKeys
               \/ ToExpand(t, p)
  BY <1>2 DEF IsMet
<1>4. ASSUME goMod(bi.coord).prePruning, applyReplace(c).source # "local_replace"
      PROVE  Covered(t, X, p, c[2])
  <2>1. /\ p \in DOMAIN t.selected /\ c[2] <= t.selected[p] /\ t.selected[p] \in Int
        /\ \/ t.nodes[p].source = "local_replace"
           \/ t.nodes[p].coord \in t.expandedKeys
           \/ ToExpand(t, p)
    BY <1>3, <1>4, StateFacts DEF worthy
  <2>2. t.nodes[p].source # "local_replace" /\ t.nodes[p].coord = applyReplace(<<p, t.selected[p]>>).to
    BY <1>1, <1>3, <1>4 DEF Placed, AtSelected
  <2>3. t.selected[p] \in c[2]..t.selected[p]
    BY <1>1, <2>1
  <2> QED BY <2>1, <2>2, <2>3 DEF Covered
<1> QED BY <1>3, <1>4

(* Expanding a module of the level satisfies its requirements and keeps    *)
(* the level invariant.                                                    *)
LEMMA ExpandKeeps ==
    ASSUME IsWorld(world), ordinaryReplaces, NEW s, NEW X, Inv(s, {}, X, {}),
           NEW bi \in Task, bi.coord \in X
    PROVE  /\ Inv(expandModule(s, bi), {}, X, {})
           /\ expandModule(s, bi).expandedKeys = s.expandedKeys \cup {bi.coord}
<1> DEFINE t == [s EXCEPT !.expandedKeys = @ \cup {bi.coord}]
           q == filterRequires(goMod(bi.coord).requires)
           D == {bi.coord}
           K == s.expandedKeys \cup {bi.coord}
<1>1. /\ s \in States /\ Placed(s) /\ Asked(s) /\ InLine(s) /\ Fetched(s, {})
      /\ Followed(s, X, {}) /\ Fresh(s, {}, X)
  BY DEF Inv
<1>2. /\ t \in States /\ t.expandedKeys = K /\ t.processed = s.processed
      /\ t.selected = s.selected /\ t.nodes = s.nodes /\ t.queue = s.queue /\ t.edges = s.edges
      /\ t.truncated = s.truncated /\ t.parsed = s.parsed /\ t.partial = s.partial
  <2>1. K \subseteq Coordinates /\ t = [s EXCEPT !.expandedKeys = K]
    BY <1>1, StateFacts DEF Task
  <2> HIDE DEF K, t
  <2>2. s \in StateFields
    BY <1>1, FieldsTyped
  <2>3. /\ t \in StateFields /\ t.expandedKeys = K /\ t.processed = s.processed
        /\ t.selected = s.selected /\ t.nodes = s.nodes /\ t.queue = s.queue /\ t.edges = s.edges
        /\ t.truncated = s.truncated /\ t.parsed = s.parsed /\ t.partial = s.partial
    BY <2>1, <2>2 DEF StateFields
  <2> QED BY <1>1, <2>3, StateFacts, QueueKeys
<1>3. q \in Seq(Requirement) /\ Len(q) \in Nat /\ DOMAIN q = 1..Len(q)
  <2>1. q \in Seq(Requirement)
    BY GoModTyped, FilteredTyped
  <2> HIDE DEF q
  <2> QED BY <2>1
<1>4. expandModule(s, bi) = IF bi.coord \notin s.parsed THEN t ELSE follows(bi, t, q)
  BY DEF expandModule, follows
<1> HIDE DEF t, q
<1>5. Grows(s, t)
  <2>1. \A p \in DOMAIN s.selected : s.selected[p] <= s.selected[p]
    BY <1>1, StateFacts
  <2> QED BY <1>2, <2>1 DEF Grows, ToExpand
<1>6. /\ Placed(t) /\ Asked(t) /\ InLine(t) /\ Fetched(t, {}) /\ Fresh(t, {}, X)
  <2>1. SameNodes(s, t)
    BY <1>2 DEF SameNodes
  <2>2. Placed(t)
    BY <1>1, <2>1, KnownPlaced
  <2>3. Asked(t)
    BY <1>1, <1>2 DEF Asked, EdgeAsks, IsAsked
  <2>4. InLine(t)
    BY <1>1, <1>2 DEF InLine
  <2>5. Fetched(t, {})
    BY <1>1, <1>2 DEF Fetched, IsFetched, Passed, hasFailed, Queued
  <2>6. Fresh(t, {}, X)
    BY <1>1, <1>2 DEF Fresh
  <2> QED BY <2>2, <2>3, <2>4, <2>5, <2>6
<1>7. RootsCovered(t, X)
  <2> SUFFICES ASSUME NEW p \in roots \cap DOMAIN t.nodes, t.nodes[p].source \in resolved
               PROVE  Covered(t, X, p, t.selected[p])
    BY DEF RootsCovered
  <2>1. Covered(s, X, p, s.selected[p])
    BY <1>1, <1>2 DEF Followed, RootsCovered
  <2>2. s.selected[p] \in Int
    BY <1>1, <2>1, StateFacts DEF Covered
  <2> QED BY <1>1, <1>2, <1>5, <2>1, <2>2, CoveredGrows
<1>8. Followed(t, X, D)
  <2>1. Followed(s, X, D)
    BY <1>1 DEF Followed
  <2>2. t.expandedKeys \ D = s.expandedKeys \ D
    BY <1>2
  <2> HIDE DEF D
  <2> QED BY <1>1, <1>2, <1>5, <1>7, <2>1, <2>2, FollowedGrows
<1>9. Inv(t, {}, X, D)
  BY <1>2, <1>6, <1>8 DEF Inv
<1>10. CASE bi.coord \notin s.parsed
  <2>1. Followed(t, X, {})
    BY <1>2, <1>8, <1>10 DEF Followed
  <2> QED BY <1>2, <1>4, <1>6, <1>10, <2>1 DEF Inv
<1>11. CASE bi.coord \in s.parsed
  <2> HIDE DEF D, K
  <2> DEFINE St == {u \in States : Inv(u, {}, X, D) /\ u.expandedKeys = K}
  <2>1. ASSUME NEW u \in St, NEW r \in Requirement
        PROVE  /\ enqueueTransitive(u, bi, r) \in St /\ Grows(u, enqueueTransitive(u, bi, r))
               /\ Satisfied(enqueueTransitive(u, bi, r), X, bi.coord, r)
    <3> DEFINE v == enqueueTransitive(u, bi, r)
               c == r.coord
    <3>0. u \in States /\ Inv(u, {}, X, D) /\ u.expandedKeys = K
      OBVIOUS
    <3> HIDE DEF St
    <3>1. v \in States /\ Handled(u, v, c, worthy(bi, c)) /\ IsMet(v, c, worthy(bi, c))
      BY <3>0, FollowShape
    <3>2. c \in Coordinates /\ (c[1] \in roots => worthy(bi, c))
      BY CoordinateFacts DEF Requirement, worthy
    <3> HIDE DEF v
    <3>3. Inv(v, {}, X, D) /\ Grows(u, v)
      <4> HIDE DEF c
      <4> QED BY <3>0, <3>1, <3>2, HandledKeeps
    <3>4. v.expandedKeys = u.expandedKeys
      BY <3>1 DEF Handled, Known, Placeheld, Raised, Frame
    <3>5. Satisfied(v, X, bi.coord, r)
      BY <3>1, <3>3, MetIsSatisfied DEF Inv
    <3> QED BY <3>0, <3>1, <3>3, <3>4, <3>5 DEF v, St
  <2>2. t \in St
    BY <1>2, <1>9
  <2>3. PICK tr \in [0..Len(q) -> St] :
          /\ tr[0] = t /\ tr[Len(q)] = follows(bi, t, q)
          /\ \A k \in 1..Len(q) : tr[k] = enqueueTransitive(tr[k - 1], bi, q[k])
    <3> HIDE DEF St
    <3>1. FollowClosed(St, Requirement, bi)
      BY <2>1 DEF FollowClosed
    <3>2. FollowTraced(St, t, q, bi)
      BY <1>3, <2>2, <3>1, FollowTrace
    <3> QED BY <3>2 DEF FollowTraced
  <2> DEFINE n == Len(q)
             S == {k \in 0..n : \A i \in 1..k : Satisfied(tr[k], X, bi.coord, q[i])}
  <2>4. 0 \in S
    BY <1>3
  <2>5. ASSUME NEW k \in 1..n, k - 1 \in S PROVE k \in S
    <3>1. tr[k - 1] \in St /\ tr[k] \in St /\ q[k] \in Requirement
          /\ tr[k] = enqueueTransitive(tr[k - 1], bi, q[k])
      BY <1>3, <2>3
    <3>2. Grows(tr[k - 1], tr[k]) /\ Satisfied(tr[k], X, bi.coord, q[k])
      BY <2>1, <3>1
    <3>3. ASSUME NEW i \in 1..(k - 1) PROVE Satisfied(tr[k], X, bi.coord, q[i])
      <4>1. Satisfied(tr[k - 1], X, bi.coord, q[i]) /\ q[i] \in Requirement
        BY <1>3, <2>5
      <4>2. tr[k - 1] \in States /\ tr[k] \in States
        BY <3>1
      <4> QED BY <3>2, <4>1, <4>2, SatisfiedGrows
    <3>4. \A i \in 1..k : i = k \/ i \in 1..(k - 1)
      BY <1>3
    <3> QED BY <1>3, <3>2, <3>3, <3>4
  <2> HIDE DEF S, n
  <2>6. n \in S
    <3>1. \A k \in 0..n : k \in S
      BY <1>3, <2>4, <2>5, CountUp DEF n
    <3> QED BY <1>3, <3>1 DEF n
  <2> DEFINE u == tr[Len(q)]
  <2>7. u \in St /\ \A i \in DOMAIN q : Satisfied(u, X, bi.coord, q[i])
    BY <1>3, <2>3, <2>6 DEF S, n
  <2>8. u = expandModule(s, bi)
    BY <1>4, <1>11, <2>3
  <2> HIDE DEF u
  <2>9. Inv(u, {}, X, D) /\ u.expandedKeys = K
    BY <2>7
  <2>10. AllSatisfied(u, X, bi.coord)
    BY <2>7 DEF AllSatisfied, ToSet, q
  <2>11. Followed(u, X, {})
    BY <2>9, <2>10 DEF Inv, Followed, D
  <2> QED BY <2>8, <2>9, <2>11 DEF Inv, K
<1> QED BY <1>10, <1>11

(* Expanding a level makes a resolveState.                                 *)
LEMMA ExpandsTyped ==
    ASSUME IsWorld(world), NEW s \in States, NEW ts \in Seq(Task)
    PROVE  expands(s, ts) \in States
<1>1. ExpandClosed(States, Task)
  BY FollowsTyped DEF ExpandClosed
<1>2. PICK tr \in [0..Len(ts) -> States] :
        /\ tr[0] = s /\ tr[Len(ts)] = expands(s, ts)
        /\ \A k \in 1..Len(ts) : tr[k] = expandModule(tr[k - 1], ts[k])
  BY <1>1, ExpandTrace DEF ExpandTraced
<1>3. Len(ts) \in 0..Len(ts)
  OBVIOUS
<1> QED BY <1>2, <1>3

(* When the level is expanded nothing is left to expand, and the level     *)
(* invariant holds.                                                        *)
LEMMA ExpandsKeep ==
    ASSUME IsWorld(world), ordinaryReplaces, NEW s, NEW ts \in Seq(Task),
           Inv(s, {}, coordsOf(ts), {})
    PROVE  Inv(expands(s, ts), {}, {}, {})
<1> DEFINE X == coordsOf(ts)
           St == {u \in States : Inv(u, {}, X, {})}
           E == {bi \in Task : bi.coord \in X}
           n == Len(ts)
<1>1. ASSUME NEW u \in St, NEW bi \in E
      PROVE  /\ expandModule(u, bi) \in St
             /\ expandModule(u, bi).expandedKeys = u.expandedKeys \cup {bi.coord}
  <2>1. u \in States /\ bi \in Task /\ bi.coord \in X /\ Inv(u, {}, X, {})
    OBVIOUS
  <2> HIDE DEF X
  <2>2. /\ Inv(expandModule(u, bi), {}, X, {})
        /\ expandModule(u, bi).expandedKeys = u.expandedKeys \cup {bi.coord}
    BY <2>1, ExpandKeeps
  <2> QED BY <2>2 DEF Inv
<1>2. s \in St /\ n \in Nat /\ DOMAIN ts = 1..n
  BY DEF Inv
<1>3. ts \in Seq(E)
  <2>1. \A i \in DOMAIN ts : ts[i] \in E
    BY DEF coordsOf
  <2> QED BY <2>1
<1>4. PICK tr \in [0..n -> St] :
        /\ tr[0] = s /\ tr[n] = expands(s, ts)
        /\ \A k \in 1..n : tr[k] = expandModule(tr[k - 1], ts[k])
  <2> HIDE DEF St, E
  <2>1. ExpandClosed(St, E)
    BY <1>1 DEF ExpandClosed
  <2>2. ExpandTraced(St, s, ts)
    BY <1>2, <1>3, <2>1, ExpandTrace
  <2> QED BY <2>2 DEF ExpandTraced
<1> DEFINE S == {k \in 0..n : \A i \in 1..k : ts[i].coord \in tr[k].expandedKeys}
<1>5. 0 \in S
  BY <1>2
<1>6. ASSUME NEW k \in 1..n, k - 1 \in S PROVE k \in S
  <2>1. tr[k - 1] \in St /\ ts[k] \in E /\ tr[k] = expandModule(tr[k - 1], ts[k])
    BY <1>2, <1>3, <1>4
  <2>2. tr[k].expandedKeys = tr[k - 1].expandedKeys \cup {ts[k].coord}
    BY <1>1, <2>1
  <2>3. \A i \in 1..k : i = k \/ i \in 1..(k - 1)
    BY <1>2
  <2>4. \A i \in 1..(k - 1) : ts[i].coord \in tr[k - 1].expandedKeys
    BY <1>6
  <2> QED BY <1>2, <2>2, <2>3, <2>4
<1> HIDE DEF S, n
<1>7. n \in S
  <2>1. \A k \in 0..n : k \in S
    BY <1>2, <1>5, <1>6, CountUp
  <2> QED BY <1>2, <2>1
<1> DEFINE t == expands(s, ts)
<1>8. t \in St /\ \A i \in 1..n : ts[i].coord \in t.expandedKeys
  BY <1>2, <1>4, <1>7 DEF S
<1>9. Inv(t, {}, X, {}) /\ X \subseteq t.expandedKeys
  BY <1>2, <1>8 DEF coordsOf
<1> HIDE DEF t, X
<1>10. t.expandedKeys \cup X = t.expandedKeys \cup {}
  BY <1>9
<1>11. \A p, v : Covered(t, X, p, v) => Covered(t, {}, p, v)
  BY <1>10 DEF Covered
<1>12. \A c, r : Satisfied(t, X, c, r) => Satisfied(t, {}, c, r)
  BY <1>11 DEF Satisfied
<1>13. RootsCovered(t, {})
  BY <1>9, <1>11 DEF Inv, Followed, RootsCovered
<1>14. \A c \in (t.expandedKeys \cap t.parsed) \ {} : AllSatisfied(t, {}, c)
  BY <1>9, <1>12 DEF Inv, Followed, AllSatisfied
<1>15. Followed(t, {}, {})
  BY <1>13, <1>14 DEF Followed
<1>16. Fresh(t, {}, {})
  BY <1>9 DEF Inv, Fresh
<1> QED BY <1>9, <1>15, <1>16 DEF Inv, t

---------------------------------------------------------------------------
(* The graph that is returned for a final state.                           *)
wholeGraph(s, D) ==
    [nodes |-> D, edges |-> s.edges,
     partial |-> s.partial \cup IF s.truncated THEN {"depth_bounded"} ELSE {}]

(* g is what s is drained to.                                              *)
Drained(s, g) ==
    \E D \in drainNodes(Range(s.nodes)) : g = FilterGraphToScope(wholeGraph(s, D))

(* The scope leaves some of the project's modules out.                     *)
cuts == world.kind = "project" /\ world.scope # Paths

(* Every edge ends at a node.                                              *)
EdgesEnd(s) == \A e \in s.edges : \E n \in Range(s.nodes) : n.coord = e.to

(* What drainNodes and FilterGraphToScope leave: a node for every          *)
(* coordinate that the scope keeps, a replaced one where there is one, and *)
(* no edge without an end but those to the path of a fork.                 *)
LEMMA DrainedFacts ==
    ASSUME NEW s, NEW g, Drained(s, g)
    PROVE  /\ g.nodes \subseteq Range(s.nodes)
           /\ g.partial = s.partial \cup IF s.truncated THEN {"depth_bounded"} ELSE {}
           /\ \A n \in g.nodes : n.original = NoCoord =>
                \A m \in Range(s.nodes) : m.coord = n.coord => m.original = NoCoord
           /\ cuts => \A n \in g.nodes : inScope(n)
           /\ \A n \in Range(s.nodes) : \E m \in Range(s.nodes) :
                /\ m.coord = n.coord /\ (m \in g.nodes \/ (cuts /\ ~inScope(m)))
                /\ m.original = NoCoord => n.original = NoCoord
           /\ EdgesEnd(s) => \A e \in g.edges :
                \/ \E n \in g.nodes : n.coord = e.to
                \/ world.scope # Paths /\ e.to[1] \in forkPaths(g)
<1>1. PICK D \in drainNodes(Range(s.nodes)) : g = FilterGraphToScope(wholeGraph(s, D))
  BY DEF Drained
<1> DEFINE all == Range(s.nodes)
           part == s.partial \cup IF s.truncated THEN {"depth_bounded"} ELSE {}
           kept == {n \in D : inScope(n)}
           keep == {Target} \cup {n.coord[1] : n \in kept}
                     \cup {n.original[1] : n \in {m \in kept : m.original # NoCoord}}
<1>2. /\ D \subseteq all /\ \A n \in all : \E m \in D : m.coord = n.coord
      /\ \A m \in D : m.original = NoCoord =>
            \A n \in all : n.coord = m.coord => n.original = NoCoord
  BY <1>1 DEF drainNodes
<1>3. wholeGraph(s, D) = [nodes |-> D, edges |-> s.edges, partial |-> part]
  BY DEF wholeGraph
<1>4. /\ g.nodes = IF cuts THEN kept ELSE D
      /\ g.partial = part
      /\ g.edges = IF cuts THEN {e \in s.edges : e.from[1] \in keep /\ e.to[1] \in keep} ELSE s.edges
  <2> HIDE DEF part
  <2>1. CASE ~cuts
    <3>1. g = [nodes |-> D, edges |-> s.edges, partial |-> part]
      BY <1>1, <1>3, <2>1 DEF FilterGraphToScope, cuts
    <3> QED BY <2>1, <3>1
  <2>2. CASE cuts
    <3> DEFINE w == wholeGraph(s, D)
               E == {e \in s.edges : e.from[1] \in keep /\ e.to[1] \in keep}
    <3>1. w.nodes = D /\ w.edges = s.edges
      BY <1>3
    <3>2. FilterGraphToScope(w) = [w EXCEPT !.nodes = kept, !.edges = E]
      <4> HIDE DEF w
      <4> QED BY <2>2, <3>1 DEF FilterGraphToScope, cuts
    <3>3. w = [nodes |-> D, edges |-> s.edges, partial |-> part] /\ g = FilterGraphToScope(w)
      BY <1>1, <1>3
    <3> HIDE DEF kept, w, E
    <3>4. g.nodes = kept /\ g.edges = E /\ g.partial = part
      BY <3>2, <3>3
    <3> QED BY <2>2, <3>4 DEF E
  <2> QED BY <2>1, <2>2
<1>5. g.nodes \subseteq D /\ (cuts => \A n \in g.nodes : inScope(n))
      /\ \A m \in D : m \in g.nodes \/ (cuts /\ ~inScope(m))
  BY <1>4
<1>6. ASSUME EdgesEnd(s), NEW e \in g.edges
      PROVE  \/ \E n \in g.nodes : n.coord = e.to
             \/ world.scope # Paths /\ e.to[1] \in forkPaths(g)
  <2>1. e \in s.edges /\ (cuts => e.to[1] \in keep)
    BY <1>4, <1>6
  <2>2. PICK m \in D : m.coord = e.to
    <3>1. PICK n \in all : n.coord = e.to
      BY <1>6, <2>1 DEF EdgesEnd
    <3> QED BY <1>2, <3>1
  <2>3. CASE ~cuts
    BY <1>4, <2>2, <2>3
  <2>4. CASE cuts /\ inScope(m)
    BY <1>4, <2>2, <2>4
  <2>5. CASE cuts /\ ~inScope(m)
    <3>1. e.to[1] \notin world.scope \cup {Target}
      BY <2>2, <2>5 DEF inScope
    <3>2. PICK n \in kept : e.to[1] = n.coord[1] \/ (n.original # NoCoord /\ e.to[1] = n.original[1])
      BY <2>1, <2>5, <3>1
    <3>3. n \in g.nodes /\ inScope(n)
      BY <1>4, <2>5, <3>2
    <3>4. n.original # NoCoord
      BY <3>1, <3>2, <3>3 DEF inScope
    <3>5. e.to[1] \in forkPaths(g)
      BY <3>2, <3>3, <3>4 DEF forkPaths
    <3> QED BY <2>5, <3>5 DEF cuts
  <2> QED BY <2>3, <2>4, <2>5
<1> HIDE DEF kept, keep
<1> QED BY <1>2, <1>4, <1>5, <1>6

---------------------------------------------------------------------------
(* The levels are through, or were cut short by a cancellation.            *)
GoodWave(s) ==
    /\ world.kind # "shallow" /\ s \in States
    /\ world.kind = "project" => s.partial # {}
    /\ ordinaryReplaces => Inv(s, {}, {}, {})

(* A cancelled run leaves its queue and says so.                           *)
cutShort(s) == [s EXCEPT !.partial = @ \cup IF s.queue # <<>> THEN {"cancelled"} ELSE {}]

(* The state the levels end in.                                            *)
FinalLevels(s) == \E s0 : GoodWave(s0) /\ s = repinEdgesToSelected(cutShort(s0))

(* The edges are repinned, and nothing else is changed.                    *)
Repinned(s0, s) ==
    /\ s.selected = s0.selected /\ s.nodes = s0.nodes /\ s.parsed = s0.parsed
    /\ s.processed = s0.processed /\ s.expandedKeys = s0.expandedKeys
    /\ s.truncated = s0.truncated /\ s.queue = s0.queue
    /\ s.partial = s0.partial \cup IF s0.queue # <<>> THEN {"cancelled"} ELSE {}
    /\ s.edges = {repinEdge(s0, e) : e \in s0.edges}

(* repinEdge makes an edge.                                                *)
LEMMA RepinTyped ==
    ASSUME NEW s \in States, NEW e \in EdgeType
    PROVE  repinEdge(s, e) \in EdgeType
<1> DEFINE sel == <<e.to[1], s.selected[e.to[1]]>>
<1>1. e.to[1] \in DOMAIN s.selected => sel \in Coordinates /\ localIdentity(sel) \in Coordinates
  BY StateFacts, CoordinateFacts, Bounds DEF localIdentity
<1>2. \A x \in Coordinates : [e EXCEPT !.to = x] \in EdgeType
  BY DEF EdgeType
<1> QED BY <1>1, <1>2 DEF repinEdge

(* repinEdgesToSelected rewrites the edges and nothing else.               *)
LEMMA RepinShape ==
    ASSUME NEW s0 \in States, NEW s, s = repinEdgesToSelected(cutShort(s0))
    PROVE  s \in States /\ Repinned(s0, s)
<1> DEFINE part == s0.partial \cup IF s0.queue # <<>> THEN {"cancelled"} ELSE {}
           t == cutShort(s0)
           P == {repinEdge(t, e) : e \in t.edges}
<1>1. s0 \in StateFields
  BY FieldsTyped
<1>2. part \subseteq Reasons
  BY StateFacts DEF Reasons
<1>3. t = [s0 EXCEPT !.partial = part]
  BY DEF cutShort
<1> HIDE DEF part, t
<1>4. /\ t \in StateFields /\ t.selected = s0.selected /\ t.nodes = s0.nodes /\ t.parsed = s0.parsed
      /\ t.processed = s0.processed /\ t.expandedKeys = s0.expandedKeys
      /\ t.truncated = s0.truncated /\ t.queue = s0.queue /\ t.partial = part /\ t.edges = s0.edges
  BY <1>1, <1>2, <1>3 DEF StateFields
<1>5. \A e : repinEdge(t, e) = repinEdge(s0, e)
  BY <1>4 DEF repinEdge
<1>6. P = {repinEdge(s0, e) : e \in s0.edges}
  BY <1>4, <1>5
<1>7. P \subseteq EdgeType
  BY <1>6, RepinTyped, StateFacts
<1>8. s = [t EXCEPT !.edges = P]
  BY DEF repinEdgesToSelected, t
<1> HIDE DEF P
<1>9. /\ s \in StateFields /\ s.selected = s0.selected /\ s.nodes = s0.nodes /\ s.parsed = s0.parsed
      /\ s.processed = s0.processed /\ s.expandedKeys = s0.expandedKeys
      /\ s.truncated = s0.truncated /\ s.queue = s0.queue /\ s.partial = part /\ s.edges = P
  BY <1>4, <1>7, <1>8 DEF StateFields
<1>10. s \in States
  BY <1>9, StateFacts, QueueKeys
<1> QED BY <1>6, <1>9, <1>10 DEF Repinned, part

(* Where repinning leaves an edge of the levels.                           *)
LEMMA RepinIs ==
    ASSUME IsWorld(world), ordinaryReplaces, NEW s \in States, Placed(s),
           NEW e \in EdgeType, NEW p \in DOMAIN s.selected,
           e.to = applyReplace(<<p, e.constraint>>).to
    PROVE  /\ repinEdge(s, e).constraint = e.constraint
           /\ how(p) = "mvs" => \/ repinEdge(s, e).to = <<p, s.selected[p]>>
                                \/ /\ repinEdge(s, e).to = <<p, e.constraint>>
                                   /\ \E m \in Range(s.nodes) : /\ m.original # NoCoord
                                                                /\ m.coord = <<p, e.constraint>>
           /\ how(p) # "mvs" => repinEdge(s, e).to = s.nodes[p].coord
           /\ \E n \in Range(s.nodes) : n.coord = repinEdge(s, e).to
<1> DEFINE d == <<p, e.constraint>>
           sel == <<p, s.selected[p]>>
           f == repinEdge(s, e)
           all == Range(s.nodes)
<1>1. /\ d \in Coordinates /\ d[1] = p /\ sel \in Coordinates /\ sel[1] = p
      /\ p \in DOMAIN s.nodes /\ p \in Paths
  BY StateFacts, CoordinateFacts DEF EdgeType, Placed
<1>2. s.nodes[p].coord = applyReplace(sel).to /\ s.nodes[p].original = applyReplace(sel).original
      /\ s.nodes[p] \in all /\ (s.nodes[p].source = "local_replace" <=> how(p) = "local_replace")
  BY <1>1 DEF Placed, AtSelected, Range
<1>3. e.to = applyReplace(d).to /\ e \in EdgeType
  OBVIOUS
<1> DEFINE pinned == \E n \in all : n.original # NoCoord /\ n.coord = e.to
           local == {n \in all : n.source = "local_replace"
                                  /\ n.original = <<e.to[1], s.selected[e.to[1]]>>}
           new == IF local = {} THEN <<e.to[1], s.selected[e.to[1]]>>
                  ELSE localIdentity(<<e.to[1], s.selected[e.to[1]]>>)
<1>4. f = IF pinned \/ e.to[1] \notin DOMAIN s.selected THEN e ELSE [e EXCEPT !.to = new]
  BY DEF repinEdge
<1> HIDE DEF d, sel, f
<1>5. /\ applyReplace(d).source = how(p) /\ applyReplace(sel).source = how(p)
      /\ how(p) = "mvs" => applyReplace(d).to = d /\ applyReplace(sel).to = sel
                           /\ applyReplace(sel).original = NoCoord
      /\ how(p) # "mvs" => applyReplace(sel).original = sel
      /\ how(p) = "local_replace" => applyReplace(d).to = <<p, 0>> /\ applyReplace(sel).to = <<p, 0>>
      /\ how(p) = "replace" => applyReplace(d).to = forkOf(p) /\ applyReplace(sel).to = forkOf(p)
  BY <1>1, ApplyAt
<1>6. how(p) \in {"mvs", "replace", "local_replace"}
  BY <1>1, <1>5, ApplyTyped
<1>7. f.constraint = e.constraint
  BY <1>3, <1>4 DEF EdgeType
<1>8. CASE how(p) # "mvs"
  <2>1. e.to = s.nodes[p].coord /\ s.nodes[p].original # NoCoord
    BY <1>1, <1>2, <1>3, <1>5, <1>6, <1>8, CoordinateFacts
  <2>2. f = e
    BY <1>2, <1>4, <2>1
  <2> QED BY <1>2, <1>7, <1>8, <2>1, <2>2 DEF f
<1>9. CASE how(p) = "mvs"
  <2>1. e.to = d /\ e.to[1] = p /\ s.nodes[p].coord = sel /\ s.nodes[p].original = NoCoord
    BY <1>1, <1>2, <1>3, <1>5, <1>9
  <2>2. CASE pinned
    <3>1. f = e
      BY <1>4, <2>2
    <3>2. PICK m \in all : m.original # NoCoord /\ m.coord = e.to
      BY <2>2
    <3> QED BY <1>7, <1>9, <2>1, <3>1, <3>2 DEF f, d
  <2>3. CASE ~pinned
    <3>1. f = [e EXCEPT !.to = new]
      BY <1>4, <2>1, <2>3
    <3>2. local = {}
      <4> SUFFICES ASSUME NEW n \in all, n.source = "local_replace", n.original = sel PROVE FALSE
        BY <2>1 DEF sel
      <4>1. PICK x \in DOMAIN s.nodes : n = s.nodes[x]
        BY DEF Range
      <4>2. AtSelected(s, x) /\ x \in DOMAIN s.selected
        BY <4>1 DEF Placed
      <4>3. <<x, s.selected[x]>> \in Coordinates /\ how(x) = "local_replace"
        BY <4>1, <4>2, StateFacts, CoordinateFacts DEF AtSelected
      <4>4. n.original = <<x, s.selected[x]>>
        <5> DEFINE y == <<x, s.selected[x]>>
        <5>1. y \in Coordinates /\ y[1] = x
          BY <4>3
        <5> HIDE DEF y
        <5>2. applyReplace(y).original = y
          BY <4>3, <5>1, ApplyAt
        <5> QED BY <4>1, <4>2, <5>2 DEF AtSelected, y
      <4>5. x = p
        BY <4>4 DEF sel
      <4> QED BY <1>9, <4>3, <4>5
    <3>3. f.to = sel
      BY <1>3, <2>1, <3>1, <3>2 DEF EdgeType, sel
    <3> QED BY <1>2, <1>7, <1>9, <2>1, <3>3 DEF f, sel
  <2> QED BY <2>2, <2>3
<1> QED BY <1>6, <1>8, <1>9

---------------------------------------------------------------------------
(* What the properties say of a graph resolved by levels.                  *)
LEMMA LevelsEnd ==
    ASSUME IsWorld(world), ordinaryReplaces, NEW s0, GoodWave(s0), NEW s, Repinned(s0, s)
    PROVE  EdgesEnd(s)
<1>1. s0 \in States /\ Placed(s0) /\ Asked(s0)
  BY DEF GoodWave, Inv
<1> SUFFICES ASSUME NEW e \in s0.edges
             PROVE  \E n \in Range(s0.nodes) : n.coord = repinEdge(s0, e).to
  BY DEF EdgesEnd, Repinned
<1>2. PICK p \in DOMAIN s0.selected : e.to = applyReplace(<<p, e.constraint>>).to
  BY <1>1 DEF Asked, EdgeAsks
<1>3. e \in EdgeType
  BY <1>1, StateFacts
<1> QED BY <1>1, <1>2, <1>3, RepinIs

(* A resolved node was fetched, or is a fork whose failure the graph       *)
(* states.                                                                 *)
LEMMA LevelsFetched ==
    ASSUME IsWorld(world), ordinaryReplaces, NEW s0, GoodWave(s0), NEW s, Repinned(s0, s),
           NEW g, Drained(s, g), "cancelled" \notin g.partial,
           NEW n \in g.nodes, n.source \in {"mvs", "replace"}
    PROVE  n.coord \in s.parsed \/ (n.coord \in forks /\ g.partial \cap failures # {})
<1>1. s0 \in States /\ Placed(s0) /\ Fetched(s0, {})
  BY DEF GoodWave, Inv
<1>2. g.nodes \subseteq Range(s.nodes) /\ s.partial \subseteq g.partial
  BY DrainedFacts
<1>3. s0.queue = <<>> /\ s0.partial \subseteq g.partial
  BY <1>2 DEF Repinned
<1>4. PICK p \in DOMAIN s0.nodes : n = s0.nodes[p]
  BY <1>2 DEF Repinned, Range
<1>5. IsFetched(s0, {}, p)
  BY <1>1, <1>4 DEF Fetched, resolved
<1>6. ~Queued(s0, p)
  BY <1>3 DEF Queued
<1>7. n.coord \in s0.parsed \/ (n.coord \in forks /\ hasFailed(s0))
  BY <1>4, <1>5, <1>6 DEF IsFetched
<1> QED BY <1>3, <1>7 DEF Repinned, hasFailed

(* A node stands where its selected version and the replaces put it.       *)
LEMMA LevelsSelected ==
    ASSUME IsWorld(world), ordinaryReplaces, NEW s0, GoodWave(s0), NEW s, Repinned(s0, s),
           NEW p \in DOMAIN s.nodes
    PROVE  LET o == applyReplace(<<p, s.selected[p]>>)
           IN  s.nodes[p].coord = o.to /\ s.nodes[p].original = o.original
  BY DEF GoodWave, Inv, Placed, AtSelected, Repinned

(* An unreplaced node stands at the highest version asked for, which was   *)
(* asked for.                                                              *)
LEMMA LevelsMaximum ==
    ASSUME IsWorld(world), ordinaryReplaces, NEW s0, GoodWave(s0), NEW s, Repinned(s0, s),
           NEW g, Drained(s, g), ~s.truncated,
           NEW n \in g.nodes, n.original = NoCoord, n.coord # TargetCoord
    PROVE  LET asked == {e.constraint : e \in {x \in s.edges : x.to = n.coord}}
           IN  n.coord[2] \in asked /\ \A v \in asked : v <= n.coord[2]
<1>1. s0 \in States /\ Placed(s0) /\ Asked(s0) /\ ~s0.truncated
  BY DEF GoodWave, Inv, Repinned
<1>2. /\ g.nodes \subseteq Range(s0.nodes)
      /\ \A m \in Range(s0.nodes) : m.coord = n.coord => m.original = NoCoord
  BY DrainedFacts DEF Repinned
<1>3. PICK p \in DOMAIN s0.nodes : n = s0.nodes[p]
  BY <1>2 DEF Range
<1> DEFINE sel == <<p, s0.selected[p]>>
<1>4. /\ p \in DOMAIN s0.selected /\ sel \in Coordinates /\ sel[1] = p
      /\ n.coord = applyReplace(sel).to /\ n.original = applyReplace(sel).original
  BY <1>1, <1>3, StateFacts, CoordinateFacts DEF Placed, AtSelected
<1>5. how(p) = "mvs" /\ n.coord = sel
  <2> HIDE DEF sel
  <2>1. /\ how(p) # "mvs" => applyReplace(sel).original = sel
        /\ how(p) = "mvs" => applyReplace(sel).to = sel
    BY <1>4, ApplyAt
  <2>2. sel # NoCoord
    BY <1>4, CoordinateFacts
  <2> QED BY <1>4, <2>1, <2>2
<1>6. ASSUME NEW e \in s0.edges, NEW q \in DOMAIN s0.selected,
             e.to = applyReplace(<<q, e.constraint>>).to
      PROVE  /\ repinEdge(s0, e).constraint = e.constraint
             /\ how(q) = "mvs" => \/ repinEdge(s0, e).to = <<q, s0.selected[q]>>
                                  \/ /\ repinEdge(s0, e).to = <<q, e.constraint>>
                                     /\ \E m \in Range(s0.nodes) : /\ m.original # NoCoord
                                                                   /\ m.coord = <<q, e.constraint>>
             /\ how(q) # "mvs" => repinEdge(s0, e).to = s0.nodes[q].coord
  <2>1. e \in EdgeType
    BY <1>1, StateFacts
  <2> QED BY <1>1, <1>6, <2>1, RepinIs
<1>7. \E x \in s.edges : x.to = n.coord /\ x.constraint = n.coord[2]
  <2>1. IsAsked(s0, p)
    BY <1>1, <1>4 DEF Asked
  <2>2. PICK e \in s0.edges : e.to = sel /\ e.constraint = s0.selected[p]
    BY <1>5, <2>1 DEF IsAsked
  <2>3. e.to = applyReplace(<<p, e.constraint>>).to
    BY <1>4, <1>5, <2>2
  <2>4. repinEdge(s0, e).constraint = s0.selected[p] /\ repinEdge(s0, e).to = sel
    BY <1>4, <1>5, <1>6, <2>2, <2>3
  <2>5. repinEdge(s0, e) \in s.edges
    BY DEF Repinned
  <2> QED BY <1>5, <2>4, <2>5
<1>8. ASSUME NEW x \in s.edges, x.to = n.coord PROVE x.constraint <= n.coord[2]
  <2>1. PICK e \in s0.edges : x = repinEdge(s0, e)
    BY DEF Repinned
  <2>2. PICK q \in DOMAIN s0.selected :
           /\ e.to = applyReplace(<<q, e.constraint>>).to
           /\ how(q) # "mvs" \/ e.constraint <= s0.selected[q]
    BY <1>1 DEF Asked, EdgeAsks
  <2>3. /\ x.constraint = e.constraint
        /\ how(q) = "mvs" => \/ x.to = <<q, s0.selected[q]>>
                             \/ x.to = <<q, e.constraint>>
        /\ how(q) # "mvs" => x.to = s0.nodes[q].coord
    BY <1>6, <2>1, <2>2
  <2>4. how(q) = "mvs"
    <3> SUFFICES ASSUME how(q) # "mvs" PROVE FALSE
      OBVIOUS
    <3> DEFINE y == <<q, s0.selected[q]>>
    <3>1. q \in DOMAIN s0.nodes /\ s0.nodes[q] \in Range(s0.nodes)
          /\ s0.nodes[q].original = applyReplace(y).original
      BY <1>1 DEF Placed, AtSelected, Range
    <3>2. y \in Coordinates /\ y[1] = q
      BY <1>1, StateFacts, CoordinateFacts
    <3> HIDE DEF y
    <3>3. applyReplace(y).original = y /\ y # NoCoord
      BY <3>2, ApplyAt, CoordinateFacts
    <3> QED BY <1>2, <1>8, <2>3, <3>1, <3>3
  <2>5. q = p
    BY <1>5, <1>8, <2>3, <2>4
  <2> QED BY <1>5, <2>2, <2>3, <2>4, <2>5
<1> QED BY <1>7, <1>8

(* In a whole graph the requirements of an expanded module have nodes, and *)
(* those of a pre-pruning one are followed.                                *)
LEMMA LevelsFollowed ==
    ASSUME IsWorld(world), ordinaryReplaces, NEW s0, GoodWave(s0), NEW s, Repinned(s0, s),
           NEW g, Drained(s, g), g.partial = {},
           NEW c \in s.expandedKeys \cap s.parsed,
           NEW r \in ToSet(filterRequires(goMod(c).requires))
    PROVE  \/ isExcluded(applyReplace(r.coord).to)
           \/ /\ r.coord[1] \in DOMAIN s.nodes
              /\ goMod(c).prePruning =>
                   \/ applyReplace(r.coord).source = "local_replace"
                   \/ \E v \in r.coord[2]..s.selected[r.coord[1]] :
                        applyReplace(<<r.coord[1], v>>).to \in s.expandedKeys
<1>1. s0 \in States /\ Followed(s0, {}, {})
  BY DEF GoodWave, Inv
<1>2. s0.queue = <<>> /\ ~s0.truncated
  <2>1. g.partial = s.partial \cup IF s.truncated THEN {"depth_bounded"} ELSE {}
    BY DrainedFacts
  <2>2. s.partial = {} /\ ~s.truncated
    BY <2>1
  <2> QED BY <2>2 DEF Repinned
<1>3. Satisfied(s0, {}, c, r)
  BY <1>1 DEF Followed, AllSatisfied, Repinned
<1>4. \A p : ~ToExpand(s0, p)
  BY <1>2 DEF ToExpand
<1> QED BY <1>2, <1>3, <1>4 DEF Satisfied, Covered, Repinned

(* In a whole graph a resolved root was fetched and expanded.              *)
LEMMA LevelsRoots ==
    ASSUME IsWorld(world), ordinaryReplaces, NEW s0, GoodWave(s0), NEW s, Repinned(s0, s),
           NEW g, Drained(s, g), g.partial = {},
           NEW p \in roots \cap DOMAIN s.nodes, s.nodes[p].source \in {"mvs", "replace"}
    PROVE  s.nodes[p].coord \in s.expandedKeys \cap s.parsed
<1>1. s0 \in States /\ Placed(s0) /\ Fetched(s0, {}) /\ RootsCovered(s0, {})
  BY DEF GoodWave, Inv, Followed
<1>2. s0.queue = <<>> /\ s0.partial = {} /\ s0.nodes = s.nodes
  <2>1. s.partial = {}
    BY DrainedFacts
  <2>2. s.partial = s0.partial \cup (IF s0.queue # <<>> THEN {"cancelled"} ELSE {})
    BY DEF Repinned
  <2> QED BY <2>1, <2>2 DEF Repinned
<1>3. ~ToExpand(s0, p) /\ ~Queued(s0, p) /\ ~hasFailed(s0)
  BY <1>2 DEF ToExpand, Queued, hasFailed
<1>4. Covered(s0, {}, p, s0.selected[p]) /\ IsFetched(s0, {}, p)
  BY <1>1, <1>2 DEF RootsCovered, Fetched, resolved
<1>5. s0.selected[p] \in Int
  BY <1>1, <1>4, StateFacts DEF Covered
<1>6. applyReplace(<<p, s0.selected[p]>>).to \in s0.expandedKeys
  <2>1. PICK w \in s0.selected[p]..s0.selected[p] : applyReplace(<<p, w>>).to \in s0.expandedKeys \cup {}
    BY <1>3, <1>4 DEF Covered
  <2>2. w = s0.selected[p]
    BY <1>5
  <2> QED BY <2>1, <2>2
<1>7. s0.nodes[p].coord = applyReplace(<<p, s0.selected[p]>>).to
  BY <1>1, <1>2 DEF Placed, AtSelected
<1>8. s0.nodes[p].coord \in s0.parsed
  BY <1>3, <1>4 DEF IsFetched
<1> QED BY <1>2, <1>6, <1>7, <1>8 DEF Repinned

---------------------------------------------------------------------------
(* A shallow graph: the target and what it requires, each path once.       *)
AtRequirement(s, p) ==
    \/ <<p, s.selected[p]>> = TargetCoord
    \/ \E r \in ToSet(world.requires) : r.coord = <<p, s.selected[p]>>

EdgeRequired(s, e) ==
    \E r \in ToSet(world.requires) :
        /\ e.to = applyReplace(r.coord).to /\ r.coord[1] \in DOMAIN s.selected
        /\ s.selected[r.coord[1]] = r.coord[2]

(* Every path stands at a requirement of the target.                       *)
Seeded(s) ==
    /\ Placed(s) /\ s.truncated = FALSE
    /\ \A p \in DOMAIN s.selected : AtRequirement(s, p)
    /\ \A e \in s.edges : EdgeRequired(s, e)

(* A requirement of the target is never cut by the depth bound.            *)
LEMMA SeedTruncates ==
    ASSUME NEW s \in States, NEW req
    PROVE  seedDirectDep(s, req).truncated = s.truncated
<1>1. s \in StateFields
  BY FieldsTyped
<1>2. \A from, o, c : withEdge(s, from, o, c).truncated = s.truncated
                      /\ DOMAIN withEdge(s, from, o, c) = DOMAIN s
  BY <1>1 DEF withEdge, StateFields
<1>3. \A u, c, n : "truncated" \in DOMAIN u => setNode(u, c, n).truncated = u.truncated
                                               /\ DOMAIN setNode(u, c, n) = DOMAIN u
  BY DEF setNode
<1>4. "truncated" \in DOMAIN s
  BY <1>1 DEF StateFields
<1>5. \A from, o, c, d : localReplace(s, from, o, c, d).truncated = s.truncated
  BY <1>2, <1>3, <1>4 DEF localReplace
<1> DEFINE c == req.coord
           o == applyReplace(c)
           t == withEdge(s, TargetCoord, o, c)
           n == nodeOf(o, TRUE)
           v == setNode(t, c, n)
<1>7. seedDirectDep(s, req) =
        IF o.source = "local_replace" THEN localReplace(s, TargetCoord, o, c, TRUE)
        ELSE IF isExcluded(o.to) THEN s
        ELSE IF wins(s, c) THEN [v EXCEPT !.queue = Append(@, queueItem(n, c[1], 1, TRUE))]
        ELSE [t EXCEPT !.nodes[c[1]].direct = TRUE]
  BY DEF seedDirectDep
<1>6. t.truncated = s.truncated /\ v.truncated = s.truncated
  <2>1. t.truncated = s.truncated /\ DOMAIN t = DOMAIN s
    <3> HIDE DEF o, c
    <3> QED BY <1>2
  <2> HIDE DEF t, n, c
  <2>2. v.truncated = t.truncated
    BY <1>3, <1>4, <2>1
  <2> QED BY <2>1, <2>2
<1> HIDE DEF c, o, t, n, v
<1>8. /\ [v EXCEPT !.queue = Append(@, queueItem(n, c[1], 1, TRUE))].truncated = s.truncated
      /\ [t EXCEPT !.nodes[c[1]].direct = TRUE].truncated = s.truncated
  BY <1>6
<1> QED BY <1>5, <1>7, <1>8

(* Required once, a path of a shallow graph stays at the version of its    *)
(* edge.                                                                   *)
LEMMA SeedKeepsOnce ==
    ASSUME IsWorld(world), ordinaryReplaces, requiredOnce, world.kind = "shallow",
           NEW s \in States, Seeded(s), NEW r \in ToSet(world.requires), r \in Requirement,
           NEW t \in States, Handled(s, t, r.coord, TRUE), t.truncated = s.truncated
    PROVE  Seeded(t)
<1> DEFINE c == r.coord
<1>1. c \in Coordinates /\ c[2] >= 1 /\ c[2] \in Int /\ c = <<c[1], c[2]>>
  BY CoordinateFacts DEF Requirement
<1>2. Placed(s) /\ s.truncated = FALSE /\ DOMAIN s.selected = DOMAIN s.nodes
  BY DEF Seeded, Placed
<1>3. \A x \in ToSet(world.requires) : x.coord[1] = c[1] => x.coord = c
  BY DEF requiredOnce
<1> HIDE DEF c
<1>4. CASE t = s
  BY <1>4
<1>5. CASE Known(s, t, c)
  <2>1. /\ SameNodes(s, t) /\ t.selected = s.selected /\ c[1] \in DOMAIN s.selected
        /\ EdgeAdded(s, t, c) /\ (wins(s, c) => applyReplace(c).source = "local_replace")
    BY <1>2, <1>5 DEF Known, SameNodes
  <2>2. s.selected[c[1]] = c[2]
    <3>1. CASE \E x \in ToSet(world.requires) : x.coord = <<c[1], s.selected[c[1]]>>
      BY <1>1, <1>3, <3>1
    <3>2. CASE <<c[1], s.selected[c[1]]>> = TargetCoord
      <4>1. c[1] = Target /\ s.selected[c[1]] = 1
        BY <3>2 DEF TargetCoord
      <4>2. applyReplace(c).source = "mvs"
        BY <1>1, <4>1, ApplyAt, HowMvsTarget
      <4> QED BY <1>1, <2>1, <4>1, <4>2 DEF wins, versionGT
    <3> QED BY <2>1, <3>1, <3>2 DEF Seeded, AtRequirement
  <2>3. PICK e0 \in EdgeType : t.edges = s.edges \cup {e0} /\ e0.to = applyReplace(c).to
    BY <2>1 DEF EdgeAdded
  <2>4. EdgeRequired(t, e0)
    BY <2>1, <2>2, <2>3 DEF EdgeRequired, c
  <2>5. \A e \in s.edges : EdgeRequired(t, e)
    BY <2>1 DEF Seeded, EdgeRequired
  <2>6. \A p \in DOMAIN t.selected : AtRequirement(t, p)
    BY <2>1 DEF Seeded, AtRequirement
  <2>7. Placed(t)
    BY <1>2, <2>1, KnownPlaced
  <2> QED BY <1>2, <2>3, <2>4, <2>5, <2>6, <2>7 DEF Seeded
<1>6. ASSUME NEW source, Sets(s, t, c, source) PROVE Seeded(t)
  <2>1. SetTo(s, t, c, source) /\ EdgeAdded(s, t, c)
    BY <1>6 DEF Sets
  <2>2. PICK e0 \in EdgeType : t.edges = s.edges \cup {e0} /\ e0.to = applyReplace(c).to
    BY <2>1 DEF EdgeAdded
  <2>3. EdgeRequired(t, e0)
    BY <2>1, <2>2 DEF EdgeRequired, SetTo, c
  <2>4. ASSUME NEW e \in s.edges PROVE EdgeRequired(t, e)
    <3>1. PICK x \in ToSet(world.requires) :
            /\ e.to = applyReplace(x.coord).to /\ x.coord[1] \in DOMAIN s.selected
            /\ s.selected[x.coord[1]] = x.coord[2]
      BY DEF Seeded, EdgeRequired
    <3>2. x.coord[1] = c[1] => x.coord = c
      BY <1>3
    <3> QED BY <2>1, <3>1, <3>2 DEF EdgeRequired, SetTo
  <2>5. ASSUME NEW p \in DOMAIN t.selected PROVE AtRequirement(t, p)
    <3>1. CASE p = c[1]
      BY <1>1, <2>1, <3>1 DEF SetTo, AtRequirement, c
    <3>2. CASE p # c[1]
      <4>1. p \in DOMAIN s.selected /\ t.selected[p] = s.selected[p]
        BY <2>1, <2>5, <3>2 DEF SetTo
      <4>2. AtRequirement(s, p)
        BY <4>1 DEF Seeded
      <4> QED BY <4>1, <4>2 DEF AtRequirement
    <3> QED BY <3>1, <3>2
  <2>6. Placed(t)
    BY <1>1, <1>2, <1>6, SetPlaced
  <2> QED BY <1>2, <2>2, <2>3, <2>4, <2>5, <2>6 DEF Seeded
<1>7. CASE Placeheld(s, t, c)
  BY <1>6, <1>7, PlaceheldSets
<1>8. CASE Raised(s, t, c, TRUE)
  BY <1>6, <1>8, RaisedSets
<1> QED BY <1>4, <1>5, <1>7, <1>8 DEF Handled, c

(* The state a shallow resolution ends in.                                 *)
FinalShallow(s) == world.kind = "shallow" /\ (ordinaryReplaces /\ requiredOnce => EdgesEnd(s))

(* A shallow graph's edges end at its nodes, when the target requires each *)
(* path once.                                                              *)
LEMMA ShallowEnds ==
    ASSUME IsWorld(world), ordinaryReplaces, requiredOnce, world.kind = "shallow"
    PROVE  EdgesEnd(seedDirectDeps(emptyState))
<1> DEFINE q == filterRequires(world.requires)
           E == ToSet(world.requires)
           St == {t \in States : Seeded(t)}
           s == emptyState
<1>1. q = world.requires /\ q \in Seq(Requirement)
  BY DEF filterRequires, IsWorld
<1>2. q \in Seq(E) /\ \A r \in E : r \in Requirement
  <2> HIDE DEF q
  <2>1. \A i \in DOMAIN q : q[i] \in E
    BY <1>1 DEF ToSet
  <2>2. \A r \in E : r \in Requirement
    BY <1>1 DEF ToSet
  <2> HIDE DEF E
  <2> QED BY <1>1, <2>1, <2>2
<1>3. s \in St
  <2>1. Inv(s, {}, {}, {})
    BY EmptyInv
  <2>2. s \in States /\ Placed(s)
    BY <2>1 DEF Inv
  <2>3. s.truncated = FALSE /\ s.edges = {} /\ DOMAIN s.selected = {Target}
        /\ s.selected[Target] = TargetCoord[2]
    BY DEF emptyState
  <2>4. <<Target, TargetCoord[2]>> = TargetCoord
    BY CoordinateFacts
  <2> QED BY <2>2, <2>3, <2>4 DEF Seeded, AtRequirement
<1>4. ASSUME NEW t \in St, NEW r \in E PROVE seedDirectDep(t, r) \in St
  <2>1. t \in States /\ Seeded(t) /\ r \in Requirement
    BY <1>2
  <2> HIDE DEF St
  <2>2. /\ seedDirectDep(t, r) \in States /\ Handled(t, seedDirectDep(t, r), r.coord, TRUE)
        /\ seedDirectDep(t, r).truncated = t.truncated
    BY <2>1, SeedShape, SeedTruncates
  <2>3. Seeded(seedDirectDep(t, r))
    BY <2>1, <2>2, SeedKeepsOnce
  <2> QED BY <2>2, <2>3 DEF St
<1> HIDE DEF q, E, St, s
<1>5. PICK tr \in [0..Len(q) -> St] : tr[Len(q)] = seeds(s, q)
  <2>1. SeedClosed(St, E)
    BY <1>4 DEF SeedClosed
  <2>2. SeedTraced(St, s, q)
    BY <1>2, <1>3, <2>1, SeedTrace
  <2> QED BY <2>2 DEF SeedTraced
<1> DEFINE u == tr[Len(q)]
<1>6. u \in St
  <2>1. Len(q) \in 0..Len(q)
    BY <1>2
  <2> QED BY <2>1
<1>7. u = seedDirectDeps(emptyState)
  BY <1>5 DEF seedDirectDeps, seeds, q, s
<1> HIDE DEF u
<1>8. EdgesEnd(u)
  <2> SUFFICES ASSUME NEW e \in u.edges PROVE \E n \in Range(u.nodes) : n.coord = e.to
    BY DEF EdgesEnd
  <2>1. Seeded(u)
    BY <1>6 DEF St
  <2>2. PICK r \in ToSet(world.requires) :
          /\ e.to = applyReplace(r.coord).to /\ r.coord[1] \in DOMAIN u.selected
          /\ u.selected[r.coord[1]] = r.coord[2]
    BY <2>1 DEF Seeded, EdgeRequired
  <2>3. r.coord = <<r.coord[1], r.coord[2]>>
    BY <1>2, CoordinateFacts DEF E, Requirement
  <2>4. r.coord[1] \in DOMAIN u.nodes /\ u.nodes[r.coord[1]].coord = applyReplace(r.coord).to
    <3> DEFINE p == r.coord[1]
    <3>1. p \in DOMAIN u.nodes /\ AtSelected(u, p)
      BY <2>1, <2>2 DEF Seeded, Placed
    <3>2. <<p, u.selected[p]>> = r.coord
      BY <2>2, <2>3
    <3> QED BY <3>1, <3>2 DEF AtSelected
  <2> QED BY <2>2, <2>4 DEF Range
<1> QED BY <1>7, <1>8

---------------------------------------------------------------------------
(* A project as the toolchain lists it.                                    *)
wellListed == {m \in Listed : m.coord[1] # Target /\ (m.how = "replace") = (m.new # NoCoord)}

(* The toolchain's list names each path once and never the target.         *)
LEMMA ListTyped ==
    ASSUME IsWorld(world)
    PROVE  /\ world.list \in Seq(wellListed)
           /\ \A m \in ToSet(world.list) : m \in wellListed
           /\ \A i, j \in DOMAIN world.list :
                world.list[i].coord[1] = world.list[j].coord[1] => i = j
<1> DEFINE L == world.list
<1>1. /\ L \in Seq(Listed)
      /\ \A m \in ToSet(L) : m.coord[1] # Target /\ (m.how = "replace") = (m.new # NoCoord)
      /\ \A i, j \in DOMAIN L : L[i].coord[1] = L[j].coord[1] => i = j
  BY DEF IsWorld
<1> HIDE DEF L
<1>2. \A i \in DOMAIN L : L[i] \in ToSet(L) /\ L[i] \in Listed
  BY <1>1 DEF ToSet
<1>3. \A i \in DOMAIN L : L[i] \in wellListed
  BY <1>1, <1>2 DEF wellListed
<1>4. L \in Seq(wellListed)
  BY <1>1, <1>3
<1>5. \A m \in ToSet(L) : m \in wellListed
  BY <1>3 DEF ToSet
<1> QED BY <1>1, <1>4, <1>5 DEF L

(* The node of a listed module, before it is fetched.                      *)
LEMMA SkeletonIs ==
    ASSUME NEW m \in wellListed, NEW n, n = buildListNodeSkeleton(m)
    PROVE  /\ n \in NodeType /\ n.source = m.how /\ m.coord \in Coordinates /\ m.coord[1] \in Paths
           /\ m.how = "mvs" => n.coord = m.coord
           /\ m.how = "replace" => n.coord = m.new /\ m.new \in Published
           /\ m.how \in {"mvs", "replace"} => n.coord \in Published
           /\ m.how \in {"local_replace", "workspace_member"} => n.coord[2] = 0
           /\ n.original # NoCoord => m.how \in {"replace", "local_replace"} /\ n.original = m.coord
           /\ m.how = "replace" => n.original # NoCoord
<1>1. /\ m.coord \in Published /\ m.new \in Published \cup {NoCoord} /\ m.direct \in BOOLEAN
      /\ m.how \in {"mvs", "replace", "local_replace", "workspace_member"}
      /\ (m.how = "replace") = (m.new # NoCoord)
  BY DEF wellListed, Listed
<1>2. m.coord \in Coordinates /\ m.coord[1] \in Paths /\ m.coord # NoCoord
      /\ (m.how = "replace" => m.new \in Published /\ m.new \in Coordinates)
      /\ localIdentity(m.coord) \in Coordinates /\ localIdentity(m.coord)[2] = 0
  BY <1>1, CoordinateFacts, Bounds DEF localIdentity
<1>3. /\ n.coord = IF m.how = "mvs" THEN m.coord
                   ELSE IF m.how = "replace" THEN m.new ELSE localIdentity(m.coord)
      /\ n.source = m.how /\ n.direct = (m.direct \/ m.how = "workspace_member")
      /\ n.original = IF m.how \in {"replace", "local_replace"} THEN m.coord ELSE NoCoord
      /\ n = [coord |-> n.coord, direct |-> n.direct, source |-> n.source, original |-> n.original]
  BY DEF buildListNodeSkeleton, nodeOf
<1>4. n.coord \in Coordinates /\ n.original \in Coordinates \cup {NoCoord} /\ n.source \in Sources
  BY <1>1, <1>2, <1>3 DEF Sources
<1>5. n \in NodeType
  BY <1>1, <1>3, <1>4 DEF NodeType
<1> QED BY <1>1, <1>2, <1>3, <1>5

(* What listing a module, or drawing an edge, leaves alone.                *)
Unlisted(s, t) ==
    /\ t.processed = s.processed /\ t.parsed = s.parsed /\ t.expandedKeys = s.expandedKeys
    /\ t.partial = s.partial /\ t.queue = s.queue /\ t.truncated = s.truncated

(* One module is listed.                                                   *)
ListedAt(s, t, m) ==
    /\ Unlisted(s, t)
    /\ t.nodes = Entered(s.nodes, m.coord[1], buildListNodeSkeleton(m))
    /\ \A e \in t.edges : e \in s.edges \/ e.to = buildListNodeSkeleton(m).coord

(* Listing a module sets the node of its path.                             *)
LEMMA ListShape ==
    ASSUME NEW s \in States, NEW m \in wellListed, NEW t, t = addListed(s, m)
    PROVE  t \in States /\ ListedAt(s, t, m)
<1> DEFINE n == buildListNodeSkeleton(m)
           N == Entered(s.nodes, m.coord[1], n)
           e == [from |-> TargetCoord, to |-> n.coord, constraint |-> 0]
           E == s.edges \cup {e}
<1>1. n \in NodeType /\ m.coord \in Coordinates /\ m.coord[1] \in Paths /\ n.coord \in Coordinates
  BY SkeletonIs DEF NodeType
<1>2. t = IF m.how = "workspace_member" THEN addWorkspaceMember(s, m, n) ELSE setNode(s, m.coord, n)
  BY DEF addListed
<1>3. e \in EdgeType
  BY <1>1, CoordinateFacts, Bounds DEF EdgeType
<1>4. s \in StateFields
  BY FieldsTyped
<1>5. addWorkspaceMember(s, m, n) = [s EXCEPT !.nodes = N, !.edges = E]
  BY DEF addWorkspaceMember
<1>6. \A x \in E : x \in s.edges \/ x.to = n.coord
  OBVIOUS
<1>7. E \subseteq EdgeType
  BY <1>3, <1>4 DEF StateFields
<1> HIDE DEF n, e, E
<1>8. N \in PartialFns(NodeType) /\ DOMAIN N = DOMAIN s.nodes \cup {m.coord[1]}
  <2>1. s.nodes \in PartialFns(NodeType) /\ m.coord[1] \in Paths /\ n \in NodeType
    BY <1>1, <1>4 DEF StateFields
  <2>2. N \in PartialFns(NodeType)
    BY <2>1, EnteredTyped
  <2>3. DOMAIN N = DOMAIN s.nodes \cup {m.coord[1]}
    BY DEF Entered
  <2> QED BY <2>2, <2>3
<1> HIDE DEF N
<1>9. CASE m.how = "workspace_member"
  <2>1. t = [s EXCEPT !.nodes = N, !.edges = E]
    BY <1>2, <1>5, <1>9
  <2>2. t \in StateFields /\ t.nodes = N /\ t.edges = E /\ t.selected = s.selected
        /\ Unlisted(s, t)
    BY <1>4, <1>7, <1>8, <2>1 DEF StateFields, Unlisted
  <2>3. t \in States
    BY <1>8, <2>2, StateFacts, QueueKeys DEF Unlisted
  <2> QED BY <1>6, <2>2, <2>3 DEF ListedAt, n, N
<1>10. CASE m.how # "workspace_member"
  <2>1. t = setNode(s, m.coord, n)
    BY <1>2, <1>10
  <2>2. /\ t \in StateFields /\ Frame(s, t) /\ t.edges = s.edges
        /\ t.queue = s.queue /\ t.truncated = s.truncated
        /\ t.selected = Entered(s.selected, m.coord[1], m.coord[2]) /\ t.nodes = N
    BY <1>1, <1>4, <2>1, NodePiece DEF N
  <2>3. DOMAIN t.selected = DOMAIN s.selected \cup {m.coord[1]}
    BY <2>2 DEF Entered
  <2>4. t \in States
    BY <1>8, <2>2, <2>3, StateFacts, QueueKeys
  <2> QED BY <2>2, <2>4 DEF ListedAt, Unlisted, Frame, n, N
<1> QED BY <1>9, <1>10

(* The target and the first k modules listed.                              *)
isAnchor(n) == n.coord = TargetCoord /\ n.source = "local_main" /\ n.original = NoCoord

(* Nothing is fetched yet.                                                 *)
Untouched(s) ==
    /\ s.parsed = {} /\ s.expandedKeys = {} /\ s.partial = {} /\ s.queue = <<>>
    /\ s.truncated = FALSE

ListedTo(s, k) ==
    /\ s \in States /\ Untouched(s) /\ EdgesEnd(s)
    /\ DOMAIN s.nodes = {Target} \cup {world.list[i].coord[1] : i \in 1..k}
    /\ isAnchor(s.nodes[Target])
    /\ \A i \in 1..k : s.nodes[world.list[i].coord[1]] = buildListNodeSkeleton(world.list[i])

(* One more module is listed.                                              *)
LEMMA ListedNext ==
    ASSUME IsWorld(world), NEW k \in 1..Len(world.list), NEW s, ListedTo(s, k - 1),
           NEW t, t = addListed(s, world.list[k])
    PROVE  ListedTo(t, k)
<1> DEFINE L == world.list
           m == L[k]
           p == m.coord[1]
           n == buildListNodeSkeleton(m)
<1>1. L \in Seq(wellListed) /\ DOMAIN L = 1..Len(L) /\ m \in wellListed /\ p # Target
  BY ListTyped DEF wellListed
<1>2. \A i \in 1..(k - 1) : i \in DOMAIN L /\ i # k /\ L[i].coord[1] # p
  BY <1>1, ListTyped
<1>3. /\ s \in States /\ Untouched(s) /\ EdgesEnd(s)
      /\ DOMAIN s.nodes = {Target} \cup {L[i].coord[1] : i \in 1..(k - 1)}
      /\ isAnchor(s.nodes[Target])
      /\ \A i \in 1..(k - 1) : s.nodes[L[i].coord[1]] = buildListNodeSkeleton(L[i])
  BY DEF ListedTo
<1>4. 1..k = (1..(k - 1)) \cup {k}
  OBVIOUS
<1>5. t = addListed(s, m)
  OBVIOUS
<1> HIDE DEF L, m
<1>6. t \in States /\ ListedAt(s, t, m)
  BY <1>1, <1>3, <1>5, ListShape
<1>7. p \notin DOMAIN s.nodes
  BY <1>1, <1>2, <1>3
<1>8. /\ DOMAIN t.nodes = DOMAIN s.nodes \cup {p} /\ t.nodes[p] = n
      /\ \A q \in DOMAIN s.nodes : t.nodes[q] = s.nodes[q]
  BY <1>6, <1>7 DEF ListedAt, Entered
<1>9. Untouched(t)
  BY <1>3, <1>6 DEF ListedAt, Unlisted, Untouched
<1> HIDE DEF n
<1>10. EdgesEnd(t)
  <2> SUFFICES ASSUME NEW e \in t.edges PROVE \E x \in Range(t.nodes) : x.coord = e.to
    BY DEF EdgesEnd
  <2>1. \A q \in DOMAIN s.nodes : s.nodes[q] \in Range(t.nodes)
    BY <1>8 DEF Range
  <2>2. n \in Range(t.nodes)
    BY <1>8 DEF Range
  <2>3. CASE e \in s.edges
    BY <1>3, <2>1, <2>3 DEF EdgesEnd, Range
  <2>4. CASE e.to = n.coord
    BY <2>2, <2>4
  <2> QED BY <1>6, <2>3, <2>4 DEF ListedAt, n
<1>11. \A i \in 1..(k - 1) : L[i].coord[1] \in DOMAIN s.nodes
  BY <1>3
<1>12. DOMAIN t.nodes = {Target} \cup {L[i].coord[1] : i \in 1..k}
  <2>1. {L[i].coord[1] : i \in 1..k} = {L[i].coord[1] : i \in 1..(k - 1)} \cup {p}
    BY <1>4 DEF m
  <2> QED BY <1>3, <1>8, <2>1
<1>13. \A i \in 1..k : t.nodes[L[i].coord[1]] = buildListNodeSkeleton(L[i])
  BY <1>3, <1>4, <1>8, <1>11 DEF m, n
<1>14. isAnchor(t.nodes[Target])
  BY <1>3, <1>8
<1> QED BY <1>6, <1>9, <1>10, <1>12, <1>13, <1>14 DEF ListedTo, L

(* After the list every module has its skeleton node                       *)
(* (resolveFromBuildList).                                                 *)
LEMMA ListedAll ==
    ASSUME IsWorld(world), world.kind = "project"
    PROVE  ListedTo(lists(emptyState, world.list), Len(world.list))
<1> DEFINE L == world.list
           s == emptyState
<1>1. L \in Seq(wellListed) /\ Len(L) \in Nat
  BY ListTyped
<1>2. s \in States
  BY EmptyTyped
<1>3. ListedTo(s, 0)
  <2>1. Untouched(s) /\ s.edges = {} /\ DOMAIN s.nodes = {Target} /\ isAnchor(s.nodes[Target])
    BY DEF emptyState, Untouched, isAnchor
  <2> QED BY <1>2, <2>1 DEF ListedTo, EdgesEnd
<1>4. \A t \in States, m \in wellListed : addListed(t, m) \in States
  BY ListShape
<1> HIDE DEF L, s
<1>5. PICK tr \in [0..Len(L) -> States] :
        /\ tr[0] = s /\ tr[Len(L)] = lists(s, L)
        /\ \A k \in 1..Len(L) : tr[k] = addListed(tr[k - 1], L[k])
  <2>1. ListClosed(States, wellListed)
    BY <1>4 DEF ListClosed
  <2>2. ListTraced(States, s, L)
    BY <1>1, <1>2, <2>1, ListTrace
  <2> QED BY <2>2 DEF ListTraced
<1> DEFINE S == {k \in 0..Len(L) : ListedTo(tr[k], k)}
<1>6. 0 \in S
  BY <1>1, <1>3, <1>5
<1>7. ASSUME NEW k \in 1..Len(L), k - 1 \in S PROVE k \in S
  <2>1. ListedTo(tr[k - 1], k - 1) /\ tr[k] = addListed(tr[k - 1], L[k]) /\ k \in 0..Len(L)
    BY <1>1, <1>5, <1>7
  <2>2. ListedTo(tr[k], k)
    BY <1>7, <2>1, ListedNext DEF L
  <2> QED BY <2>1, <2>2
<1> HIDE DEF S
<1>8. \A k \in 0..Len(L) : k \in S
  BY <1>1, <1>6, <1>7, CountUp
<1>9. ListedTo(tr[Len(L)], Len(L))
  BY <1>1, <1>8 DEF S
<1> QED BY <1>5, <1>9 DEF L, s

---------------------------------------------------------------------------
(* The modules of the list that are fetched.                               *)
fetchable(m) == m.how \in {"mvs", "replace"} /\ inFetchScope(buildListNodeSkeleton(m))
TaskFor(b, m) == b.coord = buildListNodeSkeleton(m).coord /\ b.key = m.coord[1]

(* The tasks of the first k modules.                                       *)
TasksTo(q, k) ==
    /\ q \in Seq(Task)
    /\ \A i \in DOMAIN q : \E j \in 1..k : fetchable(world.list[j]) /\ TaskFor(q[i], world.list[j])
    /\ \A j \in 1..k : fetchable(world.list[j]) => \E i \in DOMAIN q : TaskFor(q[i], world.list[j])

(* A listed module is fetched when the scope retains it.                   *)
LEMMA TaskShape ==
    ASSUME NEW q \in Seq(Task), NEW m \in wellListed, NEW t, t = addTask(q, m)
    PROVE  /\ t \in Seq(Task)
           /\ ~fetchable(m) => t = q
           /\ fetchable(m) => \E b \in Task : t = Append(q, b) /\ TaskFor(b, m)
<1> DEFINE n == buildListNodeSkeleton(m)
           b == [coord |-> n.coord, key |-> m.coord[1], depth |-> 1, atMaxDepth |-> FALSE]
<1>1. n \in NodeType /\ m.coord[1] \in Paths /\ n.coord \in Coordinates
  BY SkeletonIs DEF NodeType
<1>2. b \in Task /\ TaskFor(b, m)
  BY <1>1 DEF Task, TaskFor
<1>3. t = IF fetchable(m) THEN Append(q, b) ELSE q
  BY DEF addTask, fetchable
<1> HIDE DEF b
<1> QED BY <1>2, <1>3

(* One more module is given its task, or none.                             *)
LEMMA TasksNext ==
    ASSUME IsWorld(world), NEW k \in 1..Len(world.list), NEW q, TasksTo(q, k - 1),
           NEW t, t = addTask(q, world.list[k])
    PROVE  TasksTo(t, k)
<1> DEFINE L == world.list
           m == L[k]
<1>1. L \in Seq(wellListed) /\ m \in wellListed
  BY ListTyped
<1>2. 1..k = (1..(k - 1)) \cup {k}
  OBVIOUS
<1>3. /\ q \in Seq(Task)
      /\ \A i \in DOMAIN q : \E j \in 1..(k - 1) : fetchable(L[j]) /\ TaskFor(q[i], L[j])
      /\ \A j \in 1..(k - 1) : fetchable(L[j]) => \E i \in DOMAIN q : TaskFor(q[i], L[j])
  BY DEF TasksTo
<1>4. t = addTask(q, m)
  OBVIOUS
<1> HIDE DEF L
<1>5. CASE ~fetchable(m)
  <2>1. t = q
    BY <1>1, <1>3, <1>4, <1>5, TaskShape
  <2> QED BY <1>2, <1>3, <1>5, <2>1 DEF TasksTo, L
<1>6. CASE fetchable(m)
  <2>1. PICK b \in Task : t = Append(q, b) /\ TaskFor(b, m)
    <3> HIDE DEF m
    <3> QED BY <1>1, <1>3, <1>4, <1>6, TaskShape
  <2>2. /\ t \in Seq(Task) /\ DOMAIN t = DOMAIN q \cup {Len(q) + 1} /\ t[Len(q) + 1] = b
        /\ \A i \in DOMAIN q : t[i] = q[i]
    BY <1>3, <2>1
  <2>3. ASSUME NEW i \in DOMAIN t
        PROVE  \E j \in 1..k : fetchable(L[j]) /\ TaskFor(t[i], L[j])
    <3>1. CASE i \in DOMAIN q
      BY <1>2, <1>3, <2>2, <3>1
    <3>2. CASE i = Len(q) + 1
      BY <1>2, <1>6, <2>1, <2>2, <3>2
    <3> QED BY <2>2, <3>1, <3>2
  <2>4. ASSUME NEW j \in 1..k, fetchable(L[j])
        PROVE  \E i \in DOMAIN t : TaskFor(t[i], L[j])
    <3>1. CASE j \in 1..(k - 1)
      <4>1. PICK i \in DOMAIN q : TaskFor(q[i], L[j])
        BY <1>3, <2>4, <3>1
      <4> QED BY <2>2, <4>1
    <3>2. CASE j = k
      BY <2>1, <2>2, <3>2
    <3> QED BY <1>2, <3>1, <3>2
  <2> QED BY <2>2, <2>3, <2>4 DEF TasksTo, L
<1> QED BY <1>5, <1>6

(* The tasks are those of the modules the scope retains.                   *)
LEMMA TasksAll ==
    ASSUME IsWorld(world)
    PROVE  TasksTo(tasks(<<>>, world.list), Len(world.list))
<1> DEFINE L == world.list
           b == <<>>
           St == Seq(Task)
<1>1. L \in Seq(wellListed) /\ Len(L) \in Nat
  BY ListTyped
<1>2. b \in St /\ TasksTo(b, 0)
  BY DEF TasksTo
<1>3. \A q \in St, m \in wellListed : addTask(q, m) \in St
  BY TaskShape
<1> HIDE DEF L, b, St
<1>5. PICK tr \in [0..Len(L) -> St] :
        /\ tr[0] = b /\ tr[Len(L)] = tasks(b, L)
        /\ \A k \in 1..Len(L) : tr[k] = addTask(tr[k - 1], L[k])
  <2>1. TaskClosed(St, wellListed)
    BY <1>3 DEF TaskClosed
  <2>2. TaskTraced(St, b, L)
    BY <1>1, <1>2, <2>1, TaskTrace
  <2> QED BY <2>2 DEF TaskTraced
<1> DEFINE S == {k \in 0..Len(L) : TasksTo(tr[k], k)}
<1>6. 0 \in S
  BY <1>1, <1>2, <1>5
<1>7. ASSUME NEW k \in 1..Len(L), k - 1 \in S PROVE k \in S
  <2>1. TasksTo(tr[k - 1], k - 1) /\ tr[k] = addTask(tr[k - 1], L[k]) /\ k \in 0..Len(L)
    BY <1>1, <1>5, <1>7
  <2>2. TasksTo(tr[k], k)
    BY <1>7, <2>1, TasksNext DEF L
  <2> QED BY <2>1, <2>2
<1> HIDE DEF S
<1>8. \A k \in 0..Len(L) : k \in S
  BY <1>1, <1>6, <1>7, CountUp
<1>9. TasksTo(tr[Len(L)], Len(L))
  BY <1>1, <1>8 DEF S
<1> QED BY <1>5, <1>9 DEF L, b

(* What is at hand while the listed modules are fetched.                   *)
Listing(s, q) ==
    /\ world.kind = "project"
    /\ ListedTo(s, Len(world.list)) /\ TasksTo(q, Len(world.list))

(* Every task stands at the skeleton of a listed module.                   *)
LEMMA ListingFacts ==
    ASSUME IsWorld(world), NEW s, NEW q, Listing(s, q)
    PROVE  /\ \A i \in DOMAIN q : /\ q[i].key \in DOMAIN s.nodes
                                  /\ s.nodes[q[i].key].coord = q[i].coord
                                  /\ \E m \in ToSet(world.list) : fetchable(m) /\ TaskFor(q[i], m)
           /\ \A m \in ToSet(world.list) :
                /\ m.coord[1] \in DOMAIN s.nodes
                /\ s.nodes[m.coord[1]] = buildListNodeSkeleton(m)
                /\ fetchable(m) => \E i \in DOMAIN q : TaskFor(q[i], m)
           /\ DOMAIN s.nodes = {Target} \cup {m.coord[1] : m \in ToSet(world.list)}
<1> DEFINE L == world.list
<1>1. L \in Seq(wellListed) /\ DOMAIN L = 1..Len(L)
  BY ListTyped
<1>2. /\ \A i \in 1..Len(L) : L[i] \in ToSet(L)
      /\ \A m \in ToSet(L) : \E i \in 1..Len(L) : m = L[i]
  <2> HIDE DEF L
  <2> QED BY <1>1 DEF ToSet
<1>3. /\ DOMAIN s.nodes = {Target} \cup {L[i].coord[1] : i \in 1..Len(L)}
      /\ \A i \in 1..Len(L) : s.nodes[L[i].coord[1]] = buildListNodeSkeleton(L[i])
      /\ \A i \in DOMAIN q : \E j \in 1..Len(L) : fetchable(L[j]) /\ TaskFor(q[i], L[j])
      /\ \A j \in 1..Len(L) : fetchable(L[j]) => \E i \in DOMAIN q : TaskFor(q[i], L[j])
  BY DEF Listing, ListedTo, TasksTo
<1> HIDE DEF L
<1>4. ASSUME NEW i \in DOMAIN q
      PROVE  /\ q[i].key \in DOMAIN s.nodes /\ s.nodes[q[i].key].coord = q[i].coord
             /\ \E m \in ToSet(L) : fetchable(m) /\ TaskFor(q[i], m)
  <2>1. PICK j \in 1..Len(L) : fetchable(L[j]) /\ TaskFor(q[i], L[j])
    BY <1>3
  <2> QED BY <1>2, <1>3, <2>1 DEF TaskFor
<1>5. ASSUME NEW m \in ToSet(L)
      PROVE  /\ m.coord[1] \in DOMAIN s.nodes /\ s.nodes[m.coord[1]] = buildListNodeSkeleton(m)
             /\ fetchable(m) => \E i \in DOMAIN q : TaskFor(q[i], m)
  <2>1. PICK j \in 1..Len(L) : m = L[j]
    BY <1>2
  <2> QED BY <1>3, <2>1
<1>6. {L[i].coord[1] : i \in 1..Len(L)} = {m.coord[1] : m \in ToSet(L)}
  BY <1>2
<1> QED BY <1>3, <1>4, <1>5, <1>6 DEF L

---------------------------------------------------------------------------
(* What the results leave of the listed nodes, k of them applied.          *)
ListApplied(s, t, k) ==
    /\ t \in States /\ t.edges = s.edges /\ t.expandedKeys = s.expandedKeys
    /\ t.truncated = s.truncated /\ DOMAIN t.nodes = DOMAIN s.nodes
    /\ \A p \in DOMAIN s.nodes :
         /\ t.nodes[p].coord = s.nodes[p].coord /\ t.nodes[p].original = s.nodes[p].original
         /\ t.nodes[p].source = s.nodes[p].source \/ (t.nodes[p].source \in failures /\ hasFailed(t))
    /\ \A c \in t.parsed : \E i \in DOMAIN toFetch : c = toFetch[i].coord
    /\ \A i \in 1..k : toFetch[i].coord \in t.parsed \/ t.nodes[toFetch[i].key].source \in failures
    /\ \A p \in DOMAIN s.nodes \ {toFetch[i].key : i \in DOMAIN toFetch} : t.nodes[p] = s.nodes[p]

(* Every task stands at the node of its path.                              *)
AtTasks(t) ==
    /\ t \in States
    /\ \A i \in DOMAIN toFetch : /\ toFetch[i].key \in DOMAIN t.nodes
                                 /\ t.nodes[toFetch[i].key].coord = toFetch[i].coord

(* A result of the list leaves every node at the coordinate of its task.   *)
LEMMA TasksStand ==
    ASSUME LevelTyped, NEW t, AtTasks(t), NEW i \in DOMAIN toFetch
    PROVE  /\ AtTasks(applyResult(t, i))
           /\ toFetch[i] \in Task /\ results[i] \in Outcomes
           /\ Resulted(t, applyResult(t, i), toFetch[i], results[i])
<1>1. t \in States /\ toFetch[i] \in Task /\ results[i] \in Outcomes
      /\ \A j \in DOMAIN toFetch : /\ toFetch[j].key \in DOMAIN t.nodes
                                   /\ t.nodes[toFetch[j].key].coord = toFetch[j].coord
  BY DEF LevelTyped, AtTasks
<1> DEFINE u == applyResult(t, i)
<1>2. u = applyFetchParse(t, toFetch[i], results[i])
  BY DEF applyResult
<1> HIDE DEF u
<1>3. u \in States /\ Resulted(t, u, toFetch[i], results[i])
  BY <1>1, <1>2, ResultShape
<1>4. DOMAIN u.nodes = DOMAIN t.nodes /\ \A p \in DOMAIN t.nodes : u.nodes[p].coord = t.nodes[p].coord
  BY <1>1, <1>3 DEF Resulted
<1>5. AtTasks(u)
  BY <1>1, <1>3, <1>4 DEF AtTasks
<1> QED BY <1>1, <1>3, <1>5 DEF u

(* One more result is applied.                                             *)
LEMMA ListAppliedNext ==
    ASSUME LevelTyped, NEW s, NEW k \in 1..Len(toFetch),
           NEW t, ListApplied(s, t, k - 1), AtTasks(t), NEW u, AtTasks(u),
           NEW result \in Outcomes, Resulted(t, u, toFetch[k], result)
    PROVE  ListApplied(s, u, k)
<1> DEFINE bi == toFetch[k]
<1>0. Len(toFetch) \in Nat /\ DOMAIN toFetch = 1..Len(toFetch)
  BY DEF LevelTyped
<1>1. result # "ok" => result \in failures /\ hasFailed(u)
  BY DEF Outcomes, failures, Resulted, hasFailed
<1>2. hasFailed(t) => hasFailed(u)
  BY DEF Resulted, hasFailed
<1>3. bi.key \in DOMAIN t.nodes /\ t.nodes[bi.key].coord = bi.coord /\ DOMAIN t.nodes = DOMAIN s.nodes
  BY <1>0 DEF AtTasks, ListApplied
<1>4. \A p \in DOMAIN t.nodes :
        /\ u.nodes[p].coord = t.nodes[p].coord /\ u.nodes[p].original = t.nodes[p].original
        /\ u.nodes[p].source = t.nodes[p].source \/ (result # "ok" /\ u.nodes[p].source = result)
        /\ p # bi.key => u.nodes[p] = t.nodes[p]
  BY <1>3 DEF Resulted
<1>5. /\ u.nodes[bi.key].source = IF result = "ok" THEN t.nodes[bi.key].source ELSE result
      /\ u.parsed = IF result = "ok" THEN t.parsed \cup {bi.coord} ELSE t.parsed
  BY DEF Resulted
<1>6. /\ u \in States /\ u.edges = s.edges /\ u.expandedKeys = s.expandedKeys
      /\ u.truncated = s.truncated /\ DOMAIN u.nodes = DOMAIN s.nodes
  BY DEF AtTasks, Resulted, ListApplied
<1>7. ASSUME NEW p \in DOMAIN s.nodes
      PROVE  /\ u.nodes[p].coord = s.nodes[p].coord /\ u.nodes[p].original = s.nodes[p].original
             /\ u.nodes[p].source = s.nodes[p].source \/ (u.nodes[p].source \in failures /\ hasFailed(u))
  BY <1>1, <1>2, <1>3, <1>4 DEF ListApplied
<1>8. \A c \in u.parsed : \E i \in DOMAIN toFetch : c = toFetch[i].coord
  BY <1>0, <1>5 DEF ListApplied
<1>9. ASSUME NEW i \in 1..k
      PROVE  toFetch[i].coord \in u.parsed \/ u.nodes[toFetch[i].key].source \in failures
  <2>1. CASE i = k
    BY <1>1, <1>5, <2>1
  <2>2. CASE i # k
    <3>1. i \in 1..(k - 1)
      BY <2>2
    <3>2. toFetch[i].coord \in t.parsed \/ t.nodes[toFetch[i].key].source \in failures
      BY <3>1 DEF ListApplied
    <3>3. t.nodes[toFetch[i].key].source \in failures => u.nodes[toFetch[i].key].source \in failures
      <4>1. CASE toFetch[i].key = bi.key
        BY <1>1, <1>5, <4>1
      <4>2. CASE toFetch[i].key # bi.key
        <5>1. toFetch[i].key \in DOMAIN t.nodes
          BY <1>0 DEF AtTasks
        <5>2. u.nodes[toFetch[i].key] = t.nodes[toFetch[i].key]
          BY <1>4, <4>2, <5>1
        <5> QED BY <5>2
      <4> QED BY <4>1, <4>2
    <3> QED BY <1>5, <3>2, <3>3
  <2> QED BY <2>1, <2>2
<1>10. \A p \in DOMAIN s.nodes \ {toFetch[i].key : i \in DOMAIN toFetch} : u.nodes[p] = s.nodes[p]
  BY <1>3, <1>4 DEF ListApplied
<1> QED BY <1>6, <1>7, <1>8, <1>9, <1>10 DEF ListApplied

(* After the results, a listed module was parsed or its node says why not. *)
LEMMA ListAppliedAll ==
    ASSUME IsWorld(world), LevelTyped, NEW s, Listing(s, toFetch)
    PROVE  ListApplied(s, applyResults(s), Len(toFetch))
<1> DEFINE n == Len(toFetch)
           St == {t \in States : AtTasks(t)}
<1>0. n \in Nat /\ DOMAIN toFetch = 1..n
  BY DEF LevelTyped
<1>1. s \in States /\ Untouched(s)
  BY DEF Listing, ListedTo
<1>2. AtTasks(s)
  BY <1>1, ListingFacts DEF AtTasks
<1>3. \A t \in St, i \in DOMAIN toFetch : applyResult(t, i) \in St
  BY TasksStand DEF AtTasks
<1>4. s \in St
  BY <1>1, <1>2
<1> HIDE DEF St
<1>5. PICK tr \in [0..n -> St] :
             /\ tr[0] = s /\ tr[n] = applyResults(s)
             /\ \A k \in 1..n : tr[k] = applyResult(tr[k - 1], k)
  BY <1>3, <1>4, ResultsTrace
<1> DEFINE S == {k \in 0..n : ListApplied(s, tr[k], k)}
<1>6. 0 \in S
  <2>1. ListApplied(s, s, 0)
    BY <1>1 DEF ListApplied, Untouched
  <2> QED BY <1>0, <1>5, <2>1
<1>7. ASSUME NEW k \in 1..n, k - 1 \in S PROVE k \in S
  <2>1. /\ ListApplied(s, tr[k - 1], k - 1) /\ tr[k] = applyResult(tr[k - 1], k)
        /\ k \in 0..n /\ tr[k - 1] \in St /\ k \in DOMAIN toFetch
    BY <1>0, <1>5, <1>7
  <2>2. AtTasks(tr[k - 1])
    BY <2>1 DEF St
  <2>3. /\ AtTasks(tr[k]) /\ results[k] \in Outcomes
        /\ Resulted(tr[k - 1], tr[k], toFetch[k], results[k])
    BY <2>1, <2>2, TasksStand
  <2>4. ListApplied(s, tr[k], k)
    BY <2>1, <2>2, <2>3, ListAppliedNext
  <2> QED BY <2>1, <2>4
<1> HIDE DEF S
<1>8. \A k \in 0..n : k \in S
  <2> HIDE DEF n
  <2> QED BY <1>0, <1>6, <1>7, CountUp
<1>9. ListApplied(s, tr[n], n)
  BY <1>0, <1>8 DEF S
<1> QED BY <1>5, <1>9

(* The toolchain's edges end at listed nodes.                              *)
Linked(s, t) ==
    /\ t \in States /\ Unlisted(s, t) /\ t.nodes = s.nodes /\ t.selected = s.selected
    /\ EdgesEnd(t)

(* An edge of the toolchain ends at a listed node.                         *)
LEMMA LinkShape ==
    ASSUME NEW s, NEW t, Linked(s, t), NEW e \in [from : Coordinates, to : Coordinates],
           e.to[1] \in DOMAIN s.nodes, NEW u, u = addListEdge(t, e)
    PROVE  Linked(s, u)
<1> DEFINE from == nodeByPath(t, e.from)
           to == nodeByPath(t, e.to)
           edge == [from |-> from, to |-> to, constraint |-> e.to[2]]
           E == t.edges \cup {edge}
<1>1. t \in States /\ t.nodes = s.nodes /\ t \in StateFields
  BY FieldsTyped DEF Linked
<1>2. \A c \in Coordinates : nodeByPath(t, c) \in Coordinates
  BY <1>1, StateFacts DEF nodeByPath
<1>3. to = t.nodes[e.to[1]].coord /\ e.to \in Coordinates /\ e.from \in Coordinates
  BY <1>1 DEF nodeByPath
<1>4. edge \in EdgeType
  BY <1>2, <1>3, CoordinateFacts DEF EdgeType
<1>5. edge.to = t.nodes[e.to[1]].coord
  BY <1>3
<1>6. u = t \/ u = [t EXCEPT !.edges = E]
  BY DEF addListEdge
<1> HIDE DEF edge
<1>7. E \subseteq EdgeType
  BY <1>1, <1>4, StateFacts
<1>8. \A x \in E : x \in t.edges \/ x.to = t.nodes[e.to[1]].coord
  BY <1>5
<1> HIDE DEF E
<1>9. CASE u = [t EXCEPT !.edges = E]
  <2>1. /\ u \in StateFields /\ Unlisted(t, u) /\ u.nodes = t.nodes /\ u.selected = t.selected
        /\ u.edges = E
    BY <1>1, <1>7, <1>9 DEF StateFields, Unlisted
  <2>2. u \in States
    BY <1>1, <2>1, StateFacts, QueueKeys DEF Unlisted
  <2>3. EdgesEnd(u)
    BY <1>1, <1>8, <2>1 DEF EdgesEnd, Linked, Range
  <2> QED BY <2>1, <2>2, <2>3 DEF Linked, Unlisted
<1> QED BY <1>6, <1>9

(* The nodes are the target and the listed modules.                        *)
OneEach(s) == DOMAIN s.nodes = {Target} \cup {m.coord[1] : m \in ToSet(world.list)}

(* All of them do, and nothing else is changed (appendBuildListEdges).     *)
LEMMA LinkedAll ==
    ASSUME IsWorld(world), NEW s \in States, EdgesEnd(s), OneEach(s)
    PROVE  Linked(s, appendBuildListEdges(s))
<1> DEFINE q == world.listEdges
           W == [from : Coordinates, to : Coordinates]
           E == {e \in W : e.to[1] \in DOMAIN s.nodes}
           St == {t \in States : Linked(s, t)}
<1>1. q \in Seq(W) /\ \A e \in ToSet(q) : e.to[1] \in DOMAIN s.nodes
  BY DEF IsWorld, OneEach
<1>2. q \in Seq(E)
  <2> HIDE DEF q, W
  <2>1. \A i \in DOMAIN q : q[i] \in E
    BY <1>1 DEF ToSet
  <2> HIDE DEF E
  <2> QED BY <1>1, <2>1
<1>3. s \in St
  BY DEF Linked, Unlisted
<1>4. \A t \in St, e \in E : addListEdge(t, e) \in St
  BY LinkShape DEF Linked
<1> HIDE DEF q, W, E, St
<1>5. PICK tr \in [0..Len(q) -> St] :
        /\ tr[0] = s /\ tr[Len(q)] = links(s, q)
        /\ \A k \in 1..Len(q) : tr[k] = addListEdge(tr[k - 1], q[k])
  <2>1. ListEdgeClosed(St, E)
    BY <1>4 DEF ListEdgeClosed
  <2>2. ListEdgeTraced(St, s, q)
    BY <1>2, <1>3, <2>1, ListEdgeTrace
  <2> QED BY <2>2 DEF ListEdgeTraced
<1>6. Len(q) \in 0..Len(q)
  BY <1>2
<1>7. links(s, q) \in St
  BY <1>5, <1>6
<1>8. links(s, q) = appendBuildListEdges(s)
  BY DEF links, appendBuildListEdges, q
<1> QED BY <1>7, <1>8 DEF St

---------------------------------------------------------------------------
(* What the properties say of a graph the toolchain listed.                *)
NodeListed(s, m) ==
    LET n == s.nodes[m.coord[1]]
        o == buildListNodeSkeleton(m)
    IN  /\ m.coord[1] \in DOMAIN s.nodes /\ n.coord = o.coord /\ n.original = o.original
        /\ n.source = m.how \/ (n.source \in failures /\ hasFailed(s))
        /\ fetchable(m) => n.coord \in s.parsed \/ n.source \in failures

(* The state a listed project ends in.                                     *)
FinalList(s) ==
    /\ world.kind = "project" /\ s \in States /\ s.expandedKeys = {} /\ EdgesEnd(s)
    /\ OneEach(s) /\ isAnchor(s.nodes[Target])
    /\ \A m \in ToSet(world.list) : NodeListed(s, m)
    /\ \A c \in s.parsed : \E m \in ToSet(world.list) :
         fetchable(m) /\ c = buildListNodeSkeleton(m).coord

(* The state a listed project ends in (FoldBuildList).                     *)
LEMMA ListEnds ==
    ASSUME IsWorld(world), LevelTyped, NEW s, Listing(s, toFetch)
    PROVE  FinalList(appendBuildListEdges(applyResults(s)))
<1> DEFINE t == applyResults(s)
           u == appendBuildListEdges(t)
<1>1. ListApplied(s, t, Len(toFetch))
  BY ListAppliedAll
<1>0. DOMAIN toFetch = 1..Len(toFetch)
  BY DEF LevelTyped
<1>2. /\ world.kind = "project" /\ s \in States /\ s.expandedKeys = {} /\ EdgesEnd(s)
      /\ isAnchor(s.nodes[Target])
  BY DEF Listing, ListedTo, Untouched
<1>3. /\ \A i \in DOMAIN toFetch :
           /\ toFetch[i].key \in DOMAIN s.nodes
           /\ s.nodes[toFetch[i].key].coord = toFetch[i].coord
           /\ \E m \in ToSet(world.list) : fetchable(m) /\ TaskFor(toFetch[i], m)
      /\ \A m \in ToSet(world.list) :
           /\ m.coord[1] \in DOMAIN s.nodes
           /\ s.nodes[m.coord[1]] = buildListNodeSkeleton(m)
           /\ fetchable(m) => \E i \in DOMAIN toFetch : TaskFor(toFetch[i], m)
      /\ DOMAIN s.nodes = {Target} \cup {m.coord[1] : m \in ToSet(world.list)}
  BY ListingFacts
<1> HIDE DEF t
<1>4. EdgesEnd(t)
  BY <1>1, <1>2 DEF EdgesEnd, ListApplied, Range
<1>5. Linked(t, u)
  BY <1>1, <1>3, <1>4, LinkedAll DEF ListApplied, OneEach
<1> HIDE DEF u
<1>6. /\ u \in States /\ u.expandedKeys = {} /\ EdgesEnd(u) /\ u.nodes = t.nodes
      /\ u.parsed = t.parsed /\ (hasFailed(t) => hasFailed(u))
      /\ OneEach(u)
  BY <1>1, <1>2, <1>3, <1>5 DEF Linked, ListApplied, Unlisted, hasFailed, OneEach
<1>7. isAnchor(u.nodes[Target])
  <2>1. Target \notin {toFetch[i].key : i \in DOMAIN toFetch}
    <3> SUFFICES ASSUME NEW i \in DOMAIN toFetch, toFetch[i].key = Target PROVE FALSE
      OBVIOUS
    <3>1. PICK m \in ToSet(world.list) : TaskFor(toFetch[i], m)
      BY <1>3
    <3>2. m.coord[1] # Target
      BY <3>1, ListTyped DEF wellListed
    <3> QED BY <3>1, <3>2 DEF TaskFor
  <2>2. Target \in DOMAIN s.nodes
    BY <1>3
  <2>3. t.nodes[Target] = s.nodes[Target]
    BY <1>1, <2>1, <2>2 DEF ListApplied
  <2> QED BY <1>2, <1>6, <2>3
<1>8. ASSUME NEW m \in ToSet(world.list) PROVE NodeListed(u, m)
  <2> DEFINE p == m.coord[1]
             o == buildListNodeSkeleton(m)
  <2>1. p \in DOMAIN s.nodes /\ s.nodes[p] = o /\ o.source = m.how
    BY <1>3, ListTyped, SkeletonIs
  <2>2. /\ t.nodes[p].coord = o.coord /\ t.nodes[p].original = o.original
        /\ t.nodes[p].source = m.how \/ (t.nodes[p].source \in failures /\ hasFailed(t))
    BY <1>1, <2>1 DEF ListApplied
  <2>3. fetchable(m) => t.nodes[p].coord \in t.parsed \/ t.nodes[p].source \in failures
    <3> SUFFICES ASSUME fetchable(m)
                 PROVE  t.nodes[p].coord \in t.parsed \/ t.nodes[p].source \in failures
      OBVIOUS
    <3>1. PICK i \in DOMAIN toFetch : toFetch[i].coord = o.coord /\ toFetch[i].key = p
      BY <1>3 DEF TaskFor
    <3>2. toFetch[i].coord \in t.parsed \/ t.nodes[toFetch[i].key].source \in failures
      BY <1>0, <1>1, <3>1 DEF ListApplied
    <3> QED BY <2>2, <3>1, <3>2
  <2>4. p \in DOMAIN u.nodes
    BY <1>6 DEF OneEach
  <2> QED BY <1>6, <2>2, <2>3, <2>4 DEF NodeListed
<1>9. ASSUME NEW c \in u.parsed
      PROVE  \E m \in ToSet(world.list) : fetchable(m) /\ c = buildListNodeSkeleton(m).coord
  <2>1. PICK i \in DOMAIN toFetch : c = toFetch[i].coord
    BY <1>1, <1>6 DEF ListApplied
  <2> QED BY <1>3, <2>1 DEF TaskFor
<1> QED BY <1>2, <1>6, <1>7, <1>8, <1>9 DEF FinalList, u, t

(* Outside the target, a node of the graph is in the fetched scope.        *)
LEMMA KeptIsFetchable ==
    ASSUME IsWorld(world), ordinaryReplaces, NEW m \in ToSet(world.list), world.kind = "project",
           NEW n, n = buildListNodeSkeleton(m), m.how \in {"mvs", "replace"},
           cuts => inScope(n)
    PROVE  fetchable(m)
<1>1. m \in wellListed /\ m.coord[1] # Target
  BY ListTyped DEF wellListed
<1>2. m.how = "replace" => n.coord[1] # Target
  <2>1. m.new # NoCoord => m.new[1] # Target
    BY DEF ordinaryReplaces
  <2> QED BY <1>1, <2>1, SkeletonIs, CoordinateFacts
<1>3. n.coord[1] \in Paths /\ n.coord[1] # Target /\ (n.original # NoCoord => n.original[1] # Target)
  BY <1>1, <1>2, SkeletonIs, CoordinateFacts
<1>4. inFetchScope(n)
  <2>1. CASE cuts
    BY <1>3, <2>1 DEF inScope, inFetchScope
  <2>2. CASE ~cuts
    BY <1>3, <2>2 DEF cuts, inFetchScope
  <2> QED BY <2>1, <2>2
<1> QED BY <1>4 DEF fetchable

(* A resolved node of a listed project was fetched.                        *)
LEMMA ListFetched ==
    ASSUME IsWorld(world), ordinaryReplaces, NEW s, FinalList(s), NEW g, Drained(s, g),
           NEW n \in g.nodes, n.source \in {"mvs", "replace"}
    PROVE  n.coord \in s.parsed
<1>1. g.nodes \subseteq Range(s.nodes) /\ (cuts => inScope(n))
  BY DrainedFacts
<1>2. PICK p \in DOMAIN s.nodes : n = s.nodes[p]
  BY <1>1 DEF Range
<1>3. p # Target
  BY <1>2 DEF FinalList, isAnchor
<1>4. PICK m \in ToSet(world.list) : p = m.coord[1]
  BY <1>2, <1>3 DEF FinalList, OneEach
<1> DEFINE o == buildListNodeSkeleton(m)
<1>5. /\ n.coord = o.coord /\ n.original = o.original
      /\ n.source = m.how \/ n.source \in failures
      /\ fetchable(m) => n.coord \in s.parsed \/ n.source \in failures
  BY <1>2, <1>4 DEF FinalList, NodeListed
<1>6. n.source \notin failures
  BY DEF failures
<1>7. inScope(n) => inScope(o)
  BY <1>5 DEF inScope
<1>8. fetchable(m)
  <2> HIDE DEF o
  <2>1. world.kind = "project"
    BY DEF FinalList
  <2> QED BY <1>1, <1>5, <1>6, <1>7, <2>1, KeptIsFetchable DEF o
<1> QED BY <1>5, <1>6, <1>8

(* The fetched set and the set the scope retains coincide.                 *)
LEMMA ListScope ==
    ASSUME IsWorld(world), ordinaryReplaces, forksDiffer, NEW s, FinalList(s),
           NEW g, Drained(s, g), g.partial = {}
    PROVE  {n.coord : n \in {m \in g.nodes : m.source \in {"mvs", "replace"}}} = s.parsed
<1> SUFFICES ASSUME NEW c \in s.parsed
             PROVE  \E n \in g.nodes : n.source \in {"mvs", "replace"} /\ n.coord = c
  BY ListFetched
<1>1. PICK m \in ToSet(world.list) : fetchable(m) /\ c = buildListNodeSkeleton(m).coord
  BY DEF FinalList
<1> DEFINE o == buildListNodeSkeleton(m)
           n == s.nodes[m.coord[1]]
<1>2. ~hasFailed(s)
  <2>1. g.partial = s.partial \cup IF s.truncated THEN {"depth_bounded"} ELSE {}
    BY DrainedFacts
  <2> QED BY <2>1 DEF hasFailed
<1>3. ASSUME NEW x \in ToSet(world.list)
      PROVE  /\ s.nodes[x.coord[1]].coord = buildListNodeSkeleton(x).coord
             /\ s.nodes[x.coord[1]].original = buildListNodeSkeleton(x).original
             /\ s.nodes[x.coord[1]].source = x.how
             /\ x.coord[1] \in DOMAIN s.nodes
  BY <1>2 DEF FinalList, NodeListed
<1>4. m \in wellListed /\ m.how \in {"mvs", "replace"} /\ inFetchScope(o) /\ c = o.coord
      /\ c \in Published /\ c[2] >= 1
  <2>1. m \in wellListed /\ m.how \in {"mvs", "replace"} /\ inFetchScope(o) /\ c = o.coord
    BY <1>1, ListTyped DEF fetchable
  <2>2. c \in Published
    BY <2>1, SkeletonIs
  <2> QED BY <2>1, <2>2, CoordinateFacts
<1>5. n \in Range(s.nodes) /\ n.coord = c /\ n.original = o.original
  BY <1>1, <1>3 DEF Range
<1> HIDE DEF n, o
<1>6. PICK k \in Range(s.nodes) :
        /\ k.coord = c /\ (k \in g.nodes \/ (cuts /\ ~inScope(k)))
        /\ k.original = NoCoord => n.original = NoCoord
  BY <1>5, DrainedFacts
<1>7. PICK x \in ToSet(world.list) : k = s.nodes[x.coord[1]]
  <2>1. PICK p \in DOMAIN s.nodes : k = s.nodes[p]
    BY <1>6 DEF Range
  <2>2. p # Target
    <3> SUFFICES ASSUME p = Target PROVE FALSE
      OBVIOUS
    <3>1. c = TargetCoord /\ world.kind = "project"
      BY <1>6, <2>1 DEF FinalList, isAnchor
    <3> QED BY <1>4, <3>1 DEF TargetCoord
  <2> QED BY <2>1, <2>2 DEF FinalList, OneEach
<1> DEFINE y == buildListNodeSkeleton(x)
<1>8. /\ x \in wellListed /\ k.coord = y.coord /\ k.original = y.original /\ k.source = x.how
  BY <1>3, <1>7, ListTyped
<1> HIDE DEF y
<1>9. x.how \in {"mvs", "replace"}
  <2>1. x.how \in {"local_replace", "workspace_member"} => y.coord[2] = 0
    BY <1>8, SkeletonIs DEF y
  <2>2. x.how \in {"mvs", "replace", "local_replace", "workspace_member"}
    BY <1>8 DEF wellListed, Listed
  <2> QED BY <1>4, <1>6, <1>8, <2>1, <2>2
<1>10. inScope(k)
  <2>1. CASE m.how = "mvs"
    <3>1. o.original = NoCoord
      BY <1>4, <2>1, SkeletonIs DEF o
    <3>2. c[1] \in world.scope
      BY <1>4, <3>1 DEF inFetchScope
    <3> QED BY <1>6, <3>2 DEF inScope
  <2>2. CASE m.how = "replace"
    <3>1. o.original # NoCoord /\ c = m.new /\ m.new # NoCoord
      BY <1>4, <2>2, SkeletonIs DEF o, wellListed
    <3>2. k.original # NoCoord
      BY <1>5, <1>6, <3>1
    <3>3. x.how = "replace"
      BY <1>8, <1>9, <3>2, SkeletonIs DEF y
    <3>4. x.new = c
      BY <1>6, <1>8, <3>3, SkeletonIs DEF y
    <3>5. x = m
      <4>1. PICK i \in DOMAIN world.list, j \in DOMAIN world.list :
              x = world.list[i] /\ m = world.list[j]
        BY DEF ToSet
      <4> QED BY <3>1, <3>4, <4>1 DEF forksDiffer
    <3>6. inFetchScope(k)
      BY <1>4, <1>8, <3>5 DEF inFetchScope, y, o
    <3> QED BY <3>6 DEF inFetchScope, inScope
  <2> QED BY <1>4, <2>1, <2>2
<1> QED BY <1>6, <1>8, <1>9, <1>10

---------------------------------------------------------------------------
(* The reasons a graph is partial for stay: a requirement adds none, and a *)
(* result only adds.                                                       *)
LEMMA HandledMarks ==
    ASSUME NEW s, NEW t, NEW c, NEW expand, Handled(s, t, c, expand)
    PROVE  t.partial = s.partial
  BY DEF Handled, Known, Placeheld, Raised, Frame

(* seedDirectDeps gives no reason.                                         *)
LEMMA SeedMarks ==
    ASSUME IsWorld(world), NEW s \in States
    PROVE  seedDirectDeps(s).partial = s.partial
<1> DEFINE q == filterRequires(world.requires)
           St == {t \in States : t.partial = s.partial}
<1>1. q \in Seq(Requirement)
  BY FilteredTyped DEF IsWorld
<1>2. \A t \in St, r \in Requirement : seedDirectDep(t, r) \in St
  BY SeedShape, HandledMarks
<1>3. s \in St
  OBVIOUS
<1> HIDE DEF q, St
<1>4. PICK tr \in [0..Len(q) -> St] :
        /\ tr[0] = s /\ tr[Len(q)] = seeds(s, q)
        /\ \A k \in 1..Len(q) : tr[k] = seedDirectDep(tr[k - 1], q[k])
  <2>1. SeedClosed(St, Requirement)
    BY <1>2 DEF SeedClosed
  <2>2. SeedTraced(St, s, q)
    BY <1>1, <1>3, <2>1, SeedTrace
  <2> QED BY <2>2 DEF SeedTraced
<1>5. Len(q) \in 0..Len(q)
  BY <1>1
<1>6. seeds(s, q) \in St
  BY <1>4, <1>5
<1>7. seeds(s, q) = seedDirectDeps(s)
  BY DEF seeds, seedDirectDeps, q
<1> QED BY <1>6, <1>7 DEF St

(* A graph that is partial for some reason.                                *)
Marked == {s \in States : s.partial # {}}

(* Expanding a module keeps the reason a fallback gave.                    *)
LEMMA FollowsMarks ==
    ASSUME IsWorld(world), NEW s \in Marked, NEW bi \in Task
    PROVE  expandModule(s, bi) \in Marked
<1> DEFINE t == [s EXCEPT !.expandedKeys = @ \cup {bi.coord}]
           q == filterRequires(goMod(bi.coord).requires)
<1>0. s \in States /\ s.partial # {}
  BY DEF Marked
<1>1. t \in Marked
  <2> DEFINE K == s.expandedKeys \cup {bi.coord}
  <2>1. K \subseteq Coordinates
    BY <1>0, StateFacts DEF Task
  <2>2. t = [s EXCEPT !.expandedKeys = K]
    OBVIOUS
  <2> HIDE DEF K, t
  <2>3. s \in StateFields
    BY <1>0, FieldsTyped
  <2>4. t \in StateFields /\ t.selected = s.selected /\ t.nodes = s.nodes /\ t.queue = s.queue
        /\ t.partial = s.partial
    BY <2>1, <2>2, <2>3 DEF StateFields
  <2>5. t \in States
    BY <1>0, <2>4, StateFacts, QueueKeys
  <2> QED BY <1>0, <2>4, <2>5 DEF Marked
<1>2. q \in Seq(Requirement)
  BY GoModTyped, FilteredTyped
<1>3. FollowClosed(Marked, Requirement, bi)
  <2> SUFFICES ASSUME NEW u \in Marked, NEW r \in Requirement
               PROVE  enqueueTransitive(u, bi, r) \in Marked
    BY DEF FollowClosed
  <2>1. u \in States /\ u.partial # {}
    BY DEF Marked
  <2>2. enqueueTransitive(u, bi, r) \in States /\ enqueueTransitive(u, bi, r).partial = u.partial
    BY <2>1, FollowShape, HandledMarks
  <2> QED BY <2>1, <2>2 DEF Marked
<1> HIDE DEF q, t
<1>4. PICK tr \in [0..Len(q) -> Marked] :
        /\ tr[0] = t /\ tr[Len(q)] = follows(bi, t, q)
        /\ \A k \in 1..Len(q) : tr[k] = enqueueTransitive(tr[k - 1], bi, q[k])
  <2>1. FollowTraced(Marked, t, q, bi)
    BY <1>1, <1>2, <1>3, FollowTrace
  <2> QED BY <2>1 DEF FollowTraced
<1>5. follows(bi, t, q) \in Marked
  <2>1. Len(q) \in 0..Len(q)
    BY <1>2
  <2> QED BY <1>4, <2>1
<1>6. expandModule(s, bi) = IF bi.coord \notin s.parsed THEN t ELSE follows(bi, t, q)
  BY DEF expandModule, follows, t, q
<1> QED BY <1>1, <1>5, <1>6

(* So does expanding a level.                                              *)
LEMMA ExpandsMark ==
    ASSUME IsWorld(world), NEW s \in Marked, NEW ts \in Seq(Task)
    PROVE  expands(s, ts) \in Marked
<1>1. ExpandClosed(Marked, Task)
  BY FollowsMarks DEF ExpandClosed
<1>2. PICK tr \in [0..Len(ts) -> Marked] :
        /\ tr[0] = s /\ tr[Len(ts)] = expands(s, ts)
        /\ \A k \in 1..Len(ts) : tr[k] = expandModule(tr[k - 1], ts[k])
  BY <1>1, ExpandTrace DEF ExpandTraced
<1>3. Len(ts) \in 0..Len(ts)
  OBVIOUS
<1> QED BY <1>2, <1>3

(* So do the results of a level.                                           *)
LEMMA ApplyMarks ==
    ASSUME LevelTyped, NEW s \in Marked, \A i \in DOMAIN toFetch : toFetch[i].key \in DOMAIN s.nodes
    PROVE  applyResults(s) \in Marked
<1> DEFINE St == {t \in Marked : \A i \in DOMAIN toFetch : toFetch[i].key \in DOMAIN t.nodes}
<1>1. ASSUME NEW t \in St, NEW i \in DOMAIN toFetch PROVE applyResult(t, i) \in St
  <2>1. t \in States /\ t.partial # {} /\ toFetch[i] \in Task /\ results[i] \in Outcomes
        /\ toFetch[i].key \in DOMAIN t.nodes
    BY DEF LevelTyped, Marked
  <2> DEFINE u == applyResult(t, i)
  <2>2. u = applyFetchParse(t, toFetch[i], results[i])
    BY DEF applyResult
  <2> HIDE DEF u, St
  <2>3. u \in States /\ Resulted(t, u, toFetch[i], results[i])
    BY <2>1, <2>2, ResultShape
  <2>4. DOMAIN u.nodes = DOMAIN t.nodes /\ u.partial # {}
    BY <2>1, <2>3 DEF Resulted
  <2>5. \A j \in DOMAIN toFetch : toFetch[j].key \in DOMAIN t.nodes
    BY DEF St
  <2> QED BY <2>3, <2>4, <2>5 DEF u, St, Marked
<1>2. s \in St
  OBVIOUS
<1> HIDE DEF St
<1>3. PICK tr \in [0..Len(toFetch) -> St] :
             /\ tr[0] = s /\ tr[Len(toFetch)] = applyResults(s)
             /\ \A k \in 1..Len(toFetch) : tr[k] = applyResult(tr[k - 1], k)
  BY <1>1, <1>2, ResultsTrace
<1>4. Len(toFetch) \in 0..Len(toFetch)
  BY DEF LevelTyped
<1> QED BY <1>3, <1>4 DEF St

---------------------------------------------------------------------------
(* The inductive invariant, phase by phase.                                *)
emptied(s) == [s EXCEPT !.queue = <<>>]

(* A level is being fetched.                                               *)
GoodFetch(s, F, X) ==
    /\ world.kind # "shallow" /\ (world.kind = "project" => s.partial # {})
    /\ ordinaryReplaces => /\ Inv(emptied(s), coordsOf(F), coordsOf(X), {})
                           /\ \A i \in DOMAIN F : AtNode(s, F[i])

(* The three ways a resolution ends.                                       *)
Final(s) == FinalShallow(s) \/ FinalLevels(s) \/ FinalList(s)

(* The types, and what no phase has left over.                             *)
StateInv ==
    /\ IsWorld(world) /\ phase \in {"start", "wave", "fetch", "list", "done", "failed"}
    /\ st \in States /\ toFetch \in Seq(Task) /\ toExpand \in Seq(Task)
    /\ \A i \in DOMAIN toFetch : toFetch[i].key \in DOMAIN st.nodes
    /\ DOMAIN results \subseteq DOMAIN toFetch
    /\ \A i \in DOMAIN results : results[i] \in Outcomes
    /\ phase \in {"start", "wave"} => toFetch = <<>> /\ toExpand = <<>> /\ results = <<>>
    /\ faults \in 0..MaxFaults

(* What each phase may rely on.                                            *)
PhaseInv ==
    /\ phase = "start" => st = emptyState
    /\ phase = "wave" => GoodWave(st)
    /\ phase = "fetch" => GoodFetch(st, toFetch, toExpand)
    /\ phase = "list" => Listing(st, toFetch)
    /\ phase = "done" => Drained(st, graph) /\ Final(st)

(* The inductive invariant.                                                *)
ResolverInv == StateInv /\ PhaseInv

---------------------------------------------------------------------------
(* The world never changes, so neither does what is read from it.          *)
LEMMA ReadFromWorld ==
    ASSUME world' = world
    PROVE  /\ \A c : applyReplace(c)' = applyReplace(c)
           /\ \A c : goMod(c)' = goMod(c)
           /\ \A q : filterRequires(q)' = filterRequires(q)
           /\ \A c : isExcluded(c)' <=> isExcluded(c)
           /\ \A p : how(p)' = how(p)
           /\ \A p : forkOf(p)' = forkOf(p)
           /\ roots' = roots /\ forks' = forks /\ TargetCoord' = TargetCoord
           /\ ordinaryReplaces' <=> ordinaryReplaces
           /\ requiredOnce' <=> requiredOnce
           /\ emptyState' = emptyState
<1>1. replaceMap' = replaceMap
  BY DEF replaceMap, effectiveReplaces
<1>2. \A c : applyReplace(c)' = applyReplace(c)
  BY <1>1 DEF applyReplace
<1>3. \A c : goMod(c)' = goMod(c)
  BY DEF goMod
<1>4. \A q : filterRequires(q)' = filterRequires(q)
  BY DEF filterRequires
<1>5. \A c : isExcluded(c)' <=> isExcluded(c)
  BY DEF isExcluded
<1>6. (\A p : how(p)' = how(p)) /\ \A p : forkOf(p)' = forkOf(p)
  BY <1>2 DEF how, forkOf
<1>7. roots' = roots /\ forks' = forks /\ TargetCoord' = TargetCoord
  BY <1>1 DEF roots, forks, TargetCoord
<1>8. (ordinaryReplaces' <=> ordinaryReplaces) /\ (requiredOnce' <=> requiredOnce)
  BY <1>1 DEF ordinaryReplaces, requiredOnce
<1>9. emptyState' = emptyState
  BY <1>7 DEF emptyState
<1> QED BY <1>2, <1>3, <1>4, <1>5, <1>6, <1>7, <1>8, <1>9

(* The level invariant is about a resolveState and the world alone.        *)
LEMMA InvStands ==
    ASSUME world' = world
    PROVE  \A s, F, X, D : Inv(s, F, X, D)' <=> Inv(s, F, X, D)
<1>1. \A s, p : AtSelected(s, p)' <=> AtSelected(s, p)
  BY ReadFromWorld DEF AtSelected
<1>2. \A s : Placed(s)' <=> Placed(s)
  BY <1>1, ReadFromWorld DEF Placed
<1>3. \A s, e : EdgeAsks(s, e)' <=> EdgeAsks(s, e)
  BY ReadFromWorld DEF EdgeAsks
<1>4. \A s, p : IsAsked(s, p)' <=> IsAsked(s, p)
  BY ReadFromWorld DEF IsAsked
<1>5. \A s : Asked(s)' <=> Asked(s)
  BY <1>3, <1>4 DEF Asked
<1>6. \A q : Fits(q)' <=> Fits(q)
  BY ReadFromWorld DEF Fits
<1>7. \A s : InLine(s)' <=> InLine(s)
  BY <1>6 DEF InLine
<1>8. \A s, F, p : IsFetched(s, F, p)' <=> IsFetched(s, F, p)
  BY ReadFromWorld DEF IsFetched
<1>9. \A s, F, c : Passed(s, F, c)' <=> Passed(s, F, c)
  BY ReadFromWorld DEF Passed
<1>10. \A s, F : Fetched(s, F)' <=> Fetched(s, F)
  BY <1>8, <1>9 DEF Fetched
<1>11. \A s, X, p, v : Covered(s, X, p, v)' <=> Covered(s, X, p, v)
  BY ReadFromWorld DEF Covered
<1>12. \A s, X, c, r : Satisfied(s, X, c, r)' <=> Satisfied(s, X, c, r)
  BY <1>11, ReadFromWorld DEF Satisfied
<1>13. \A s, X, c : AllSatisfied(s, X, c)' <=> AllSatisfied(s, X, c)
  BY <1>12, ReadFromWorld DEF AllSatisfied
<1>14. \A s, X : RootsCovered(s, X)' <=> RootsCovered(s, X)
  BY <1>11, ReadFromWorld DEF RootsCovered
<1>15. \A s, X, D : Followed(s, X, D)' <=> Followed(s, X, D)
  BY <1>13, <1>14 DEF Followed
<1>16. \A s, F, X : Fresh(s, F, X)' <=> Fresh(s, F, X)
  BY ReadFromWorld DEF Fresh
<1> QED BY <1>2, <1>5, <1>7, <1>10, <1>15, <1>16 DEF Inv

(* So are the invariants of the phases.                                    *)
LEMMA PhasesStand ==
    ASSUME world' = world
    PROVE  /\ \A s : GoodWave(s)' <=> GoodWave(s)
           /\ \A s, F, X : GoodFetch(s, F, X)' <=> GoodFetch(s, F, X)
           /\ \A s, q : Listing(s, q)' <=> Listing(s, q)
           /\ \A s, g : Drained(s, g)' <=> Drained(s, g)
           /\ \A s : Final(s)' <=> Final(s)
<1>1. \A s : GoodWave(s)' <=> GoodWave(s)
  BY InvStands, ReadFromWorld DEF GoodWave
<1>2. \A s, F, X : GoodFetch(s, F, X)' <=> GoodFetch(s, F, X)
  <2>1. \A s, t : AtNode(s, t)' <=> AtNode(s, t)
    BY ReadFromWorld DEF AtNode
  <2> QED BY <2>1, InvStands, ReadFromWorld DEF GoodFetch
<1>3. \A n : inFetchScope(n)' <=> inFetchScope(n)
  BY DEF inFetchScope
<1>4. \A m : fetchable(m)' <=> fetchable(m)
  BY <1>3 DEF fetchable
<1>5. \A s, q : Listing(s, q)' <=> Listing(s, q)
  <2>1. \A n : isAnchor(n)' <=> isAnchor(n)
    BY ReadFromWorld DEF isAnchor
  <2>2. \A s, k : ListedTo(s, k)' <=> ListedTo(s, k)
    BY <2>1 DEF ListedTo
  <2>3. \A q, k : TasksTo(q, k)' <=> TasksTo(q, k)
    BY <1>4 DEF TasksTo
  <2> QED BY <2>2, <2>3 DEF Listing
<1>6. \A s, g : Drained(s, g)' <=> Drained(s, g)
  <2>1. \A n : inScope(n)' <=> inScope(n)
    BY DEF inScope
  <2>2. \A g : FilterGraphToScope(g)' = FilterGraphToScope(g)
    BY <2>1 DEF FilterGraphToScope
  <2> QED BY <2>2 DEF Drained
<1>7. \A s : FinalShallow(s)' <=> FinalShallow(s)
  BY ReadFromWorld DEF FinalShallow
<1>8. \A s : FinalLevels(s)' <=> FinalLevels(s)
  BY <1>1 DEF FinalLevels
<1>9. \A s : FinalList(s)' <=> FinalList(s)
  <2>1. \A n : isAnchor(n)' <=> isAnchor(n)
    BY ReadFromWorld DEF isAnchor
  <2>2. \A s, m : NodeListed(s, m)' <=> NodeListed(s, m)
    BY <1>4 DEF NodeListed
  <2>3. \A s : OneEach(s)' <=> OneEach(s)
    BY DEF OneEach
  <2> QED BY <1>4, <2>1, <2>2, <2>3 DEF FinalList
<1>10. \A s : Final(s)' <=> Final(s)
  BY <1>7, <1>8, <1>9 DEF Final
<1> QED BY <1>1, <1>2, <1>5, <1>6, <1>10

---------------------------------------------------------------------------
(* A state with other reasons, or with nothing queued.                     *)
SameBut(s, t) ==
    /\ t.selected = s.selected /\ t.nodes = s.nodes /\ t.edges = s.edges
    /\ t.truncated = s.truncated /\ t.parsed = s.parsed /\ t.processed = s.processed
    /\ t.expandedKeys = s.expandedKeys

(* Rewriting the reasons changes nothing else.                             *)
LEMMA PartialIs ==
    ASSUME NEW s \in States, NEW P, P \subseteq Reasons, NEW t, t = [s EXCEPT !.partial = P]
    PROVE  t \in States /\ SameBut(s, t) /\ t.queue = s.queue /\ t.partial = P
<1>1. s \in StateFields
  BY FieldsTyped
<1>2. t \in StateFields /\ SameBut(s, t) /\ t.queue = s.queue /\ t.partial = P
  BY <1>1 DEF StateFields, SameBut
<1> QED BY <1>2, StateFacts, QueueKeys DEF SameBut

(* Draining the queue changes nothing else.                                *)
LEMMA EmptiedIs ==
    ASSUME NEW s \in States
    PROVE  /\ emptied(s) \in States /\ SameBut(s, emptied(s))
           /\ emptied(s).queue = <<>> /\ emptied(s).partial = s.partial
<1> DEFINE t == emptied(s)
           q == <<>>
<1>1. s \in StateFields /\ t = [s EXCEPT !.queue = q] /\ q \in Seq(Item)
  BY FieldsTyped DEF emptied
<1> HIDE DEF t, q
<1>5. t \in StateFields /\ SameBut(s, t) /\ t.queue = q /\ t.partial = s.partial
  BY <1>1 DEF StateFields, SameBut
<1>2. t \in StateFields /\ SameBut(s, t) /\ t.queue = <<>> /\ t.partial = s.partial
  BY <1>5 DEF q
<1>3. DOMAIN t.selected \subseteq DOMAIN t.nodes /\ \A i \in DOMAIN t.queue : t.queue[i].key \in DOMAIN t.selected
  BY <1>2, StateFacts DEF SameBut
<1>4. t \in States
  BY <1>2, <1>3 DEF States, StateFields
<1> QED BY <1>2, <1>4 DEF t

(* The invariant reads the reasons only for failures.                      *)
LEMMA PartialInv ==
    ASSUME NEW s, NEW t \in States, Inv(s, {}, {}, {}), SameBut(s, t), t.queue = s.queue,
           hasFailed(s) => hasFailed(t)
    PROVE  Inv(t, {}, {}, {})
<1>1. /\ s \in States /\ Placed(s) /\ Asked(s) /\ InLine(s) /\ Fetched(s, {})
      /\ Followed(s, {}, {}) /\ Fresh(s, {}, {})
  BY DEF Inv
<1>2. \A p : (Queued(t, p) <=> Queued(s, p)) /\ (ToExpand(t, p) <=> ToExpand(s, p))
  BY DEF Queued, ToExpand
<1>3. Placed(t)
  BY <1>1 DEF Placed, AtSelected, SameBut
<1>4. Asked(t)
  <2>1. t.selected = s.selected /\ t.edges = s.edges /\ t.truncated = s.truncated
    BY DEF SameBut
  <2>2. \A e : EdgeAsks(t, e) <=> EdgeAsks(s, e)
    BY <2>1 DEF EdgeAsks
  <2>3. \A p : IsAsked(t, p) <=> IsAsked(s, p)
    BY <2>1 DEF IsAsked
  <2> QED BY <1>1, <2>1, <2>2, <2>3 DEF Asked
<1>5. InLine(t)
  BY <1>1 DEF InLine
<1>6. Fetched(t, {})
  BY <1>1, <1>2 DEF Fetched, IsFetched, Passed, SameBut
<1>7. \A p, v : Covered(t, {}, p, v) <=> Covered(s, {}, p, v)
  BY <1>2 DEF Covered, SameBut
<1>8. \A c, r : Satisfied(t, {}, c, r) <=> Satisfied(s, {}, c, r)
  BY <1>7 DEF Satisfied, SameBut
<1>9. Followed(t, {}, {})
  BY <1>1, <1>7, <1>8 DEF Followed, RootsCovered, AllSatisfied, SameBut
<1>10. Fresh(t, {}, {})
  BY <1>1 DEF Fresh, SameBut
<1> QED BY <1>3, <1>4, <1>5, <1>6, <1>9, <1>10 DEF Inv

---------------------------------------------------------------------------
(* Each action keeps the invariant.                                        *)
LEMMA InitHolds == ResolverInit => ResolverInv
<1> SUFFICES ASSUME ResolverInit PROVE ResolverInv
  OBVIOUS
<1>1. /\ IsWorld(world) /\ st = emptyState /\ phase = "start" /\ toFetch = <<>> /\ toExpand = <<>>
      /\ results = <<>> /\ faults = 0
  BY WorldsAreWorlds DEF ResolverInit
<1>2. st \in States
  BY <1>1, EmptyTyped
<1>3. /\ toFetch \in Seq(Task) /\ toExpand \in Seq(Task) /\ DOMAIN toFetch = {}
      /\ DOMAIN results = {} /\ faults \in 0..MaxFaults
  BY <1>1, Bounds
<1>4. StateInv
  BY <1>1, <1>2, <1>3 DEF StateInv
<1> QED BY <1>1, <1>4 DEF ResolverInv, PhaseInv

(* Finish returns a graph drained from a final state.                      *)
LEMMA Finished ==
    ASSUME IsWorld(world), faults \in 0..MaxFaults, NEW s \in States, Final(s), Finish(s),
           UNCHANGED <<world, cancelled, faults>>
    PROVE  ResolverInv'
<1>1. /\ phase' = "done" /\ st' = s /\ toFetch' = <<>> /\ toExpand' = <<>> /\ results' = <<>>
      /\ Drained(s, graph')
  BY DEF Finish, Drained, wholeGraph
<1>2. IsWorld(world)'
  OBVIOUS
<1>3. /\ toFetch' \in Seq(Task) /\ toExpand' \in Seq(Task) /\ DOMAIN toFetch' = {}
      /\ DOMAIN results' = {}
  BY <1>1
<1>4. StateInv'
  BY <1>1, <1>2, <1>3 DEF StateInv
<1>5. Drained(st, graph)' /\ Final(st)'
  BY <1>1, PhasesStand
<1> QED BY <1>1, <1>4, <1>5 DEF ResolverInv, PhaseInv

(* A good state and no level at hand start the next level.                 *)
LEMMA ToWave ==
    ASSUME IsWorld(world), GoodWave(st'), phase' = "wave", world' = world, faults' \in 0..MaxFaults,
           toFetch' = <<>>, toExpand' = <<>>, results' = <<>>
    PROVE  ResolverInv'
<1>1. IsWorld(world)' /\ st' \in States
  BY DEF GoodWave
<1>2. /\ toFetch' \in Seq(Task) /\ toExpand' \in Seq(Task) /\ DOMAIN toFetch' = {}
      /\ DOMAIN results' = {}
  OBVIOUS
<1>3. StateInv'
  BY <1>1, <1>2 DEF StateInv
<1>4. GoodWave(st)'
  BY PhasesStand
<1> QED BY <1>3, <1>4 DEF ResolverInv, PhaseInv

(* The levels start from a good state (Resolve, resolveProjectFallback).   *)
LEMMA SeedsGood ==
    ASSUME IsWorld(world)
    PROVE  /\ seedDirectDeps(emptyState) \in States
           /\ seedDirectDeps(emptyState).partial = {}
           /\ ordinaryReplaces => Inv(seedDirectDeps(emptyState), {}, {}, {})
<1>1. emptyState \in States /\ emptyState.partial = {}
  BY EmptyTyped DEF emptyState
<1>2. ordinaryReplaces => Inv(emptyState, {}, {}, {})
  BY EmptyInv
<1> QED BY <1>1, <1>2, SeedTyped, SeedMarks, SeedInv

(* Resolve keeps the invariant.                                            *)
LEMMA ResolveHolds == ResolverInv /\ Resolve => ResolverInv'
<1> SUFFICES ASSUME ResolverInv, Resolve PROVE ResolverInv'
  OBVIOUS
<1>1. /\ IsWorld(world) /\ st = emptyState /\ faults \in 0..MaxFaults
      /\ toFetch = <<>> /\ toExpand = <<>> /\ results = <<>>
  BY DEF ResolverInv, StateInv, PhaseInv, Resolve
<1>2. /\ world.kind = "module" /\ phase' = "wave" /\ st' = seedDirectDeps(emptyState)
      /\ world' = world /\ faults' = faults
      /\ toFetch' = toFetch /\ toExpand' = toExpand /\ results' = results
  BY <1>1 DEF Resolve
<1>3. GoodWave(st')
  BY <1>1, <1>2, SeedsGood DEF GoodWave
<1> QED BY <1>1, <1>2, <1>3, ToWave

(* ResolveShallow keeps the invariant.                                     *)
LEMMA ShallowHolds == ResolverInv /\ ResolveShallow => ResolverInv'
<1> SUFFICES ASSUME ResolverInv, ResolveShallow PROVE ResolverInv'
  OBVIOUS
<1> DEFINE u == seedDirectDeps(emptyState)
           s == [u EXCEPT !.partial = {"shallow"}]
<1>1. IsWorld(world) /\ st = emptyState /\ faults \in 0..MaxFaults
  BY DEF ResolverInv, StateInv, PhaseInv, ResolveShallow
<1>2. world.kind = "shallow" /\ Finish(s) /\ UNCHANGED <<world, cancelled, faults>>
  BY <1>1 DEF ResolveShallow
<1>3. u \in States
  BY <1>1, SeedsGood
<1>4. ordinaryReplaces /\ requiredOnce => EdgesEnd(u)
  BY <1>1, <1>2, ShallowEnds
<1> HIDE DEF u
<1>5. s \in States /\ SameBut(u, s)
  <2>1. {"shallow"} \subseteq Reasons
    BY DEF Reasons
  <2> QED BY <1>3, <2>1, PartialIs
<1> HIDE DEF s
<1>6. EdgesEnd(u) => EdgesEnd(s)
  BY <1>5 DEF EdgesEnd, SameBut
<1>7. Final(s)
  BY <1>2, <1>4, <1>6 DEF Final, FinalShallow
<1> QED BY <1>1, <1>2, <1>5, <1>7, Finished

(* resolveProjectFallback keeps the invariant, and gives its reason.       *)
LEMMA FallbackHolds == ResolverInv /\ resolveProjectFallback => ResolverInv'
<1> SUFFICES ASSUME ResolverInv, resolveProjectFallback PROVE ResolverInv'
  OBVIOUS
<1> DEFINE u == seedDirectDeps(emptyState)
           P == {IF world.dir THEN "build_list_unavailable" ELSE "build_list_approximate"}
           s == [u EXCEPT !.partial = P]
<1>1. /\ IsWorld(world) /\ st = emptyState /\ faults \in 0..MaxFaults
      /\ toFetch = <<>> /\ toExpand = <<>> /\ results = <<>>
  BY DEF ResolverInv, StateInv, PhaseInv, resolveProjectFallback
<1>2. /\ world.kind = "project" /\ phase' = "wave" /\ st' = s /\ world' = world
      /\ toFetch' = toFetch /\ toExpand' = toExpand /\ results' = results
  BY <1>1 DEF resolveProjectFallback
<1>3. faults' \in 0..MaxFaults
  BY <1>1, Bounds DEF resolveProjectFallback, Spend
<1>4. u \in States /\ u.partial = {} /\ (ordinaryReplaces => Inv(u, {}, {}, {}))
  BY <1>1, SeedsGood
<1>5. P \subseteq Reasons /\ P # {}
  BY DEF Reasons
<1> HIDE DEF u, P
<1>6. s \in States /\ SameBut(u, s) /\ s.queue = u.queue /\ s.partial = P
  BY <1>4, <1>5, PartialIs
<1> HIDE DEF s
<1>7. ~hasFailed(u)
  BY <1>4 DEF hasFailed
<1>8. ordinaryReplaces => Inv(s, {}, {}, {})
  BY <1>4, <1>6, <1>7, PartialInv
<1>9. GoodWave(s)
  BY <1>2, <1>5, <1>6, <1>8 DEF GoodWave
<1> QED BY <1>1, <1>2, <1>3, <1>9, ToWave

(* resolveFromBuildList keeps the invariant.                               *)
LEMMA BuildListHolds == ResolverInv /\ resolveFromBuildList => ResolverInv'
<1> SUFFICES ASSUME ResolverInv, resolveFromBuildList PROVE ResolverInv'
  OBVIOUS
<1>1. IsWorld(world) /\ st = emptyState /\ faults \in 0..MaxFaults /\ toExpand \in Seq(Task)
  BY DEF ResolverInv, StateInv, PhaseInv, resolveFromBuildList
<1>2. /\ world.kind = "project" /\ phase' = "list" /\ results' = <<>> /\ world' = world
      /\ toExpand' = toExpand /\ faults' = faults
      /\ st' = lists(emptyState, world.list) /\ toFetch' = tasks(<<>>, world.list)
  BY <1>1 DEF resolveFromBuildList, lists, tasks
<1>3. Listing(st', toFetch')
  BY <1>1, <1>2, ListedAll, TasksAll DEF Listing
<1>4. /\ st' \in States /\ toFetch' \in Seq(Task)
      /\ \A i \in DOMAIN toFetch' : toFetch'[i].key \in DOMAIN st'.nodes
  <2>1. st' \in States /\ toFetch' \in Seq(Task)
    BY <1>3 DEF Listing, ListedTo, TasksTo
  <2>2. \A s, q : Listing(s, q) => \A i \in DOMAIN q : q[i].key \in DOMAIN s.nodes
    BY <1>1, ListingFacts
  <2> QED BY <1>3, <2>1, <2>2
<1>5. DOMAIN results' = {}
  BY <1>2
<1>6. StateInv'
  BY <1>1, <1>2, <1>4, <1>5 DEF StateInv
<1>7. Listing(st, toFetch)'
  BY <1>2, <1>3, PhasesStand
<1> QED BY <1>2, <1>6, <1>7 DEF ResolverInv, PhaseInv

(* A failed resolution keeps the invariant.                                *)
LEMMA FailsHolds == ResolverInv /\ ResolveFails => ResolverInv'
<1> SUFFICES ASSUME ResolverInv, ResolveFails PROVE ResolverInv'
  OBVIOUS
<1>1. /\ phase' = "failed" /\ world' = world /\ st' = st /\ toFetch' = toFetch
      /\ toExpand' = toExpand /\ results' = results
  BY DEF ResolveFails, Fail
<1>2. StateInv
  BY DEF ResolverInv
<1>3. faults' \in 0..MaxFaults
  BY <1>2, Bounds DEF ResolveFails, Spend, StateInv
<1>4. StateInv'
  BY <1>1, <1>2, <1>3 DEF StateInv
<1> QED BY <1>1, <1>4 DEF ResolverInv, PhaseInv

(* A fetch of the pool keeps the invariant, whichever of the level it is   *)
(* and whatever its result.                                                *)
LEMMA FetchHolds == ResolverInv /\ (\E i \in DOMAIN toFetch : FetchModule(i)) => ResolverInv'
<1> SUFFICES ASSUME ResolverInv, NEW i \in DOMAIN toFetch, FetchModule(i) PROVE ResolverInv'
  OBVIOUS
<1>1. StateInv /\ PhaseInv
  BY DEF ResolverInv
<1>2. /\ world' = world /\ phase' = phase /\ st' = st /\ toFetch' = toFetch
      /\ toExpand' = toExpand /\ phase \in {"fetch", "list"}
  BY DEF FetchModule
<1>3. \E result \in Outcomes : results' = Entered(results, i, result)
  BY DEF FetchModule, Outcomes
<1>4. DOMAIN results' \subseteq DOMAIN toFetch' /\ \A j \in DOMAIN results' : results'[j] \in Outcomes
  BY <1>1, <1>2, <1>3 DEF StateInv, Entered
<1>5. faults' \in 0..MaxFaults
  BY <1>1, Bounds DEF FetchModule, Spend, StateInv
<1>6. StateInv'
  BY <1>1, <1>2, <1>4, <1>5 DEF StateInv
<1>7. /\ phase' = "fetch" => GoodFetch(st, toFetch, toExpand)'
      /\ phase' = "list" => Listing(st, toFetch)'
  BY <1>1, <1>2, PhasesStand DEF PhaseInv
<1> QED BY <1>2, <1>6, <1>7 DEF ResolverInv, PhaseInv

(* Starting a level keeps the invariant.                                   *)
LEMMA StartHolds == ResolverInv /\ StartWave => ResolverInv'
<1> SUFFICES ASSUME ResolverInv, StartWave PROVE ResolverInv'
  OBVIOUS
<1> DEFINE parts == partitionWave(st)
           P == st.processed \cup parts.seen
           t == [st EXCEPT !.processed = P]
           u == emptied(t)
<1>1. IsWorld(world) /\ GoodWave(st) /\ st \in States /\ faults \in 0..MaxFaults
  BY DEF ResolverInv, StateInv, PhaseInv, StartWave
<1>2. /\ toFetch' = parts.fetch /\ toExpand' = parts.expand /\ st' = t
      /\ phase' = "fetch" /\ results' = <<>> /\ world' = world /\ faults' = faults
  BY DEF StartWave
<1>3. parts \in Parts /\ \A i \in DOMAIN parts.fetch : parts.fetch[i].key \in DOMAIN st.nodes
  BY <1>1, PartitionTyped
<1> HIDE DEF parts
<1>4. P \subseteq Coordinates /\ parts.fetch \in Seq(Task) /\ parts.expand \in Seq(Task)
  BY <1>1, <1>3, StateFacts DEF Parts
<1>5. /\ t \in States /\ t.selected = st.selected /\ t.nodes = st.nodes /\ t.edges = st.edges
      /\ t.truncated = st.truncated /\ t.parsed = st.parsed /\ t.partial = st.partial
      /\ t.expandedKeys = st.expandedKeys /\ t.processed = st.processed \cup parts.seen
  <2>1. st \in StateFields
    BY <1>1, FieldsTyped
  <2> HIDE DEF P
  <2>2. /\ t \in StateFields /\ t.selected = st.selected /\ t.nodes = st.nodes /\ t.edges = st.edges
        /\ t.truncated = st.truncated /\ t.parsed = st.parsed /\ t.partial = st.partial
        /\ t.expandedKeys = st.expandedKeys /\ t.processed = P /\ t.queue = st.queue
    BY <1>4, <2>1 DEF StateFields
  <2> HIDE DEF t
  <2>3. t \in States
    BY <1>1, <2>2, StateFacts, QueueKeys
  <2> QED BY <2>2, <2>3 DEF P
<1> HIDE DEF P, t
<1>6. u \in States /\ Started(st, u, parts)
  BY <1>5, EmptiedIs DEF SameBut, Started
<1> HIDE DEF u
<1>7. ASSUME ordinaryReplaces
      PROVE  /\ Inv(u, coordsOf(parts.fetch), coordsOf(parts.expand), {})
             /\ \A i \in DOMAIN parts.fetch : AtNode(t, parts.fetch[i])
  <2>1. Inv(st, {}, {}, {}) /\ Placed(st) /\ InLine(st)
    BY <1>1, <1>7 DEF GoodWave, Inv
  <2>2. PartsOf(st, parts) /\ \A i \in DOMAIN st.queue : InParts(st, parts, st.queue[i])
    BY <1>1, <1>7, <2>1, PartitionIs DEF parts
  <2>3. Inv(u, coordsOf(parts.fetch), coordsOf(parts.expand), {})
    BY <1>1, <1>6, <1>7, <2>1, <2>2, StartKeeps
  <2>4. \A i \in DOMAIN parts.fetch : AtNode(t, parts.fetch[i])
    BY <1>5, <2>2 DEF PartsOf, AtNode
  <2> QED BY <2>3, <2>4
<1>8. GoodFetch(t, parts.fetch, parts.expand)
  BY <1>1, <1>5, <1>7 DEF GoodFetch, GoodWave, u
<1>9. GoodFetch(st, toFetch, toExpand)'
  BY <1>2, <1>8, PhasesStand
<1>10. IsWorld(world)' /\ DOMAIN results' = {}
  BY <1>1, <1>2
<1>11. StateInv'
  BY <1>1, <1>2, <1>3, <1>4, <1>5, <1>10 DEF StateInv
<1> QED BY <1>2, <1>9, <1>11 DEF ResolverInv, PhaseInv

(* Folding a level keeps the invariant: results first, then the            *)
(* expansions.                                                             *)
LEMMA LevelHolds == ResolverInv /\ FoldLevel => ResolverInv'
<1> SUFFICES ASSUME ResolverInv, FoldLevel PROVE ResolverInv'
  OBVIOUS
<1> DEFINE s == emptied(st)
           t == applyResults(s)
           u == expands(t, toExpand)
<1>1. /\ IsWorld(world) /\ GoodFetch(st, toFetch, toExpand) /\ st \in States /\ faults \in 0..MaxFaults
      /\ toExpand \in Seq(Task) /\ \A i \in DOMAIN toFetch : toFetch[i].key \in DOMAIN st.nodes
  BY DEF ResolverInv, StateInv, PhaseInv, FoldLevel
<1>2. LevelTyped
  BY DEF ResolverInv, StateInv, FoldLevel, LevelTyped
<1>3. /\ phase' = "wave" /\ toFetch' = <<>> /\ toExpand' = <<>> /\ results' = <<>>
      /\ world' = world /\ faults' = faults /\ st' = u
  BY DEF FoldLevel, foldLevel, expands, emptied
<1>4. s \in States /\ SameBut(st, s) /\ s.partial = st.partial
  BY <1>1, EmptiedIs
<1> HIDE DEF s
<1>5. \A i \in DOMAIN toFetch : toFetch[i].key \in DOMAIN s.nodes
  BY <1>1, <1>4 DEF SameBut
<1>6. t \in States
  BY <1>2, <1>4, <1>5, ApplyTypedResults
<1>7. u \in States
  <2> HIDE DEF t
  <2> QED BY <1>1, <1>6, ExpandsTyped
<1>8. world.kind = "project" => u.partial # {}
  <2> SUFFICES ASSUME world.kind = "project" PROVE u.partial # {}
    OBVIOUS
  <2>1. s \in Marked
    BY <1>1, <1>4 DEF GoodFetch, Marked
  <2>2. t \in Marked
    BY <1>2, <1>5, <2>1, ApplyMarks
  <2> HIDE DEF t
  <2>3. u \in Marked
    BY <1>1, <2>2, ExpandsMark
  <2> QED BY <2>3 DEF Marked
<1>9. ASSUME ordinaryReplaces PROVE Inv(u, {}, {}, {})
  <2>1. Inv(s, coordsOf(toFetch), coordsOf(toExpand), {})
    BY <1>1, <1>9 DEF GoodFetch, s
  <2>2. \A i \in DOMAIN toFetch : AtNode(s, toFetch[i])
    BY <1>1, <1>4, <1>9 DEF GoodFetch, AtNode, SameBut
  <2>3. Inv(t, {}, coordsOf(toExpand), {})
    BY <1>1, <1>2, <1>9, <2>1, <2>2, ApplyKeeps
  <2> HIDE DEF t
  <2> QED BY <1>1, <1>9, <2>3, ExpandsKeep
<1> HIDE DEF u
<1>10. GoodWave(u)
  BY <1>1, <1>7, <1>8, <1>9 DEF GoodWave, GoodFetch
<1> QED BY <1>1, <1>3, <1>10, ToWave

(* Folding the list's results keeps the invariant.                         *)
LEMMA ListHolds == ResolverInv /\ FoldBuildList => ResolverInv'
<1> SUFFICES ASSUME ResolverInv, FoldBuildList PROVE ResolverInv'
  OBVIOUS
<1> DEFINE s == appendBuildListEdges(applyResults(st))
<1>1. IsWorld(world) /\ Listing(st, toFetch) /\ faults \in 0..MaxFaults
  BY DEF ResolverInv, StateInv, PhaseInv, FoldBuildList
<1>2. LevelTyped
  BY DEF ResolverInv, StateInv, FoldBuildList, LevelTyped
<1>3. Finish(s) /\ UNCHANGED <<world, cancelled, faults>>
  BY DEF FoldBuildList
<1>4. FinalList(s)
  BY <1>1, <1>2, ListEnds
<1> HIDE DEF s
<1>5. s \in States /\ Final(s)
  BY <1>4 DEF FinalList, Final
<1> QED BY <1>1, <1>3, <1>5, Finished

(* Leaving the levels, at their end or cancelled, keeps the invariant.     *)
LEMMA EndHolds == ResolverInv /\ EndWaves => ResolverInv'
<1> SUFFICES ASSUME ResolverInv, EndWaves PROVE ResolverInv'
  OBVIOUS
<1> DEFINE s == repinEdgesToSelected(cutShort(st))
<1>1. IsWorld(world) /\ GoodWave(st) /\ st \in States /\ faults \in 0..MaxFaults
  BY DEF ResolverInv, StateInv, PhaseInv, EndWaves
<1>2. Finish(s) /\ UNCHANGED <<world, cancelled, faults>>
  BY DEF EndWaves, cutShort
<1>3. s \in States
  BY <1>1, RepinShape
<1>4. Final(s)
  BY <1>1 DEF Final, FinalLevels
<1> HIDE DEF s
<1> QED BY <1>1, <1>2, <1>3, <1>4, Finished

(* A cancellation, and a step that changes nothing, keep the invariant.    *)
LEMMA StandsHolds ==
    ASSUME ResolverInv, UNCHANGED <<world, phase, st, toFetch, toExpand, results, graph, faults>>
    PROVE  ResolverInv'
<1>1. StateInv /\ PhaseInv
  BY DEF ResolverInv
<1>2. StateInv'
  BY <1>1 DEF StateInv
<1>3. /\ phase' = "start" => st' = emptyState'
      /\ phase' = "wave" => GoodWave(st)'
      /\ phase' = "fetch" => GoodFetch(st, toFetch, toExpand)'
      /\ phase' = "list" => Listing(st, toFetch)'
      /\ phase' = "done" => Drained(st, graph)' /\ Final(st)'
  BY <1>1, PhasesStand, ReadFromWorld DEF PhaseInv
<1> QED BY <1>2, <1>3 DEF ResolverInv, PhaseInv

(* Every state of every resolution satisfies the inductive invariant: what *)
(* the levels have selected, queued, fetched and expanded never falls      *)
(* apart, in whatever order the pool fetches, fails or is cancelled        *)
(* (resolveFromParsed, resolveFromBuildList).                              *)
THEOREM ResolverInductive == ResolverSpec => []ResolverInv
<1>1. ResolverInv /\ [ResolverNext]_resolverVars => ResolverInv'
  <2> SUFFICES ASSUME ResolverInv, [ResolverNext]_resolverVars PROVE ResolverInv'
    OBVIOUS
  <2>1. CASE ResolverStep
    BY <2>1, ResolveHolds, ShallowHolds, FallbackHolds, BuildListHolds, FailsHolds, StartHolds,
       LevelHolds, ListHolds, EndHolds, FetchHolds DEF ResolverStep
  <2>2. CASE Cancel
    BY <2>2, StandsHolds DEF Cancel
  <2>3. CASE UNCHANGED resolverVars
    BY <2>3, StandsHolds DEF resolverVars
  <2> QED BY <2>1, <2>2, <2>3 DEF ResolverNext, Ended
<1> QED BY <1>1, InitHolds, PTL DEF ResolverSpec

---------------------------------------------------------------------------
(* What the invariant says of the graph.                                   *)
LEMMA TypeHolds == ResolverInv => ResolverTypeOK
<1> SUFFICES ASSUME StateInv PROVE ResolverTypeOK
  BY DEF ResolverInv
<1>1. /\ IsWorld(world) /\ st \in States /\ DOMAIN results \subseteq DOMAIN toFetch
      /\ faults \in 0..MaxFaults
      /\ phase \in {"start", "wave", "fetch", "list", "done", "failed"}
  BY DEF StateInv
<1>2. /\ \A p \in DOMAIN st.nodes : p \in Paths /\ st.nodes[p] \in NodeType
      /\ \A p \in DOMAIN st.selected : st.selected[p] \in 0..MaxVersion
      /\ st.edges \subseteq EdgeType /\ st.partial \subseteq Reasons
  BY <1>1, StateFacts
<1> QED BY <1>1, <1>2 DEF ResolverTypeOK

(* A returned graph was drained from a shallow state, from the toolchain's *)
(* list or from repinned levels.                                           *)
LEMMA FinalIs ==
    ASSUME ResolverInv, phase = "done"
    PROVE  /\ IsWorld(world) /\ Drained(st, graph)
           /\ FinalShallow(st) \/ FinalList(st) \/ \E s0 : GoodWave(s0) /\ Repinned(s0, st)
<1>1. IsWorld(world) /\ Drained(st, graph) /\ Final(st)
  BY DEF ResolverInv, StateInv, PhaseInv
<1>2. FinalLevels(st) => \E s0 : GoodWave(s0) /\ Repinned(s0, st)
  <2> SUFFICES ASSUME NEW s0, GoodWave(s0), st = repinEdgesToSelected(cutShort(s0))
               PROVE  Repinned(s0, st)
    BY DEF FinalLevels
  <2>1. s0 \in States
    BY DEF GoodWave
  <2> QED BY <2>1, RepinShape
<1> QED BY <1>1, <1>2 DEF Final

(* The invariant gives GraphIsSelected.                                    *)
LEMMA SelectedHolds == ResolverInv => GraphIsSelected
<1> SUFFICES ASSUME ResolverInv PROVE GraphIsSelected
  OBVIOUS
<1>1. ResolverTypeOK
  BY TypeHolds
<1>2. NodesAreFetched
  <2> SUFFICES ASSUME phase = "done", world.kind # "shallow", ordinaryReplaces,
                      "cancelled" \notin graph.partial,
                      NEW n \in graph.nodes, n.source \in {"mvs", "replace"}
               PROVE  n.coord \in st.parsed \/ (n.coord \in forks /\ graph.partial \cap failures # {})
    BY DEF NodesAreFetched
  <2>1. CASE FinalList(st)
    BY <2>1, FinalIs, ListFetched
  <2>2. ASSUME NEW s0, GoodWave(s0), Repinned(s0, st)
        PROVE  n.coord \in st.parsed \/ (n.coord \in forks /\ graph.partial \cap failures # {})
    BY <2>2, FinalIs, LevelsFetched
  <2> QED BY <2>1, <2>2, FinalIs DEF FinalShallow
<1>3. NodesFollowSelection
  <2> SUFFICES ASSUME byLevels, ordinaryReplaces, NEW p \in DOMAIN st.nodes
               PROVE  LET o == applyReplace(<<p, st.selected[p]>>)
                      IN  st.nodes[p].coord = o.to /\ st.nodes[p].original = o.original
    BY DEF NodesFollowSelection
  <2>1. PICK s0 : GoodWave(s0) /\ Repinned(s0, st)
    BY FinalIs DEF byLevels, FinalShallow, FinalList
  <2> QED BY <2>1, FinalIs, LevelsSelected DEF byLevels
<1>4. SelectedIsTheMaximum
  <2> SUFFICES ASSUME byLevels, ordinaryReplaces, ~st.truncated,
                      NEW n \in graph.nodes, n.original = NoCoord, n.coord # TargetCoord
               PROVE  LET asked == {e.constraint : e \in {x \in st.edges : x.to = n.coord}}
                      IN  n.coord[2] \in asked /\ \A v \in asked : v <= n.coord[2]
    BY DEF SelectedIsTheMaximum
  <2>1. PICK s0 : GoodWave(s0) /\ Repinned(s0, st)
    BY FinalIs DEF byLevels, FinalShallow, FinalList
  <2> QED BY <2>1, FinalIs, LevelsMaximum DEF byLevels
<1> QED BY <1>1, <1>2, <1>3, <1>4 DEF GraphIsSelected

(* The invariant gives EdgesEndAtNodes.                                    *)
LEMMA EdgesHold == ResolverInv => EdgesEndAtNodes
<1> SUFFICES ASSUME ResolverInv, phase = "done", ordinaryReplaces,
                    world.kind = "shallow" => requiredOnce, NEW e \in graph.edges
             PROVE  \/ \E n \in graph.nodes : n.coord = e.to
                    \/ world.scope # Paths /\ e.to[1] \in forkPaths(graph)
  BY DEF EdgesEndAtNodes
<1>1. EdgesEnd(st)
  <2>1. ASSUME NEW s0, GoodWave(s0), Repinned(s0, st) PROVE EdgesEnd(st)
    BY <2>1, FinalIs, LevelsEnd
  <2> QED BY <2>1, FinalIs DEF FinalShallow, FinalList
<1> QED BY <1>1, FinalIs, DrainedFacts

(* The invariant gives PathsAreFollowed.                                   *)
LEMMA PathsHold == ResolverInv => PathsAreFollowed
<1> SUFFICES ASSUME ResolverInv, whole, byLevels, ordinaryReplaces
             PROVE  RootsAreFollowed /\ WorthyPathsAreFollowed
  BY DEF PathsAreFollowed, RootsAreFollowed, WorthyPathsAreFollowed
<1>1. PICK s0 : GoodWave(s0) /\ Repinned(s0, st)
  BY FinalIs DEF byLevels, FinalShallow, FinalList
<1>2. IsWorld(world) /\ Drained(st, graph) /\ graph.partial = {}
  BY FinalIs DEF byLevels, whole
<1>3. ASSUME NEW c \in st.expandedKeys \cap st.parsed,
             NEW r \in ToSet(filterRequires(goMod(c).requires))
      PROVE  \/ isExcluded(applyReplace(r.coord).to)
             \/ /\ r.coord[1] \in DOMAIN st.nodes
                /\ goMod(c).prePruning =>
                     \/ applyReplace(r.coord).source = "local_replace"
                     \/ \E v \in r.coord[2]..st.selected[r.coord[1]] :
                          applyReplace(<<r.coord[1], v>>).to \in st.expandedKeys
  BY <1>1, <1>2, LevelsFollowed
<1>4. RootsAreFollowed
  <2> SUFFICES ASSUME NEW p \in roots \cap DOMAIN st.nodes, st.nodes[p].source \in {"mvs", "replace"},
                      NEW r \in ToSet(filterRequires(goMod(st.nodes[p].coord).requires))
               PROVE  isExcluded(applyReplace(r.coord).to) \/ r.coord[1] \in DOMAIN st.nodes
    BY DEF RootsAreFollowed
  <2>1. st.nodes[p].coord \in st.expandedKeys \cap st.parsed
    BY <1>1, <1>2, LevelsRoots
  <2> QED BY <1>3, <2>1
<1>5. WorthyPathsAreFollowed
  BY <1>3 DEF WorthyPathsAreFollowed
<1> QED BY <1>4, <1>5

(* The invariant gives ScopeIsFetched.                                     *)
LEMMA ScopeHolds == ResolverInv => ScopeIsFetched
<1> SUFFICES ASSUME ResolverInv, phase = "done", world.kind = "project", st.expandedKeys = {},
                    graph.partial = {}, ordinaryReplaces, forksDiffer
             PROVE  {n.coord : n \in {m \in graph.nodes : m.source \in {"mvs", "replace"}}} = st.parsed
  BY DEF ScopeIsFetched
<1>1. IsWorld(world) /\ Drained(st, graph)
  BY FinalIs
<1>2. ASSUME NEW s0, GoodWave(s0), Repinned(s0, st) PROVE FALSE
  <2>1. s0.partial # {} /\ s0.partial \subseteq st.partial
    BY <1>2 DEF GoodWave, Repinned
  <2>2. st.partial \subseteq graph.partial
    BY <1>1, DrainedFacts
  <2> QED BY <2>1, <2>2
<1>3. FinalList(st)
  BY <1>2, FinalIs DEF FinalShallow
<1> QED BY <1>1, <1>3, ListScope

(* The resolver keeps well-typed nodes, edges, selections and reasons, for *)
(* every set of worlds, pool size and number of failures (resolveState).   *)
THEOREM ResolverTyped == ResolverSpec => []ResolverTypeOK
  BY ResolverInductive, TypeHolds, PTL

(* For every world: the nodes of the returned graph are what minimal       *)
(* version selection settles on (the highest version asked for, replaced   *)
(* as the target says) and were fetched, in whatever order levels, raises  *)
(* and fetches arrived (enqueueTransitive, partitionWave,                  *)
(* applyFetchParse).                                                       *)
THEOREM TheGraphIsSelected == ResolverSpec => []GraphIsSelected
  BY ResolverInductive, SelectedHolds, PTL

(* For every world: an edge of the returned graph ends at one of its       *)
(* nodes, after versions were raised, nodes shared a coordinate and a      *)
(* scope cut the graph (repinEdgesToSelected, drainNodes,                  *)
(* FilterGraphToScope).                                                    *)
THEOREM TheEdgesEndAtNodes == ResolverSpec => []EdgesEndAtNodes
  BY ResolverInductive, EdgesHold, PTL

(* For every world: in a graph that claims to be whole no root and no path *)
(* through a pre-pruning module is left unfollowed because another path    *)
(* reached the module first (enqueueTransitive, reExpand).                 *)
THEOREM ThePathsAreFollowed == ResolverSpec => []PathsAreFollowed
  BY ResolverInductive, PathsHold, PTL

(* For every world: of a project the toolchain lists exactly the modules   *)
(* the scope retains are fetched (inFetchScope, FilterGraphToScope).       *)
THEOREM TheScopeIsFetched == ResolverSpec => []ScopeIsFetched
  BY ResolverInductive, ScopeHolds, PTL
=============================================================================
