------------------------- MODULE RecordingFetcher -------------------------
(***************************************************************************)
(* The single-flight wrapper every module fetch of one walk goes through   *)
(* (internal/walk/application/recording_fetcher.go).  The resolver's level *)
(* tasks call EnsureFetchedReplacing concurrently; the first caller for a  *)
(* coordinate leads the one real fetch, callers that overlap it wait on    *)
(* the lead's done channel, later callers read the recorded outcome.       *)
(*                                                                         *)
(* Every critical section under r.mu is one action; everything between two *)
(* critical sections is interleaved.  The inner fetcher may answer with    *)
(* any record, with an error or with a panic, and need not be              *)
(* deterministic: that two callers agree is the wrapper's own doing.       *)
(***************************************************************************)
EXTENDS Naturals, FiniteSets

CONSTANTS Callers,   \* goroutines of the walk (level tasks, the walker)
          Coords,    \* module coordinates
          Records,   \* what a successful inner fetch can hand back
          NoRecord   \* the zero CompositeRecord

ASSUME NoRecordAssumption == NoRecord \notin Records
ASSUME CoordsAssumption == IsFiniteSet(Coords)

VARIABLES outcomes,  \* r.outcomes: coordinate -> recorded outcome or Absent
          inflight,  \* r.inflight: coordinate -> lead or NoLead
          closed,    \* the leads whose done channel is closed
          leads,     \* number of inflightFetch values allocated so far
          pc,        \* where each caller is
          coord,     \* the coordinate each caller asked for last
          held,      \* the lead a caller waits on, or the one it owns
          out,       \* fetchAndRecord's local fetchOutcome
          done,      \* fetchAndRecord's local count of recorded outcomes
          returned,  \* what each caller's last call returned
          calls,     \* how often the inner fetcher was called per coordinate
          advanced,  \* the totals passed to progress.Advance
          stopped    \* the walk's context is done

vars == <<outcomes, inflight, closed, leads, pc, coord, held, out, done,
          returned, calls, advanced, stopped>>
shared == <<outcomes, inflight, closed, leads>>
locals == <<coord, held, out, done, returned>>

(* fetchOutcome: err distinguishes nil, a plain error and a *panicError.   *)
Outcome == [err : {"nil"}, record : Records \cup {NoRecord}]
           \cup [err : {"fetch_failed", "internal_panic"}, record : {NoRecord}]
ZeroOutcome == [err |-> "nil", record |-> NoRecord]
Absent == [err |-> "absent", record |-> NoRecord]
Interrupted == [err |-> "interrupted", record |-> NoRecord]

NoLead == 0
Lead == Nat \ {NoLead}

(* What the inner fetcher can make callWithRecover return: a record, an    *)
(* error, or a recovered panic.                                            *)
InnerResult == [err : {"nil"}, record : Records]
               \cup [err : {"fetch_failed", "internal_panic"}, record : {NoRecord}]

Recorded == {c \in Coords : outcomes[c] # Absent}

PC == {"idle", "lookup", "wait", "start", "fetching", "settle", "escape",
       "close", "closeEscaped", "report", "dead"}

Init ==
    /\ outcomes = [c \in Coords |-> Absent]
    /\ inflight = [c \in Coords |-> NoLead]
    /\ closed = {}
    /\ leads = 0
    /\ pc = [p \in Callers |-> "idle"]
    /\ coord \in [Callers -> Coords]
    /\ held = [p \in Callers |-> NoLead]
    /\ out = [p \in Callers |-> ZeroOutcome]
    /\ done = [p \in Callers |-> 0]
    /\ returned = [p \in Callers |-> Absent]
    /\ calls = [c \in Coords |-> 0]
    /\ advanced = {}
    /\ stopped = FALSE

Goto(p, label) == pc' = [pc EXCEPT ![p] = label]

(* A call is over, and its local variables with it.                        *)
DropLocals(p) ==
    /\ held' = [held EXCEPT ![p] = NoLead]
    /\ out' = [out EXCEPT ![p] = ZeroOutcome]
    /\ done' = [done EXCEPT ![p] = 0]

(* A task asks for a coordinate.                                           *)
EnsureFetched(p, c) ==
    /\ pc[p] = "idle"
    /\ Goto(p, "lookup")
    /\ coord' = [coord EXCEPT ![p] = c]
    /\ returned' = [returned EXCEPT ![p] = Absent]
    /\ UNCHANGED <<shared, held, out, done, calls, advanced, stopped>>

(* Locked: the outcome is recorded, hand it back.                          *)
ReturnRecorded(p) ==
    /\ pc[p] = "lookup"
    /\ outcomes[coord[p]] # Absent
    /\ returned' = [returned EXCEPT ![p] = outcomes[coord[p]]]
    /\ Goto(p, "idle") /\ DropLocals(p)
    /\ UNCHANGED <<shared, coord, calls, advanced, stopped>>

(* Locked: somebody is fetching it, wait on that lead's done channel.      *)
JoinInflight(p) ==
    /\ pc[p] = "lookup"
    /\ outcomes[coord[p]] = Absent
    /\ inflight[coord[p]] # NoLead
    /\ held' = [held EXCEPT ![p] = inflight[coord[p]]]
    /\ Goto(p, "wait")
    /\ UNCHANGED <<shared, coord, out, done, returned, calls, advanced, stopped>>

(* Mutant: the in-flight check is missing.                                 *)
BecomeLead_Unchecked(p) ==
    /\ pc[p] = "lookup"
    /\ outcomes[coord[p]] = Absent
    /\ leads' = leads + 1
    /\ inflight' = [inflight EXCEPT ![coord[p]] = leads']
    /\ held' = [held EXCEPT ![p] = leads']
    /\ out' = [out EXCEPT ![p] = ZeroOutcome]
    /\ Goto(p, "start")
    /\ UNCHANGED <<outcomes, closed, coord, done, returned, calls, advanced, stopped>>

(* Locked: nobody is fetching it, register a lead of our own.              *)
BecomeLead(p) ==
    /\ pc[p] = "lookup"
    /\ outcomes[coord[p]] = Absent
    /\ inflight[coord[p]] = NoLead
    /\ leads' = leads + 1
    /\ inflight' = [inflight EXCEPT ![coord[p]] = leads']
    /\ held' = [held EXCEPT ![p] = leads']
    /\ out' = [out EXCEPT ![p] = ZeroOutcome]
    /\ Goto(p, "start")
    /\ UNCHANGED <<outcomes, closed, coord, done, returned, calls, advanced, stopped>>

(* select: <-wait.done, go round the loop again.                           *)
WakeUp(p) ==
    /\ pc[p] = "wait"
    /\ held[p] \in closed
    /\ Goto(p, "lookup")
    /\ UNCHANGED <<shared, locals, calls, advanced, stopped>>

(* select: <-ctx.Done(), give up waiting.                                  *)
AbandonWait(p) ==
    /\ pc[p] = "wait"
    /\ stopped
    /\ returned' = [returned EXCEPT ![p] = Interrupted]
    /\ Goto(p, "idle") /\ DropLocals(p)
    /\ UNCHANGED <<shared, coord, calls, advanced, stopped>>

(* The stopwatch or the logger panics before the fetch: nothing recovers   *)
(* it, only the deferred settle stands between it and stranded waiters.    *)
PanicEscapes(p) ==
    /\ pc[p] = "start"
    /\ Goto(p, "escape")
    /\ UNCHANGED <<shared, locals, calls, advanced, stopped>>

CallInner(p) ==
    /\ pc[p] = "start"
    /\ calls' = [calls EXCEPT ![coord[p]] = @ + 1]
    /\ Goto(p, "fetching")
    /\ UNCHANGED <<shared, locals, advanced, stopped>>

(* callWithRecover returns; a panic of the inner fetcher is an error here. *)
InnerReturns(p) ==
    /\ pc[p] = "fetching"
    /\ \E o \in InnerResult : out' = [out EXCEPT ![p] = o]
    /\ Goto(p, "settle")
    /\ UNCHANGED <<shared, coord, held, done, returned, calls, advanced, stopped>>

(* Mutant: only a successful fetch is recorded.                            *)
Settle_SuccessOnly(p) ==
    /\ pc[p] \in {"settle", "escape"}
    /\ outcomes' = [outcomes EXCEPT ![coord[p]] =
                       IF @ = Absent /\ out[p].err = "nil" THEN out[p] ELSE @]
    /\ inflight' = [inflight EXCEPT ![coord[p]] = NoLead]
    /\ done' = [done EXCEPT ![p] = Cardinality(Recorded')]
    /\ Goto(p, IF pc[p] = "settle" THEN "close" ELSE "closeEscaped")
    /\ UNCHANGED <<closed, leads, coord, held, out, returned, calls, advanced, stopped>>

(* The locked half of settle, reached in line or from the deferred call.   *)
Settle(p) ==
    /\ pc[p] \in {"settle", "escape"}
    /\ outcomes' = [outcomes EXCEPT ![coord[p]] = IF @ = Absent THEN out[p] ELSE @]
    /\ inflight' = [inflight EXCEPT ![coord[p]] = NoLead]
    /\ done' = [done EXCEPT ![p] = Cardinality(Recorded')]
    /\ Goto(p, IF pc[p] = "settle" THEN "close" ELSE "closeEscaped")
    /\ UNCHANGED <<closed, leads, coord, held, out, returned, calls, advanced, stopped>>

(* Mutant: settle is called in line only, not deferred.                    *)
CloseDone_NotDeferred(p) ==
    /\ pc[p] \in {"close", "closeEscaped"}
    /\ closed' = IF pc[p] = "close" THEN closed \cup {held[p]} ELSE closed
    /\ Goto(p, IF pc[p] = "close" THEN "report" ELSE "dead")
    /\ UNCHANGED <<outcomes, inflight, leads, locals, calls, advanced, stopped>>

(* Mutant: the channel is looked up in the map it was just deleted from.   *)
CloseDone_ByCoordinate(p) ==
    /\ pc[p] \in {"close", "closeEscaped"}
    /\ closed' = closed \cup {inflight[coord[p]]}
    /\ Goto(p, IF pc[p] = "close" THEN "report" ELSE "dead")
    /\ UNCHANGED <<outcomes, inflight, leads, locals, calls, advanced, stopped>>

(* close(lead.done); an escaping panic then unwinds the goroutine.         *)
CloseDone(p) ==
    /\ pc[p] \in {"close", "closeEscaped"}
    /\ closed' = closed \cup {held[p]}
    /\ Goto(p, IF pc[p] = "close" THEN "report" ELSE "dead")
    /\ UNCHANGED <<outcomes, inflight, leads, locals, calls, advanced, stopped>>

(* progress.Advance(done), then the leader returns what it measured.       *)
ReportAndReturn(p) ==
    /\ pc[p] = "report"
    /\ advanced' = advanced \cup {done[p]}
    /\ returned' = [returned EXCEPT ![p] = out[p]]
    /\ Goto(p, "idle") /\ DropLocals(p)
    /\ UNCHANGED <<shared, coord, calls, stopped>>

(* The reporter or the closing log line panics after the outcome settled.  *)
ReportPanics(p) ==
    /\ pc[p] = "report"
    /\ Goto(p, "dead")
    /\ UNCHANGED <<shared, locals, calls, advanced, stopped>>

(* An interrupt ends the walk's context; it stays done.                    *)
Stop ==
    /\ ~stopped
    /\ stopped' = TRUE
    /\ UNCHANGED <<shared, pc, locals, calls, advanced>>

Step(p) ==
    \/ ReturnRecorded(p) \/ JoinInflight(p) \/ BecomeLead(p)
    \/ WakeUp(p) \/ AbandonWait(p)
    \/ CallInner(p) \/ InnerReturns(p)
    \/ Settle(p) \/ CloseDone(p) \/ ReportAndReturn(p)

Next ==
    \/ \E p \in Callers : \/ \E c \in Coords : EnsureFetched(p, c)
                          \/ Step(p)
                          \/ PanicEscapes(p)
                          \/ ReportPanics(p)
    \/ Stop

Spec == Init /\ [][Next]_vars

(* The Go scheduler runs every goroutine that can run, and an inner fetch  *)
(* returns (its transports carry timeouts).  Nothing obliges a task to     *)
(* ask, a panic to happen or an interrupt to arrive.                       *)
FairSpec == Spec /\ \A p \in Callers : WF_vars(Step(p))

---------------------------------------------------------------------------
TypeOK ==
    /\ outcomes \in [Coords -> Outcome \cup {Absent}]
    /\ inflight \in [Coords -> Nat]
    /\ closed \subseteq Lead
    /\ leads \in Nat
    /\ pc \in [Callers -> PC]
    /\ coord \in [Callers -> Coords]
    /\ held \in [Callers -> Nat]
    /\ out \in [Callers -> Outcome]
    /\ done \in [Callers -> Nat]
    /\ returned \in [Callers -> Outcome \cup {Absent, Interrupted}]
    /\ calls \in [Coords -> Nat]
    /\ advanced \subseteq Nat
    /\ stopped \in BOOLEAN

(* Each coordinate is fetched at most once through the wrapper, however    *)
(* many tasks overlap on it and whatever the fetch ends in.                *)
FetchedAtMostOnce == \A c \in Coords : calls[c] <= 1

(* Whoever asked - the leader, a waiter, a late caller, the walker reading *)
(* outcomeFor - is told the one recorded outcome; only a wait cut short by *)
(* the context says something else.                                        *)
CallersAgree ==
    \A p \in Callers :
        returned[p] \in {Absent, Interrupted, outcomes[coord[p]]}

(* A waiter that observes the close is guaranteed to find the outcome: it  *)
(* never becomes a second lead.                                            *)
ClosedMeansRecorded ==
    \A p \in Callers :
        pc[p] = "wait" /\ held[p] \in closed => outcomes[coord[p]] # Absent

(* No two fetched modules report the same running total.                   *)
TotalsAreDistinct ==
    \A p \in Callers : pc[p] = "report" =>
        /\ done[p] \notin advanced
        /\ \A q \in Callers \ {p} : pc[q] = "report" => done[q] # done[p]

(* A recorded outcome is final: the walker reads after resolution what the *)
(* resolver acted on during it.                                            *)
OutcomesAreFinal ==
    [][\A c \in Coords : outcomes[c] # Absent => outcomes'[c] = outcomes[c]]_vars

(* The wrapper implements FetchOnce: the recorded outcomes are the         *)
(* answers, and a goroutine a panic unwound is one that never hears back.  *)
Promise == INSTANCE FetchOnce
             WITH Answers <- Outcome, Undecided <- Absent, GaveUp <- Interrupted,
                  answer <- outcomes,
                  asking <- {p \in Callers : pc[p] # "idle"},
                  want <- coord, told <- returned, stopping <- stopped

(* Every step of the wrapper is a step of FetchOnce or invisible to it.    *)
ImplementsFetchOnce == Promise!Spec

(* Every call comes back, whether the fetch it waits for succeeds, fails,  *)
(* panics, or unwinds its goroutine: nobody waits on a lead for ever.      *)
NobodyStranded ==
    \A p \in Callers : pc[p] \in {"lookup", "wait"} ~> pc[p] \in {"idle", "start"}

(* Single flight: one inner fetch per coordinate, one outcome told to      *)
(* everybody, found by whoever the close releases, counted once.           *)
SingleFlight ==
    FetchedAtMostOnce /\ CallersAgree /\ ClosedMeansRecorded /\ TotalsAreDistinct
===========================================================================
