----------------------------- MODULE WalkLedger -----------------------------
(***************************************************************************)
(* The stored walks of ONE target and scope, and the processes that walk   *)
(* it: ExecuteWalkUseCase.Execute (internal/walk/application/              *)
(* executewalk.go), the verdict Walker.Walk reaches (walker.go) and the    *)
(* walks table (internal/walk/adapters/walks/sqlite).  A walk is served    *)
(* from the store, recognised as one already stored (its identity), written *)
(* over the partial walk it resumes, or written under a new id.            *)
(*                                                                         *)
(* A step is the code between two accesses to the store.  What a walk      *)
(* finds -- which fetches fail, whether the graph is whole -- is the       *)
(* environment's choice; resolution itself is abstracted to that finding.  *)
(***************************************************************************)
EXTENDS Naturals, Sequences, FiniteSets

CONSTANTS Procs,     \* kanonarion processes sharing one store
          Requests,  \* the walks they may be asked for
          Findings,  \* what a walk may find
          Inputs,    \* contents of the project's working tree
          MaxWalks   \* bound: walks performed in one behaviour

Depths == {"full", "shallow"}
Statuses == {"Succeeded", "Partial", "Failed", "Cancelled"}

(* WalkRequest, with the pipeline version of the build that runs it.       *)
RequestType == [force : BOOLEAN, depth : Depths, build : Nat]

(* What a walk finds: whether the target was fetched (for a project: its   *)
(* go.mod parsed), the statuses of the other nodes, whether a requested    *)
(* ingest of the project root happened, and what the graph says of itself. *)
FindingType == [target : BOOLEAN,
                nodes : SUBSET {"Succeeded", "LocalReplace", "FetchFailed", "InternalPanic"},
                ingested : BOOLEAN,
                graph : {"whole", "shallow", "reason", "noreason", "unresolved"}]

ASSUME RequestsAssumption == Requests \subseteq RequestType /\ Requests # {}
ASSUME FindingsAssumption == Findings \subseteq FindingType
ASSUME MaxWalksAssumption == MaxWalks \in Nat
ASSUME ProcsAssumption == IsFiniteSet(Procs)

VARIABLES rows,     \* the walks table
          events,   \* walk_completed lines of the audit log
          clock,    \* walks started so far
          project,  \* the target is the local main module, not a published one
          input,    \* its working tree
          pc, req, ctx,
          hit,      \* the id a summary named, read back in a later step
          id,       \* the id this run writes under
          rec,      \* the walk this run performed
          result,   \* what Execute returned
          forced    \* history: the measurements --force asked for

vars == <<rows, events, clock, project, input, pc, req, ctx, hit, id,
          rec, result, forced>>
store == <<rows, events>>
world == <<clock, project, input, forced>>
locals == <<req, ctx, hit, id, rec>>

NoId == 0
(* at is started_at; distinct walks start at distinct times here.          *)
WalkRecord == [id : Nat, at : Nat, depth : Depths, build : Nat, input : Inputs \cup {"fixed"},
               finding : FindingType, status : Statuses]
NoRec == [id |-> NoId, at |-> 0, depth |-> "full", build |-> 0, input |-> "fixed",
          finding |-> [target |-> FALSE, nodes |-> {}, ingested |-> FALSE,
                       graph |-> "unresolved"],
          status |-> "Failed"]

(* IdentityHash: everything but the run's own id and times.                *)
IdentityHash(r) == <<r.depth, r.build, r.input, r.finding, r.status>>

(* ListWalks, newest start first, limit 1.                                 *)
Latest(rs) == CHOOSE r \in rs : \A s \in rs : s.at <= r.at
Get(i) == CHOOSE r \in rows : r.id = i

(* ulid.New: an id nobody has.                                             *)
UsedIds == {r.id : r \in rows \cup events} \cup {id[p] : p \in Procs}
FreshId == CHOOSE i \in 1 .. Cardinality(UsedIds) + 1 : i \notin UsedIds

Result(how, r) == [how |-> how, rec |-> r]
NoResult == Result("none", NoRec)

Init ==
    /\ rows = {} /\ events = {}
    /\ clock = 0
    /\ project \in BOOLEAN
    /\ input \in Inputs
    /\ pc = [p \in Procs |-> "idle"]
    /\ req = [p \in Procs |-> CHOOSE q \in Requests : TRUE]
    /\ ctx = [p \in Procs |-> "live"]
    /\ hit = [p \in Procs |-> NoId]
    /\ id = [p \in Procs |-> NoId]
    /\ rec = [p \in Procs |-> NoRec]
    /\ result = [p \in Procs |-> NoResult]
    /\ forced = {}

Goto(p, place) == pc' = [pc EXCEPT ![p] = place]
Return(p, how, r) ==
    /\ Goto(p, "idle")
    /\ result' = [result EXCEPT ![p] = Result(how, r)]

(* A read fails on a cancelled context; every caller here then goes on as  *)
(* if there were no row.                                                   *)
Readable(p) == IF ctx[p] = "live" THEN rows ELSE {}

-----------------------------------------------------------------------------
(* The verdict of a walk.                                                  *)

targetFailureStatus(cancelled) == IF cancelled THEN "Cancelled" ELSE "Failed"

aggregateStatus(cancelled, f) ==
    IF cancelled THEN "Cancelled"
    ELSE IF ~f.target THEN "Failed"
    ELSE IF f.nodes \subseteq {"Succeeded", "LocalReplace"} THEN "Succeeded"
    ELSE "Partial"

degradeForRootIngest(status, f) ==
    IF ~f.ingested /\ status = "Succeeded" THEN "Partial" ELSE status

(* "shallow" is the one exempt reason; none at all excuses nothing.        *)
degradeForIncompleteGraph(status, f) ==
    IF status = "Succeeded" /\ f.graph \in {"reason", "noreason"} THEN "Partial" ELSE status

(* Walker.Walk: a shallow walk asks only for its target and its graph; a   *)
(* full one whose target cannot be read, or whose resolution stops, ends   *)
(* there.                                                                  *)
WalkStatus(depth, cancelled, f) ==
    IF ~f.target THEN targetFailureStatus(cancelled)
    ELSE IF depth = "shallow"
    THEN IF f.graph = "unresolved" THEN "Failed" ELSE "Succeeded"
    ELSE IF f.graph = "unresolved" THEN "Cancelled"
    ELSE degradeForIncompleteGraph(
           degradeForRootIngest(aggregateStatus(cancelled, f), f), f)

(* The findings a walk of this depth can come to.  A shallow walk has no   *)
(* other node; a full walk's resolution stops only on cancellation; only a *)
(* project has a root to ingest.                                           *)
CanFind(depth, cancelled, f) ==
    IF depth = "shallow"
    THEN f.nodes = {} /\ f.ingested /\ f.graph \in {"shallow", "unresolved"}
    ELSE /\ f.graph # "shallow"
         /\ ~f.ingested => project
         /\ f.graph = "unresolved" => cancelled \/ ~f.target

-----------------------------------------------------------------------------
(* Execute.                                                                *)

Begin(p) ==
    /\ pc[p] = "idle"
    /\ clock < MaxWalks
    /\ \E q \in Requests : req' = [req EXCEPT ![p] = q]
    /\ ctx' = [ctx EXCEPT ![p] = "live"]
    /\ result' = [result EXCEPT ![p] = NoResult]
    /\ hit' = [hit EXCEPT ![p] = NoId]
    /\ id' = [id EXCEPT ![p] = NoId]
    /\ rec' = [rec EXCEPT ![p] = NoRec]
    /\ Goto(p, "cache")
    /\ UNCHANGED <<store, world>>

(* Mutant: a shallow walk satisfies a request for a full one.              *)
CacheUsable_AnyDepth(q, r) == ~project /\ ~q.force /\ r.status = "Succeeded"

CacheUsable(q, r) ==
    /\ ~project /\ ~q.force
    /\ r.status = "Succeeded"
    /\ q.depth = "shallow" \/ r.depth # "shallow"

(* cachedWalk: the summary of the latest walk ...                          *)
ListForCache(p) ==
    /\ pc[p] = "cache"
    /\ LET rs == Readable(p)
       IN IF rs # {} /\ CacheUsable(req[p], Latest(rs))
          THEN hit' = [hit EXCEPT ![p] = Latest(rs).id] /\ Goto(p, "get")
          ELSE UNCHANGED hit /\ Goto(p, "resolve")
    /\ UNCHANGED <<store, world, req, ctx, id, rec, result>>

(* ... and its record, served unless superseded graph logic resolved it.   *)
GetCached(p) ==
    /\ pc[p] = "get"
    /\ IF ctx[p] = "live" /\ Get(hit[p]).build = req[p].build
       THEN Return(p, "cache", Get(hit[p]))
       ELSE Goto(p, "resolve") /\ UNCHANGED result
    /\ UNCHANGED <<store, world, locals>>

(* resolveWalkID: an unfinished latest walk is resumed, whatever its depth. *)
ResolveWalkID(p) ==
    /\ pc[p] = "resolve"
    /\ LET rs == Readable(p)
       IN IF rs # {} /\ Latest(rs).status \in {"Partial", "Cancelled"}
          THEN id' = [id EXCEPT ![p] = Latest(rs).id]
          ELSE id' = [id EXCEPT ![p] = FreshId]
    /\ Goto(p, "walk")
    /\ UNCHANGED <<store, world, req, ctx, hit, rec, result>>

(* Walk starts and, on a live context, takes its start time.               *)
StartWalk(p) ==
    /\ pc[p] = "walk"
    /\ IF ctx[p] = "cancelled"
       THEN Return(p, "error", NoRec) /\ UNCHANGED <<clock, rec, forced>>
       ELSE /\ clock < MaxWalks
            /\ clock' = clock + 1
            /\ rec' = [rec EXCEPT ![p] =
                        [NoRec EXCEPT !.id = id[p], !.at = clock + 1,
                                      !.depth = req[p].depth, !.build = req[p].build,
                                      !.input = IF project THEN input ELSE "fixed"]]
            /\ forced' = IF req[p].force THEN forced \cup {clock + 1} ELSE forced
            /\ Goto(p, "walking")
            /\ UNCHANGED result
    /\ UNCHANGED <<store, project, input, req, ctx, hit, id>>

(* A walk that resolved no graph records neither the tree it read nor the  *)
(* logic that would have resolved it: both are named by the graph.         *)
Resolved(r, f) ==
    IF f.graph = "unresolved" THEN [r EXCEPT !.input = NoRec.input, !.build = NoRec.build] ELSE r

EndWalk(p) ==
    LET cancelled == ctx[p] = "cancelled"
    IN /\ pc[p] = "walking"
       /\ \E f \in Findings :
            /\ CanFind(req[p].depth, cancelled, f)
            /\ rec' = [rec EXCEPT ![p] =
                        [Resolved(@, f) EXCEPT !.finding = f,
                             !.status = WalkStatus(req[p].depth, cancelled, f)]]
       /\ Goto(p, "recognise")
       /\ UNCHANGED <<store, world, req, ctx, hit, id, result>>

(* Mutant: only the latest walk is compared.                               *)
SameAnalysis_Latest(rs, r) ==
    {s \in rs : s = Latest(rs) /\ IdentityHash(s) = IdentityHash(r)}

SameAnalysis(rs, r) == {s \in rs : IdentityHash(s) = IdentityHash(r)}

(* reusableWalk: the latest row of the same identity, unless it is the row *)
(* being resumed ...                                                       *)
Recognise(p) ==
    /\ pc[p] = "recognise"
    /\ LET same == SameAnalysis(Readable(p), rec[p])
       IN IF ~req[p].force /\ same # {} /\ Latest(same).id # id[p]
          THEN hit' = [hit EXCEPT ![p] = Latest(same).id] /\ Goto(p, "reuse")
          ELSE UNCHANGED hit /\ Goto(p, "put")
    /\ UNCHANGED <<store, world, req, ctx, id, rec, result>>

(* ... read back and returned in place of this run's walk.                 *)
Reuse(p) ==
    /\ pc[p] = "reuse"
    /\ IF ctx[p] = "live" THEN Return(p, "identity", Get(hit[p]))
       ELSE Goto(p, "put") /\ UNCHANGED result
    /\ UNCHANGED <<store, world, locals>>

Stored(rs, r) == {s \in rs : s.id # r.id} \cup {r}

(* PutWalk, an upsert on the id, made with the run's own context.          *)
PutWalk(p) ==
    /\ pc[p] = "put"
    /\ ctx[p] = "live"
    /\ rows' = Stored(rows, rec[p])
    /\ Goto(p, "emit")
    /\ UNCHANGED <<events, world, locals, result>>

(* Mutant: a failed write is noticed by nobody.                            *)
PutWalkFails_Ignored(p) ==
    /\ pc[p] = "put"
    /\ Goto(p, "emit")
    /\ UNCHANGED <<store, world, locals, result>>

PutWalkFails(p) ==
    /\ pc[p] = "put"
    /\ Return(p, "error", NoRec)
    /\ UNCHANGED <<store, world, locals>>

(* emitWalkCompleted: a successful walk is anchored in the log.            *)
EmitWalkCompleted(p) ==
    /\ pc[p] = "emit"
    /\ IF rec[p].status = "Succeeded" THEN events' = events \cup {rec[p]} ELSE UNCHANGED events
    /\ Return(p, "fresh", rec[p])
    /\ UNCHANGED <<rows, world, locals>>

EmitFails(p) ==
    /\ pc[p] = "emit"
    /\ rec[p].status = "Succeeded"
    /\ Return(p, "error", NoRec)
    /\ UNCHANGED <<store, world, locals>>

(* The process is killed; nothing is returned.                             *)
Kill(p) ==
    /\ pc[p] # "idle"
    /\ Goto(p, "idle")
    /\ UNCHANGED <<store, world, locals, result>>

Cancel(p) ==
    /\ pc[p] # "idle"
    /\ ctx[p] = "live"
    /\ ctx' = [ctx EXCEPT ![p] = "cancelled"]
    /\ UNCHANGED <<store, world, pc, req, hit, id, rec, result>>

(* The operator edits the working tree.                                    *)
Edit ==
    /\ project
    /\ \E i \in Inputs \ {input} : input' = i
    /\ UNCHANGED <<store, clock, project, forced, pc, locals, result>>

Step(p) ==
    \/ Begin(p) \/ ListForCache(p) \/ GetCached(p) \/ ResolveWalkID(p)
    \/ StartWalk(p) \/ EndWalk(p) \/ Recognise(p) \/ Reuse(p)
    \/ PutWalk(p) \/ PutWalkFails(p) \/ EmitWalkCompleted(p) \/ EmitFails(p)
    \/ Kill(p) \/ Cancel(p)

Next == (\E p \in Procs : Step(p)) \/ Edit

Spec == Init /\ [][Next]_vars

-----------------------------------------------------------------------------
(* Properties.                                                             *)

TypeOK ==
    /\ rows \subseteq WalkRecord /\ events \subseteq rows \cup WalkRecord
    /\ clock \in 0 .. MaxWalks /\ project \in BOOLEAN /\ input \in Inputs
    /\ pc \in [Procs -> {"idle", "cache", "get", "resolve", "walk", "walking",
                         "recognise", "reuse", "put", "emit"}]
    /\ req \in [Procs -> Requests] /\ ctx \in [Procs -> {"live", "cancelled"}]
    /\ hit \in [Procs -> Nat] /\ id \in [Procs -> Nat]
    /\ rec \in [Procs -> WalkRecord]
    /\ result \in [Procs -> [how : {"none", "cache", "identity", "fresh", "error"},
                             rec : WalkRecord]]
    /\ forced \subseteq 1 .. clock

Whole(f) == /\ f.target /\ f.nodes \subseteq {"Succeeded", "LocalReplace"}
            /\ f.ingested /\ f.graph = "whole"

(* A walk stored as succeeded is the closure that was asked for: every     *)
(* module fetched, the root ingested if that was asked, the graph complete *)
(* -- or a shallow walk, which says so.                                    *)
SucceededIsWhole == \A r \in rows :
    r.status = "Succeeded" => Whole(r.finding) \/ r.depth = "shallow"

(* Nothing but a current, successful walk at least as deep as the request  *)
(* is served without walking, and never one for a working tree.            *)
CachedAnswerFits == \A p \in Procs :
    result[p].how = "cache" =>
        /\ result[p].rec.status = "Succeeded" /\ result[p].rec.input = "fixed"
        /\ req[p].depth = "full" => result[p].rec.depth = "full"
        /\ result[p].rec.build = req[p].build

(* A walk_completed line names a walk the store has: it was stored before  *)
(* it was logged, and no write takes an id away (Execute, PutWalk).        *)
AuditedWalkIsHeld == \A e \in events : \E r \in rows : r.id = e.id

(* An unchanged input keeps resolving to one walk: two stored walks of the *)
(* same analysis exist only when --force asked for another measurement.    *)
OneWalkPerAnalysis == \A r, s \in rows :
    r # s /\ IdentityHash(r) = IdentityHash(s) => r.at \in forced \/ s.at \in forced

(* A walk is handed back as "the same analysis" only if it is: the record  *)
(* read back has the identity of the walk this run performed.              *)
ReusedIsSameAnalysis == \A p \in Procs :
    result[p].how = "identity" => IdentityHash(result[p].rec) = IdentityHash(rec[p])

(* A walk that says it succeeded is whole, and only such a walk is served  *)
(* from the store for a request (cachedWalk, aggregateStatus).             *)
ServedWalksFit == TypeOK /\ SucceededIsWhole /\ CachedAnswerFits

(* Through any sequence of edits, failures, forced and resumed walks, walk *)
(* ids and analyses stay one to one (reusableWalk, resolveWalkID).         *)
IdentityIsKept == OneWalkPerAnalysis /\ ReusedIsSameAnalysis

-----------------------------------------------------------------------------
(* A statement of the repository that the code does not keep.              *)

(* walkrecord.go: a walk record is "an aggregate root: once written it is  *)
(* immutable".  Asked only of walks that succeeded and were logged: every  *)
(* walk_completed line names a walk the store still holds exactly as the   *)
(* line describes it.  Two processes that resume one partial walk break it *)
(* (resolveWalkID).                                                        *)
AuditedWalksStand == events \subseteq rows
=============================================================================
