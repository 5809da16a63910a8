-------------------------- MODULE WalkLedgerProofs --------------------------
(***************************************************************************)
(* Proofs about WalkLedger, for any number of processes, walks, findings   *)
(* and edits.  However runs overlap, a walk stored as succeeded is whole   *)
(* and a logged walk has a row.  What is served and recognised is right    *)
(* while runs of a target do not overlap (NoOverlap): with two at once     *)
(* both may resume one partial walk, and it is not.                        *)
(***************************************************************************)
EXTENDS WalkLedger, FiniteSetTheorems, WellFoundedInduction, TLAPS

\* One run at a time; the processes may be many.
NoOverlap == \A p, q \in Procs : pc[p] # "idle" /\ pc[q] # "idle" => p = q

-----------------------------------------------------------------------------
(* The inductive invariant.                                                *)

Unfinished(r) == r.status \in {"Partial", "Cancelled"}
Sound(r) == r.status = "Succeeded" => Whole(r.finding) \/ r.depth = "shallow"

RowsAreKept ==
    /\ IsFiniteSet(rows) /\ IsFiniteSet(events)
    /\ \A r \in rows : r.at \in 1 .. clock /\ (~project => r.input = "fixed")
    /\ \A r, s \in rows : (r.id = s.id \/ r.at = s.at) => r = s

\* Only the latest walk can be unfinished: a later run resumes it.
UnfinishedIsLatest == \A r, s \in rows : Unfinished(r) => s.at <= r.at

\* The id a run writes under: the unfinished walk's, or a new one.
IdIsFree(p) ==
    /\ \A r \in rows : r.id = id[p] => Unfinished(r)
    /\ (\A r \in rows : r.id # id[p]) => \A r \in rows : ~Unfinished(r)

\* What a run measured, before it is judged and stored.
Measured(p) ==
    /\ rec[p].id = id[p] /\ rec[p].depth = req[p].depth /\ rec[p].at \in 1 .. clock
    /\ ~project => rec[p].input = "fixed"
    /\ \A r \in rows : r.at < rec[p].at
    /\ req[p].force => rec[p].at \in forced

Judged == {"recognise", "reuse", "put"}

\* A run that has not returned.
Running(p) ==
    /\ pc[p] # "idle" => result[p] = NoResult
    /\ pc[p] = "get" => \E r \in rows : r.id = hit[p] /\ CacheUsable(req[p], r)
    /\ pc[p] = "walk" /\ ctx[p] = "live" => IdIsFree(p)
    /\ pc[p] \in {"walking"} \cup Judged => IdIsFree(p) /\ Measured(p)
    /\ pc[p] \in Judged => Sound(rec[p])
    /\ pc[p] = "reuse" =>
         \E r \in rows : r.id = hit[p] /\ IdentityHash(r) = IdentityHash(rec[p])
    /\ pc[p] = "put" /\ ctx[p] = "live" /\ ~req[p].force =>
         \A r \in rows : IdentityHash(r) = IdentityHash(rec[p]) => r.id = id[p]

RunsAreSane == \A p \in Procs : Running(p)

IInv ==
    /\ TypeOK /\ RowsAreKept /\ UnfinishedIsLatest /\ RunsAreSane
    /\ SucceededIsWhole /\ CachedAnswerFits
    /\ OneWalkPerAnalysis /\ ReusedIsSameAnalysis

-----------------------------------------------------------------------------
(* Rows, ids and verdicts.                                                 *)

(* The empty record and what a failed run returns.                         *)
LEMMA NoRecFacts ==
    /\ NoRec \in WalkRecord /\ NoRec.input = "fixed" /\ NoRec.build = 0
    /\ NoResult \in [how : {"none", "cache", "identity", "fresh", "error"}, rec : WalkRecord]
    /\ NoResult.how = "none"
    /\ \A how \in {"none", "cache", "identity", "fresh", "error"}, r \in WalkRecord :
         /\ Result(how, r) \in [how : {"none", "cache", "identity", "fresh", "error"}, rec : WalkRecord]
         /\ Result(how, r).how = how /\ Result(how, r).rec = r
<1>1. NoRec \in WalkRecord /\ NoRec.input = "fixed" /\ NoRec.build = 0
  BY DEF NoRec, WalkRecord, FindingType, Depths, Statuses, NoId
<1> QED BY <1>1 DEF NoResult, Result

(* A record is its fields.                                                 *)
LEMMA RecordShape ==
    ASSUME NEW r \in WalkRecord
    PROVE  /\ r.id \in Nat /\ r.at \in Nat /\ r.depth \in Depths /\ r.build \in Nat
           /\ r.input \in Inputs \cup {"fixed"} /\ r.finding \in FindingType /\ r.status \in Statuses
           /\ r = [id |-> r.id, at |-> r.at, depth |-> r.depth, build |-> r.build,
                   input |-> r.input, finding |-> r.finding, status |-> r.status]
  BY DEF WalkRecord

(* ListWalks names a row, and none started later.                          *)
LEMMA LatestFacts ==
    ASSUME NEW rs, rs # {}, NEW c \in Nat, \A r \in rs : r.at \in 1 .. c
    PROVE  Latest(rs) \in rs /\ \A s \in rs : s.at <= Latest(rs).at
<1> DEFINE T == {c - r.at : r \in rs}
<1>1. T \subseteq Nat /\ T # {}
  OBVIOUS
<1>2. \E a \in T : \A b \in T : ~(<<b, a>> \in OpToRel(<, Nat))
  BY <1>1, WFMin, NatLessThanWellFounded
<1>3. PICK a \in T : \A b \in T : ~(<<b, a>> \in OpToRel(<, Nat))
  BY <1>2
<1>4. ASSUME NEW b \in T PROVE a <= b
  <2>1. a \in Nat /\ b \in Nat
    BY <1>1, <1>3, <1>4
  <2>2. ~(b < a)
    BY <1>3, <1>4, <2>1 DEF OpToRel
  <2> QED BY <2>1, <2>2
<1>5. PICK r \in rs : a = c - r.at
  BY <1>3
<1>6. ASSUME NEW s \in rs PROVE s.at <= r.at
  <2>1. c - s.at \in T
    OBVIOUS
  <2>2. a <= c - s.at
    BY <1>4, <2>1
  <2> QED BY <1>5, <2>2
<1> QED BY <1>6 DEF Latest

(* ulid.New gives an id that nobody has.                                   *)
LEMMA FreshIdFacts ==
    ASSUME IsFiniteSet(rows), IsFiniteSet(events)
    PROVE  /\ FreshId \in Nat
           /\ \A r \in rows : r.id # FreshId
<1>1. PICK R : R = rows \cup events /\ IsFiniteSet(R)
  BY FS_Union
<1>2. IsFiniteSet({r.id : r \in R})
  <2> DEFINE T == {r.id : r \in R}
             f == [r \in R |-> r.id]
  <2>1. f \in Surjection(R, T)
    BY DEF Surjection
  <2> QED BY <1>1, <2>1, FS_Surjection
<1>3. IsFiniteSet({id[p] : p \in Procs})
  <2> DEFINE T == {id[p] : p \in Procs}
             f == [p \in Procs |-> id[p]]
  <2>1. f \in Surjection(Procs, T)
    BY DEF Surjection
  <2> QED BY <2>1, ProcsAssumption, FS_Surjection
<1>4. PICK U : U = UsedIds /\ IsFiniteSet(U)
  BY <1>1, <1>2, <1>3, FS_Union DEF UsedIds
<1>5. PICK n \in Nat : n = Cardinality(U)
  BY <1>4, FS_CardinalityType
<1>6. \E i \in 1 .. n + 1 : i \notin U
  <2> SUFFICES ASSUME 1 .. n + 1 \in SUBSET U PROVE FALSE
    OBVIOUS
  <2>1. Cardinality(1 .. n + 1) <= n
    BY <1>4, <1>5, FS_Subset
  <2>2. Cardinality(1 .. n + 1) = n + 1
    BY FS_Interval
  <2> QED BY <2>1, <2>2
<1>7. FreshId \in 1 .. n + 1 /\ FreshId \notin U
  BY <1>4, <1>5, <1>6 DEF FreshId
<1>8. \A r \in rows : r.id \in U
  BY <1>4 DEF UsedIds
<1> QED BY <1>7, <1>8

(* Walker.Walk says succeeded only of a whole closure or a shallow walk.   *)
LEMMA VerdictFacts ==
    ASSUME NEW depth \in Depths, NEW cancelled \in BOOLEAN, NEW f \in FindingType,
           CanFind(depth, cancelled, f)
    PROVE  /\ WalkStatus(depth, cancelled, f) \in Statuses
           /\ WalkStatus(depth, cancelled, f) = "Succeeded" => Whole(f) \/ depth = "shallow"
<1>1. /\ f.target \in BOOLEAN /\ f.ingested \in BOOLEAN
      /\ f.graph \in {"whole", "shallow", "reason", "noreason", "unresolved"}
  BY DEF FindingType
<1>2. WalkStatus(depth, cancelled, f) \in Statuses
  BY <1>1 DEF WalkStatus, targetFailureStatus, degradeForIncompleteGraph, degradeForRootIngest,
              aggregateStatus, Statuses
<1>3. WalkStatus(depth, cancelled, f) = "Succeeded" => Whole(f) \/ depth = "shallow"
  BY <1>1 DEF WalkStatus, targetFailureStatus, degradeForIncompleteGraph, degradeForRootIngest,
              aggregateStatus, CanFind, Whole
<1> QED BY <1>2, <1>3

-----------------------------------------------------------------------------
(* Steps of one process that leave the table alone.                        *)

Others(p) == \A q \in Procs \ {p} :
    UNCHANGED <<pc[q], req[q], ctx[q], hit[q], id[q], rec[q], result[q]>>

Fits(p) ==
    result[p].how = "cache" =>
        /\ result[p].rec.status = "Succeeded" /\ result[p].rec.input = "fixed"
        /\ req[p].depth = "full" => result[p].rec.depth = "full"
        /\ result[p].rec.build = req[p].build

Same(p) == result[p].how = "identity" => IdentityHash(result[p].rec) = IdentityHash(rec[p])

(* What is left to show of such a step.                                    *)
LEMMA QuietKeeps ==
    ASSUME IInv, NEW p \in Procs, Others(p), UNCHANGED <<rows, project>>,
           events' = events \/ events' = events \cup {rec[p]},
           1 .. clock \subseteq 1 .. clock', forced \subseteq forced',
           TypeOK', Running(p)', Fits(p)', Same(p)'
    PROVE  IInv'
<1>1. RowsAreKept'
  <2>1. IsFiniteSet(events')
    <3>1. IsFiniteSet(events) /\ IsFiniteSet(events \cup {rec[p]})
      BY FS_AddElement DEF IInv, RowsAreKept
    <3> QED BY <3>1
  <2> QED BY <2>1 DEF IInv, RowsAreKept
<1>2. UnfinishedIsLatest' /\ SucceededIsWhole' /\ OneWalkPerAnalysis'
  BY DEF IInv, UnfinishedIsLatest, SucceededIsWhole, OneWalkPerAnalysis
<1>3. RunsAreSane'
  <2>1. ASSUME NEW q \in Procs, q # p PROVE Running(q)'
    <3>1. Running(q) /\ UNCHANGED <<pc[q], req[q], ctx[q], hit[q], id[q], rec[q], result[q]>>
      BY <2>1 DEF IInv, RunsAreSane, Others
    <3>2. /\ IdIsFree(q) => IdIsFree(q)'
          /\ Measured(q) => Measured(q)'
          /\ \A r : CacheUsable(req[q], r) => CacheUsable(req[q], r)'
      BY <3>1 DEF IdIsFree, Measured, CacheUsable
    <3> QED BY <3>1, <3>2 DEF Running, CacheUsable
  <2> QED BY <2>1 DEF RunsAreSane
<1>4. CachedAnswerFits' /\ ReusedIsSameAnalysis'
  BY DEF IInv, CachedAnswerFits, ReusedIsSameAnalysis, Fits, Same, Others
<1> QED BY <1>1, <1>2, <1>3, <1>4 DEF IInv

(* A run returns.                                                          *)
LEMMA ReturnKeeps ==
    ASSUME IInv, NEW p \in Procs, UNCHANGED <<rows, clock, project, input, forced>>,
           UNCHANGED <<req, ctx, hit, id, rec>>,
           events' = events \/ events' = events \cup {rec[p]},
           NEW how \in {"none", "cache", "identity", "fresh", "error"}, NEW r \in WalkRecord,
           Return(p, how, r),
           how = "cache" => /\ r.status = "Succeeded" /\ r.input = "fixed"
                            /\ req[p].depth = "full" => r.depth = "full"
                            /\ r.build = req[p].build,
           how = "identity" => IdentityHash(r) = IdentityHash(rec[p])
    PROVE  IInv'
<1>1. pc' = [pc EXCEPT ![p] = "idle"] /\ result' = [result EXCEPT ![p] = Result(how, r)]
  BY DEF Return, Goto
<1>2. Others(p) /\ pc'[p] = "idle" /\ result'[p] = Result(how, r)
  BY <1>1 DEF IInv, TypeOK, Others
<1>3. TypeOK'
  <2>1. events' \subseteq rows' \cup WalkRecord
    BY DEF IInv, TypeOK
  <2>2. result' \in [Procs -> [how : {"none", "cache", "identity", "fresh", "error"},
                               rec : WalkRecord]]
    BY <1>1, NoRecFacts DEF IInv, TypeOK
  <2> QED BY <1>1, <2>1, <2>2 DEF IInv, TypeOK
<1>4. Running(p)'
  BY <1>2 DEF Running, Judged
<1>5. Fits(p)' /\ Same(p)'
  BY <1>2, NoRecFacts DEF Fits, Same
<1> QED BY <1>2, <1>3, <1>4, <1>5, QuietKeeps

(* A run starts.                                                           *)
LEMMA BeginKeeps ==
    ASSUME IInv, NEW p \in Procs, Begin(p)
    PROVE  IInv'
<1>1. PICK q \in Requests : req' = [req EXCEPT ![p] = q]
  BY DEF Begin
<1>2. /\ ctx' = [ctx EXCEPT ![p] = "live"] /\ result' = [result EXCEPT ![p] = NoResult]
      /\ hit' = [hit EXCEPT ![p] = NoId] /\ id' = [id EXCEPT ![p] = NoId]
      /\ rec' = [rec EXCEPT ![p] = NoRec] /\ pc' = [pc EXCEPT ![p] = "cache"]
      /\ UNCHANGED <<rows, events, clock, project, input, forced>>
  BY DEF Begin, Goto, store, world
<1>3. Others(p) /\ pc'[p] = "cache" /\ result'[p] = NoResult
  BY <1>1, <1>2 DEF IInv, TypeOK, Others
<1>4. TypeOK'
  <2>1. result' \in [Procs -> [how : {"none", "cache", "identity", "fresh", "error"},
                               rec : WalkRecord]]
    BY <1>2, NoRecFacts DEF IInv, TypeOK
  <2>2. hit' \in [Procs -> Nat] /\ id' \in [Procs -> Nat] /\ rec' \in [Procs -> WalkRecord]
    BY <1>2, NoRecFacts DEF IInv, TypeOK, NoId
  <2> QED BY <1>1, <1>2, <2>1, <2>2 DEF IInv, TypeOK
<1>5. Running(p)' /\ Fits(p)' /\ Same(p)'
  BY <1>3, NoRecFacts DEF Running, Judged, Fits, Same
<1> QED BY <1>2, <1>3, <1>4, <1>5, QuietKeeps

(* What a step of a running process may say of its result.                 *)
LEMMA StillRunning ==
    ASSUME IInv, NEW p \in Procs, pc[p] # "idle", result' = result
    PROVE  /\ result'[p] = NoResult /\ Fits(p)' /\ Same(p)'
<1>1. result'[p] = NoResult
  BY DEF IInv, RunsAreSane, Running
<1> QED BY <1>1, NoRecFacts DEF Fits, Same

(* The latest row, when there is one.                                      *)
LEMMA LatestRow ==
    ASSUME IInv, NEW rs, rs \subseteq rows, rs # {}
    PROVE  Latest(rs) \in rs /\ \A s \in rs : s.at <= Latest(rs).at
<1>1. PICK c \in Nat : c = clock
  BY MaxWalksAssumption DEF IInv, TypeOK
<1>2. \A r \in rs : r.at \in 1 .. c
  BY <1>1 DEF IInv, RowsAreKept
<1> QED BY <1>2, LatestFacts

(* cachedWalk looks for a summary it may serve.                            *)
LEMMA ListKeeps ==
    ASSUME IInv, NEW p \in Procs, ListForCache(p)
    PROVE  IInv'
<1>1. /\ pc[p] = "cache"
      /\ UNCHANGED <<rows, events, clock, project, input, forced, req, ctx, id, rec, result>>
  BY DEF ListForCache, store, world
<1>2. PICK h \in Nat, label \in {"get", "resolve"} :
        /\ hit' = [hit EXCEPT ![p] = h] /\ pc' = [pc EXCEPT ![p] = label]
        /\ label = "get" => \E r \in rows : r.id = h /\ CacheUsable(req[p], r)
  <2>1. CASE Readable(p) # {} /\ CacheUsable(req[p], Latest(Readable(p)))
    <3>1. Readable(p) \subseteq rows
      BY DEF Readable
    <3>2. PICK r \in rows : r = Latest(Readable(p))
      BY <2>1, <3>1, LatestRow
    <3>3. r.id \in Nat
      BY RecordShape DEF IInv, TypeOK
    <3>4. hit' = [hit EXCEPT ![p] = r.id] /\ pc' = [pc EXCEPT ![p] = "get"]
      BY <2>1, <3>2 DEF ListForCache, Goto
    <3> QED BY <2>1, <3>2, <3>3, <3>4
  <2>2. CASE ~(Readable(p) # {} /\ CacheUsable(req[p], Latest(Readable(p))))
    <3>1. hit' = hit /\ pc' = [pc EXCEPT ![p] = "resolve"]
      BY <2>2 DEF ListForCache, Goto
    <3>2. hit = [hit EXCEPT ![p] = hit[p]] /\ hit[p] \in Nat
      BY DEF IInv, TypeOK
    <3> QED BY <3>1, <3>2
  <2> QED BY <2>1, <2>2
<1>3. Others(p) /\ pc'[p] = label /\ hit'[p] = h
  BY <1>1, <1>2 DEF IInv, TypeOK, Others
<1>4. TypeOK'
  BY <1>1, <1>2 DEF IInv, TypeOK
<1>5. result'[p] = NoResult /\ Fits(p)' /\ Same(p)'
  BY <1>1, StillRunning
<1>6. Running(p)'
  <2>1. label = "get" => \E r \in rows' : r.id = hit'[p] /\ CacheUsable(req[p], r)'
    BY <1>1, <1>2, <1>3 DEF CacheUsable
  <2> QED BY <1>1, <1>2, <1>3, <1>5, <2>1 DEF Running, Judged, CacheUsable
<1> QED BY <1>1, <1>3, <1>4, <1>5, <1>6, QuietKeeps

(* The walk a summary named is served if its build is the request's.       *)
LEMMA GetKeeps ==
    ASSUME IInv, NEW p \in Procs, GetCached(p)
    PROVE  IInv'
<1>1. /\ pc[p] = "get"
      /\ UNCHANGED <<rows, events, clock, project, input, forced, req, ctx, hit, id, rec>>
  BY DEF GetCached, store, world, locals
<1>2. PICK r \in rows : r.id = hit[p] /\ CacheUsable(req[p], r)
  BY <1>1 DEF IInv, RunsAreSane, Running
<1>3. Get(hit[p]) = r /\ r \in WalkRecord
  BY <1>2 DEF Get, IInv, RowsAreKept, TypeOK
<1>4. CASE ctx[p] = "live" /\ Get(hit[p]).build = req[p].build
  <2>1. Return(p, "cache", r) /\ r.build = req[p].build
    BY <1>3, <1>4 DEF GetCached
  <2>2. r.status = "Succeeded" /\ r.input = "fixed" /\ (req[p].depth = "full" => r.depth = "full")
    BY <1>2, <1>3, RecordShape DEF CacheUsable, IInv, RowsAreKept, Depths
  <2> QED BY <1>1, <1>3, <2>1, <2>2, ReturnKeeps
<1>5. CASE ~(ctx[p] = "live" /\ Get(hit[p]).build = req[p].build)
  <2>1. pc' = [pc EXCEPT ![p] = "resolve"] /\ result' = result
    BY <1>5 DEF GetCached, Goto
  <2>2. Others(p) /\ pc'[p] = "resolve"
    BY <1>1, <2>1 DEF IInv, TypeOK, Others
  <2>3. TypeOK'
    BY <1>1, <2>1 DEF IInv, TypeOK
  <2>4. result'[p] = NoResult /\ Fits(p)' /\ Same(p)'
    BY <1>1, <2>1, StillRunning
  <2>5. Running(p)'
    BY <2>2, <2>4 DEF Running, Judged
  <2> QED BY <1>1, <2>2, <2>3, <2>4, <2>5, QuietKeeps
<1> QED BY <1>4, <1>5

(* The run resumes the unfinished walk or takes a new id.                  *)
LEMMA ResolveKeeps ==
    ASSUME IInv, NEW p \in Procs, ResolveWalkID(p)
    PROVE  IInv'
<1>1. /\ pc[p] = "resolve" /\ pc' = [pc EXCEPT ![p] = "walk"]
      /\ UNCHANGED <<rows, events, clock, project, input, forced, req, ctx, hit, rec, result>>
  BY DEF ResolveWalkID, Goto, store, world
<1>2. FreshId \in Nat /\ \A r \in rows : r.id # FreshId
  BY FreshIdFacts DEF IInv, RowsAreKept
<1>3. PICK i \in Nat :
        /\ id' = [id EXCEPT ![p] = i]
        /\ ctx[p] = "live" => /\ \A r \in rows : r.id = i => Unfinished(r)
                              /\ (\A r \in rows : r.id # i) => \A r \in rows : ~Unfinished(r)
  <2>1. CASE Readable(p) # {} /\ Latest(Readable(p)).status \in {"Partial", "Cancelled"}
    <3>1. Readable(p) = rows
      BY <2>1 DEF Readable
    <3>2. PICK l \in rows : l = Latest(Readable(p)) /\ Unfinished(l)
      BY <2>1, <3>1, LatestRow DEF Unfinished
    <3>3. id' = [id EXCEPT ![p] = l.id] /\ l.id \in Nat
      BY <2>1, <3>2, RecordShape DEF ResolveWalkID, IInv, TypeOK
    <3>4. \A r \in rows : r.id = l.id => Unfinished(r)
      BY <3>2 DEF IInv, RowsAreKept
    <3> QED BY <3>2, <3>3, <3>4
  <2>2. CASE ~(Readable(p) # {} /\ Latest(Readable(p)).status \in {"Partial", "Cancelled"})
    <3>1. id' = [id EXCEPT ![p] = FreshId]
      BY <2>2 DEF ResolveWalkID
    <3>2. ASSUME ctx[p] = "live", NEW r \in rows, Unfinished(r) PROVE FALSE
      <4>1. Readable(p) = rows
        BY <3>2 DEF Readable
      <4>2. PICK l \in rows : l = Latest(rows) /\ r.at <= l.at
        BY <3>2, LatestRow
      <4>3. l.at <= r.at /\ l.at \in Nat /\ r.at \in Nat
        BY <3>2, <4>2, RecordShape DEF IInv, UnfinishedIsLatest, TypeOK
      <4>4. l = r
        BY <3>2, <4>2, <4>3 DEF IInv, RowsAreKept
      <4> QED BY <2>2, <3>2, <4>1, <4>2, <4>4 DEF Unfinished
    <3> QED BY <1>2, <3>1, <3>2
  <2> QED BY <2>1, <2>2
<1>4. Others(p) /\ pc'[p] = "walk" /\ id'[p] = i
  BY <1>1, <1>3 DEF IInv, TypeOK, Others
<1>5. TypeOK'
  BY <1>1, <1>3 DEF IInv, TypeOK
<1>6. result'[p] = NoResult /\ Fits(p)' /\ Same(p)'
  BY <1>1, StillRunning
<1>7. Running(p)'
  <2>1. ctx'[p] = "live" => IdIsFree(p)'
    BY <1>1, <1>3, <1>4 DEF IdIsFree
  <2> QED BY <1>4, <1>6, <2>1 DEF Running, Judged
<1> QED BY <1>1, <1>4, <1>5, <1>6, <1>7, QuietKeeps

(* The walk starts, under its own time.                                    *)
LEMMA StartKeeps ==
    ASSUME IInv, NEW p \in Procs, StartWalk(p)
    PROVE  IInv'
<1>1. /\ pc[p] = "walk" /\ UNCHANGED <<rows, events, project, input, req, ctx, hit, id>>
  BY DEF StartWalk, store
<1>2. CASE ctx[p] = "cancelled"
  <2>1. Return(p, "error", NoRec) /\ UNCHANGED <<clock, rec, forced>>
    BY <1>2 DEF StartWalk
  <2> QED BY <1>1, <2>1, NoRecFacts, ReturnKeeps
<1>3. CASE ctx[p] # "cancelled"
  <2>1. PICK c \in Nat, q \in RequestType, i \in Nat, in \in Inputs \cup {"fixed"} :
          /\ c = clock /\ q = req[p] /\ i = id[p] /\ in = IF project THEN input ELSE "fixed"
    <3>1. clock \in Nat
      BY MaxWalksAssumption DEF IInv, TypeOK
    <3>2. req[p] \in RequestType /\ id[p] \in Nat
      BY RequestsAssumption DEF IInv, TypeOK
    <3>3. (IF project THEN input ELSE "fixed") \in Inputs \cup {"fixed"}
      BY DEF IInv, TypeOK
    <3> QED BY <3>1, <3>2, <3>3
  <2>2. PICK new : new = [NoRec EXCEPT !.id = i, !.at = c + 1, !.depth = q.depth,
                                       !.build = q.build, !.input = in]
    OBVIOUS
  <2>3. /\ c < MaxWalks /\ clock' = c + 1 /\ rec' = [rec EXCEPT ![p] = new]
        /\ forced' = (IF q.force THEN forced \cup {c + 1} ELSE forced)
        /\ pc' = [pc EXCEPT ![p] = "walking"] /\ result' = result
    BY <1>3, <2>1, <2>2 DEF StartWalk, Goto
  <2>4. /\ new \in WalkRecord /\ new.id = i /\ new.at = c + 1 /\ new.depth = q.depth
        /\ new.input = in
    <3>1. q.depth \in Depths /\ q.build \in Nat
      BY DEF RequestType
    <3>2. NoRec.finding \in FindingType /\ NoRec.status \in Statuses
      BY NoRecFacts, RecordShape
    <3>3. new = [id |-> i, at |-> c + 1, depth |-> q.depth, build |-> q.build, input |-> in,
                 finding |-> NoRec.finding, status |-> NoRec.status]
      BY <2>2 DEF NoRec
    <3> QED BY <3>1, <3>2, <3>3 DEF WalkRecord
  <2>5. Others(p) /\ pc'[p] = "walking" /\ rec'[p] = new
    BY <1>1, <2>3 DEF IInv, TypeOK, Others
  <2>6. 1 .. clock \subseteq 1 .. clock' /\ c + 1 \in 1 .. clock' /\ \A n \in 1 .. clock : n < c + 1
    BY <2>1, <2>3
  <2>7. TypeOK'
    <3>1. clock' \in 0 .. MaxWalks /\ forced' \subseteq 1 .. clock' /\ forced \subseteq forced'
      BY <2>1, <2>3, <2>6, MaxWalksAssumption DEF IInv, TypeOK
    <3>2. rec' \in [Procs -> WalkRecord]
      BY <2>3, <2>4 DEF IInv, TypeOK
    <3> QED BY <1>1, <2>3, <3>1, <3>2 DEF IInv, TypeOK
  <2>8. result'[p] = NoResult /\ Fits(p)' /\ Same(p)'
    BY <1>1, <2>3, StillRunning
  <2>9. Running(p)'
    <3>1. ctx[p] = "live"
      BY <1>3 DEF IInv, TypeOK
    <3>2. IdIsFree(p)
      BY <1>1, <3>1 DEF IInv, RunsAreSane, Running
    <3>3. IdIsFree(p)'
      BY <1>1, <3>2 DEF IdIsFree
    <3>4. \A r \in rows : r.at < c + 1
      BY <2>6 DEF IInv, RowsAreKept
    <3>5. /\ rec'[p].id = id'[p] /\ rec'[p].depth = req'[p].depth /\ rec'[p].at \in 1 .. clock'
          /\ rec'[p].at = c + 1
      BY <1>1, <2>1, <2>4, <2>5, <2>6
    <3>6. ~project' => rec'[p].input = "fixed"
      BY <1>1, <2>1, <2>4, <2>5
    <3>7. req'[p].force => rec'[p].at \in forced'
      BY <1>1, <2>1, <2>3, <3>5
    <3>8. Measured(p)'
      BY <1>1, <3>4, <3>5, <3>6, <3>7 DEF Measured
    <3> QED BY <2>5, <2>8, <3>3, <3>8 DEF Running, Judged
  <2>10. forced \subseteq forced'
    BY <2>3
  <2> QED BY <1>1, <2>5, <2>6, <2>7, <2>8, <2>9, <2>10, QuietKeeps
<1> QED BY <1>2, <1>3

(* The walk ends with a verdict on what it found.                          *)
LEMMA EndKeeps ==
    ASSUME IInv, NEW p \in Procs, EndWalk(p)
    PROVE  IInv'
<1>1. PICK f \in Findings :
        /\ CanFind(req[p].depth, ctx[p] = "cancelled", f)
        /\ rec' = [rec EXCEPT ![p] =
                    [Resolved(rec[p], f) EXCEPT !.finding = f,
                         !.status = WalkStatus(req[p].depth, ctx[p] = "cancelled", f)]]
  BY DEF EndWalk, IInv, TypeOK
<1>2. /\ pc[p] = "walking" /\ pc' = [pc EXCEPT ![p] = "recognise"]
      /\ UNCHANGED <<rows, events, clock, project, input, forced, req, ctx, hit, id, result>>
  BY DEF EndWalk, Goto, store, world
<1>3. PICK depth \in Depths, cancelled \in BOOLEAN :
        depth = req[p].depth /\ cancelled = (ctx[p] = "cancelled")
  <2>1. req[p].depth \in Depths
    BY RequestsAssumption DEF IInv, TypeOK, RequestType
  <2>2. (ctx[p] = "cancelled") \in BOOLEAN
    OBVIOUS
  <2> QED BY <2>1, <2>2, Zenon
<1>4. PICK st \in Statuses :
        /\ st = WalkStatus(depth, cancelled, f)
        /\ st = "Succeeded" => Whole(f) \/ depth = "shallow"
  BY <1>1, <1>3, FindingsAssumption, VerdictFacts
<1>5. PICK old \in WalkRecord : old = rec[p]
  BY DEF IInv, TypeOK
<1>6. PICK mid \in WalkRecord :
        /\ mid = Resolved(old, f) /\ mid.id = old.id /\ mid.at = old.at /\ mid.depth = old.depth
        /\ old.input = "fixed" => mid.input = "fixed"
  <2>1. CASE f.graph = "unresolved"
    <3>1. Resolved(old, f) = [old EXCEPT !.input = "fixed", !.build = 0]
      BY <2>1, NoRecFacts DEF Resolved
    <3> QED BY <3>1 DEF WalkRecord
  <2>2. CASE f.graph # "unresolved"
    BY <2>2 DEF Resolved
  <2> QED BY <2>1, <2>2
<1>7. PICK new : new = [mid EXCEPT !.finding = f, !.status = st]
  OBVIOUS
<1>8. /\ new \in WalkRecord /\ new.id = old.id /\ new.at = old.at /\ new.depth = old.depth
      /\ new.input = mid.input /\ new.finding = f /\ new.status = st
  BY <1>6, <1>7, FindingsAssumption DEF WalkRecord
<1>9. rec' = [rec EXCEPT ![p] = new]
  BY <1>1, <1>3, <1>4, <1>5, <1>6, <1>7
<1>10. Others(p) /\ pc'[p] = "recognise" /\ rec'[p] = new
  BY <1>2, <1>9 DEF IInv, TypeOK, Others
<1>11. TypeOK'
  BY <1>2, <1>8, <1>9 DEF IInv, TypeOK
<1>12. result'[p] = NoResult /\ Fits(p)' /\ Same(p)'
  BY <1>2, StillRunning
<1>13. Running(p)'
  <2>1. IdIsFree(p) /\ Measured(p)
    BY <1>2 DEF IInv, RunsAreSane, Running
  <2>2. IdIsFree(p)'
    BY <1>2, <2>1 DEF IdIsFree
  <2>3. Measured(p)'
    BY <1>2, <1>5, <1>6, <1>8, <1>10, <2>1 DEF Measured
  <2>4. Sound(rec'[p])
    BY <1>3, <1>4, <1>5, <1>8, <1>10, <2>1 DEF Sound, Measured
  <2> QED BY <1>10, <1>12, <2>2, <2>3, <2>4 DEF Running, Judged, Sound
<1> QED BY <1>2, <1>10, <1>11, <1>12, <1>13, QuietKeeps

(* The run looks for a stored walk of the same analysis.                   *)
LEMMA RecogniseKeeps ==
    ASSUME IInv, NEW p \in Procs, Recognise(p)
    PROVE  IInv'
<1>1. /\ pc[p] = "recognise"
      /\ UNCHANGED <<rows, events, clock, project, input, forced, req, ctx, id, rec, result>>
  BY DEF Recognise, store, world
<1>2. PICK same : /\ same = SameAnalysis(Readable(p), rec[p])
                  /\ same \subseteq rows
                  /\ ctx[p] = "live" => same = SameAnalysis(rows, rec[p])
                  /\ \A r \in same : IdentityHash(r) = IdentityHash(rec[p])
  <2>1. PICK rs : rs = Readable(p) /\ rs \subseteq rows /\ (ctx[p] = "live" => rs = rows)
    <3>1. Readable(p) \subseteq rows /\ (ctx[p] = "live" => Readable(p) = rows)
      BY DEF Readable
    <3> QED BY <3>1
  <2>2. SameAnalysis(rs, rec[p]) \subseteq rs
    BY DEF SameAnalysis
  <2>3. \A r \in SameAnalysis(rs, rec[p]) : IdentityHash(r) = IdentityHash(rec[p])
    BY DEF SameAnalysis
  <2> QED BY <2>1, <2>2, <2>3
<1>3. IdIsFree(p) /\ Measured(p) /\ Sound(rec[p])
  BY <1>1 DEF IInv, RunsAreSane, Running, Judged
<1>4. IdIsFree(p)' /\ Measured(p)' /\ Sound(rec'[p])
  BY <1>1, <1>3 DEF IdIsFree, Measured
<1>5. result'[p] = NoResult /\ Fits(p)' /\ Same(p)'
  BY <1>1, StillRunning
<1>6. CASE ~req[p].force /\ same # {} /\ Latest(same).id # id[p]
  <2>1. PICK r \in rows : r = Latest(same) /\ IdentityHash(r) = IdentityHash(rec[p])
    BY <1>2, <1>6, LatestRow
  <2>2. hit' = [hit EXCEPT ![p] = r.id] /\ pc' = [pc EXCEPT ![p] = "reuse"] /\ r.id \in Nat
    BY <1>2, <1>6, <2>1, RecordShape DEF Recognise, Goto, IInv, TypeOK
  <2>3. Others(p) /\ pc'[p] = "reuse" /\ hit'[p] = r.id
    BY <1>1, <2>2 DEF IInv, TypeOK, Others
  <2>4. TypeOK'
    BY <1>1, <2>2 DEF IInv, TypeOK
  <2>5. Running(p)'
    BY <1>1, <1>4, <1>5, <2>1, <2>3 DEF Running, Judged, Sound
  <2> QED BY <1>1, <1>5, <2>3, <2>4, <2>5, QuietKeeps
<1>7. CASE ~(~req[p].force /\ same # {} /\ Latest(same).id # id[p])
  <2>1. hit' = hit /\ pc' = [pc EXCEPT ![p] = "put"]
    BY <1>2, <1>7 DEF Recognise, Goto
  <2>2. Others(p) /\ pc'[p] = "put"
    BY <1>1, <2>1 DEF IInv, TypeOK, Others
  <2>3. TypeOK'
    BY <1>1, <2>1 DEF IInv, TypeOK
  <2>4. ASSUME ctx[p] = "live", ~req[p].force, NEW r \in rows, IdentityHash(r) = IdentityHash(rec[p])
        PROVE  r.id = id[p]
    <3>1. r \in same /\ Latest(same).id = id[p]
      BY <1>2, <1>7, <2>4 DEF SameAnalysis
    <3>2. PICK l \in same : l.id = id[p]
      BY <1>2, <3>1, LatestRow
    <3>3. Unfinished(l) /\ IdentityHash(l) = IdentityHash(r)
      BY <1>2, <1>3, <2>4, <3>2 DEF IdIsFree
    <3>4. Unfinished(r)
      BY <3>3 DEF Unfinished, IdentityHash
    <3>5. r.at <= l.at /\ l.at <= r.at /\ r.at \in Nat /\ l.at \in Nat
      BY <1>2, <3>2, <3>3, <3>4, RecordShape DEF IInv, UnfinishedIsLatest, TypeOK
    <3> QED BY <1>2, <3>2, <3>5 DEF IInv, RowsAreKept
  <2>5. Running(p)'
    <3>1. pc'[p] = "put" /\ ctx'[p] = "live" /\ ~req'[p].force =>
            \A r \in rows' : IdentityHash(r) = IdentityHash(rec'[p]) => r.id = id'[p]
      BY <1>1, <2>4
    <3> QED BY <1>4, <1>5, <2>2, <3>1 DEF Running, Judged, Sound, IdentityHash
  <2> QED BY <1>1, <1>5, <2>2, <2>3, <2>5, QuietKeeps
<1> QED BY <1>6, <1>7

(* The walk recognised is returned in place of this one.                   *)
LEMMA ReuseKeeps ==
    ASSUME IInv, NEW p \in Procs, Reuse(p)
    PROVE  IInv'
<1>1. /\ pc[p] = "reuse"
      /\ UNCHANGED <<rows, events, clock, project, input, forced, req, ctx, hit, id, rec>>
  BY DEF Reuse, store, world, locals
<1>2. PICK r \in rows : r.id = hit[p] /\ IdentityHash(r) = IdentityHash(rec[p])
  BY <1>1 DEF IInv, RunsAreSane, Running
<1>3. Get(hit[p]) = r /\ r \in WalkRecord
  BY <1>2 DEF Get, IInv, RowsAreKept, TypeOK
<1>4. CASE ctx[p] = "live"
  <2>1. Return(p, "identity", r)
    BY <1>3, <1>4 DEF Reuse
  <2> QED BY <1>1, <1>2, <1>3, <2>1, ReturnKeeps
<1>5. CASE ctx[p] # "live"
  <2>1. pc' = [pc EXCEPT ![p] = "put"] /\ result' = result
    BY <1>5 DEF Reuse, Goto
  <2>2. Others(p) /\ pc'[p] = "put" /\ ctx'[p] # "live"
    BY <1>1, <1>5, <2>1 DEF IInv, TypeOK, Others
  <2>3. TypeOK'
    BY <1>1, <2>1 DEF IInv, TypeOK
  <2>4. result'[p] = NoResult /\ Fits(p)' /\ Same(p)'
    BY <1>1, <2>1, StillRunning
  <2>5. IdIsFree(p) /\ Measured(p) /\ Sound(rec[p])
    BY <1>1 DEF IInv, RunsAreSane, Running, Judged
  <2>6. IdIsFree(p)' /\ Measured(p)' /\ Sound(rec'[p])
    BY <1>1, <2>5 DEF IdIsFree, Measured
  <2>7. Running(p)'
    BY <2>2, <2>4, <2>6 DEF Running, Judged, Sound
  <2> QED BY <1>1, <2>2, <2>3, <2>4, <2>7, QuietKeeps
<1> QED BY <1>4, <1>5

(* The walk is stored: over the unfinished one, or beside the others.      *)
LEMMA PutKeeps ==
    ASSUME IInv, NoOverlap, NEW p \in Procs, PutWalk(p)
    PROVE  IInv'
<1>1. PICK new \in WalkRecord : new = rec[p]
  BY DEF IInv, TypeOK
<1>2. /\ pc[p] = "put" /\ ctx[p] = "live" /\ pc' = [pc EXCEPT ![p] = "emit"]
      /\ rows' = {s \in rows : s.id # new.id} \cup {new}
      /\ UNCHANGED <<events, clock, project, input, forced, req, ctx, hit, id, rec, result>>
  BY <1>1 DEF PutWalk, Goto, Stored, world, locals
<1>3. IdIsFree(p) /\ Measured(p) /\ Sound(new) /\ new.id = id[p] /\ new.at \in Nat
  BY <1>1, <1>2, RecordShape DEF IInv, RunsAreSane, Running, Judged, Measured
<1>4. Others(p) /\ pc'[p] = "emit"
  BY <1>2 DEF IInv, TypeOK, Others
<1>5. \A r \in rows : r.at \in Nat /\ r.at < new.at
  BY <1>1, <1>3, RecordShape DEF Measured, IInv, TypeOK
<1>6. TypeOK'
  BY <1>2 DEF IInv, TypeOK
<1>7. RowsAreKept'
  <2>1. PICK R : R = {s \in rows : s.id # new.id} /\ IsFiniteSet(R)
    BY FS_Subset DEF IInv, RowsAreKept
  <2>2. IsFiniteSet(rows')
    BY <1>2, <2>1, FS_AddElement
  <2>3. \A r \in rows' : r.at \in 1 .. clock /\ (~project => r.input = "fixed")
    BY <1>1, <1>2, <1>3 DEF IInv, RowsAreKept, Measured
  <2>4. \A r, s \in rows' : (r.id = s.id \/ r.at = s.at) => r = s
    BY <1>2, <1>3, <1>5 DEF IInv, RowsAreKept
  <2> QED BY <1>2, <2>2, <2>3, <2>4 DEF IInv, RowsAreKept
<1>8. \A r \in rows : r.id # new.id => ~Unfinished(r)
  <2> SUFFICES ASSUME NEW r \in rows, r.id # new.id, Unfinished(r) PROVE FALSE
    OBVIOUS
  <2>1. PICK l \in rows : l.id = new.id /\ Unfinished(l)
    BY <1>3 DEF IdIsFree
  <2>2. l.at <= r.at /\ r.at <= l.at
    BY <2>1 DEF IInv, UnfinishedIsLatest
  <2> QED BY <1>5, <2>1, <2>2 DEF IInv, RowsAreKept
<1>9. UnfinishedIsLatest'
  BY <1>2, <1>3, <1>5, <1>8 DEF UnfinishedIsLatest
<1>11. SucceededIsWhole'
  BY <1>2, <1>3 DEF IInv, SucceededIsWhole, Sound
<1>12. OneWalkPerAnalysis'
  <2>1. ASSUME NEW s \in rows, s.id # new.id, IdentityHash(s) = IdentityHash(new)
        PROVE  new.at \in forced
    BY <1>1, <1>2, <1>3, <2>1 DEF IInv, RunsAreSane, Running, Measured
  <2> QED BY <1>2, <2>1 DEF IInv, OneWalkPerAnalysis
<1>13. RunsAreSane'
  <2>1. ASSUME NEW q \in Procs, q # p PROVE Running(q)'
    <3>1. pc'[q] = "idle"
      BY <1>2, <1>4, <2>1 DEF NoOverlap, Others
    <3> QED BY <3>1 DEF Running, Judged
  <2>2. result'[p] = NoResult /\ rec'[p] \in rows'
    BY <1>1, <1>2, StillRunning
  <2>3. Running(p)'
    BY <1>4, <2>2 DEF Running, Judged
  <2> QED BY <2>1, <2>3 DEF RunsAreSane
<1>14. CachedAnswerFits' /\ ReusedIsSameAnalysis'
  BY <1>2 DEF IInv, CachedAnswerFits, ReusedIsSameAnalysis
<1> QED BY <1>6, <1>7, <1>9, <1>11, <1>12, <1>13, <1>14 DEF IInv

(* The stored walk is logged if it succeeded, and returned.                *)
LEMMA EmitKeeps ==
    ASSUME IInv, NEW p \in Procs, EmitWalkCompleted(p)
    PROVE  IInv'
<1>1. PICK r \in WalkRecord : r = rec[p] /\ Return(p, "fresh", r)
  BY DEF EmitWalkCompleted, IInv, TypeOK
<1>2. UNCHANGED <<rows, clock, project, input, forced, req, ctx, hit, id, rec>>
  BY DEF EmitWalkCompleted, world, locals
<1>3. events' = events \/ events' = events \cup {rec[p]}
  BY DEF EmitWalkCompleted
<1> QED BY <1>1, <1>2, <1>3, ReturnKeeps

(* The store or the log refuses.                                           *)
LEMMA FailKeeps ==
    ASSUME IInv, NEW p \in Procs, PutWalkFails(p) \/ EmitFails(p)
    PROVE  IInv'
<1>1. /\ Return(p, "error", NoRec)
      /\ UNCHANGED <<rows, events, clock, project, input, forced, req, ctx, hit, id, rec>>
  BY DEF PutWalkFails, EmitFails, store, world, locals
<1> QED BY <1>1, NoRecFacts, ReturnKeeps

(* A process is killed.                                                    *)
LEMMA KillKeeps ==
    ASSUME IInv, NEW p \in Procs, Kill(p)
    PROVE  IInv'
<1>1. /\ pc[p] # "idle" /\ pc' = [pc EXCEPT ![p] = "idle"]
      /\ UNCHANGED <<rows, events, clock, project, input, forced, req, ctx, hit, id, rec, result>>
  BY DEF Kill, Goto, store, world, locals
<1>2. Others(p) /\ pc'[p] = "idle"
  BY <1>1 DEF IInv, TypeOK, Others
<1>3. TypeOK'
  BY <1>1 DEF IInv, TypeOK
<1>4. Fits(p)' /\ Same(p)'
  BY <1>1, StillRunning
<1>5. Running(p)'
  BY <1>2 DEF Running, Judged
<1> QED BY <1>1, <1>2, <1>3, <1>4, <1>5, QuietKeeps

(* The caller's context is cancelled.                                      *)
LEMMA CancelKeeps ==
    ASSUME IInv, NEW p \in Procs, Cancel(p)
    PROVE  IInv'
<1>1. /\ pc[p] # "idle" /\ ctx' = [ctx EXCEPT ![p] = "cancelled"]
      /\ UNCHANGED <<rows, events, clock, project, input, forced, pc, req, hit, id, rec, result>>
  BY DEF Cancel, store, world
<1>2. Others(p) /\ ctx'[p] = "cancelled"
  BY <1>1 DEF IInv, TypeOK, Others
<1>3. TypeOK'
  BY <1>1 DEF IInv, TypeOK
<1>4. Fits(p)' /\ Same(p)'
  BY <1>1, StillRunning
<1>5. Running(p)'
  <2>1. Running(p)
    BY DEF IInv, RunsAreSane
  <2>2. /\ IdIsFree(p) => IdIsFree(p)'
        /\ Measured(p) => Measured(p)'
        /\ \A r : CacheUsable(req[p], r) => CacheUsable(req[p], r)'
    BY <1>1 DEF IdIsFree, Measured, CacheUsable
  <2> QED BY <1>1, <1>2, <2>1, <2>2 DEF Running, CacheUsable
<1> QED BY <1>1, <1>2, <1>3, <1>4, <1>5, QuietKeeps

(* A step that touches only the working tree, or nothing.                  *)
LEMMA EditKeeps ==
    ASSUME IInv, Edit \/ UNCHANGED vars
    PROVE  IInv'
<1>1. UNCHANGED <<rows, events, clock, project, forced, pc, req, ctx, hit, id, rec, result>>
  BY DEF Edit, vars, store, locals
<1>2. TypeOK'
  <2>1. input' \in Inputs
    BY DEF Edit, vars, IInv, TypeOK
  <2> QED BY <1>1, <2>1 DEF IInv, TypeOK
<1>3. RunsAreSane'
  <2>1. ASSUME NEW q \in Procs PROVE Running(q)'
    <3>1. /\ IdIsFree(q) => IdIsFree(q)'
          /\ Measured(q) => Measured(q)'
          /\ \A r : CacheUsable(req[q], r) => CacheUsable(req[q], r)'
      BY <1>1 DEF IdIsFree, Measured, CacheUsable
    <3>2. Running(q)
      BY DEF IInv, RunsAreSane
    <3> QED BY <1>1, <3>1, <3>2 DEF Running, CacheUsable
  <2> QED BY <2>1 DEF RunsAreSane
<1>4. RowsAreKept' /\ UnfinishedIsLatest'
  BY <1>1 DEF IInv, RowsAreKept, UnfinishedIsLatest
<1>5. SucceededIsWhole' /\ CachedAnswerFits' /\ OneWalkPerAnalysis' /\ ReusedIsSameAnalysis'
  BY <1>1 DEF IInv, SucceededIsWhole, CachedAnswerFits, OneWalkPerAnalysis, ReusedIsSameAnalysis
<1> QED BY <1>2, <1>3, <1>4, <1>5 DEF IInv

-----------------------------------------------------------------------------
(* The theorems.                                                           *)

(* The empty table satisfies the invariant.                                *)
LEMMA InitHolds == Init => IInv
<1> SUFFICES ASSUME Init PROVE IInv
  OBVIOUS
<1>1. /\ rows = {} /\ events = {} /\ clock = 0 /\ forced = {}
      /\ \A p \in Procs : pc[p] = "idle" /\ result[p] = NoResult
  BY DEF Init
<1>2. TypeOK
  <2>1. req \in [Procs -> Requests]
    BY RequestsAssumption DEF Init
  <2>2. result \in [Procs -> [how : {"none", "cache", "identity", "fresh", "error"},
                              rec : WalkRecord]]
    BY NoRecFacts DEF Init
  <2>3. /\ hit \in [Procs -> Nat] /\ id \in [Procs -> Nat] /\ rec \in [Procs -> WalkRecord]
        /\ ctx \in [Procs -> {"live", "cancelled"}]
    BY NoRecFacts DEF Init, NoId
  <2>4. clock \in 0 .. MaxWalks /\ project \in BOOLEAN /\ input \in Inputs
    BY MaxWalksAssumption DEF Init
  <2> QED BY <1>1, <2>1, <2>2, <2>3, <2>4 DEF TypeOK, Init
<1>3. RowsAreKept /\ UnfinishedIsLatest
  BY <1>1, FS_EmptySet DEF RowsAreKept, UnfinishedIsLatest
<1>4. RunsAreSane
  BY <1>1 DEF RunsAreSane, Running, Judged
<1>5. SucceededIsWhole /\ CachedAnswerFits /\ OneWalkPerAnalysis /\ ReusedIsSameAnalysis
  BY <1>1, NoRecFacts DEF SucceededIsWhole, CachedAnswerFits, OneWalkPerAnalysis, ReusedIsSameAnalysis
<1> QED BY <1>2, <1>3, <1>4, <1>5 DEF IInv

(* Every step of a run that overlaps no other keeps it.                    *)
LEMMA NextKeeps == IInv /\ NoOverlap /\ [Next]_vars => IInv'
<1> SUFFICES ASSUME IInv, NoOverlap, [Next]_vars PROVE IInv'
  OBVIOUS
<1>1. ASSUME NEW p \in Procs, Step(p) PROVE IInv'
  BY <1>1, BeginKeeps, ListKeeps, GetKeeps, ResolveKeeps, StartKeeps, EndKeeps, RecogniseKeeps,
     ReuseKeeps, PutKeeps, EmitKeeps, FailKeeps, KillKeeps, CancelKeeps DEF Step
<1> QED BY <1>1, EditKeeps DEF Next

(* The invariant holds while runs do not overlap.                          *)
THEOREM Invariance == Spec /\ []NoOverlap => []IInv
  BY InitHolds, NextKeeps, PTL DEF Spec

(* A stored success is whole, and only a current success at least as deep  *)
(* as the request is served without walking (cachedWalk).                  *)
THEOREM ServedFit == Spec /\ []NoOverlap => []ServedWalksFit
<1>1. IInv => ServedWalksFit
  BY DEF IInv, ServedWalksFit
<1> QED BY <1>1, Invariance, PTL

(* One analysis is one stored walk unless another was forced, and a walk   *)
(* is recognised only as the analysis it is (reusableWalk).                *)
THEOREM IdentityKept == Spec /\ []NoOverlap => []IdentityIsKept
<1>1. IInv => IdentityIsKept
  BY DEF IInv, IdentityIsKept
<1> QED BY <1>1, Invariance, PTL

-----------------------------------------------------------------------------
(* However runs overlap.                                                   *)

\* A record has the fields of a walk; what they hold does not matter here.
Shaped(r) == r = [id |-> r.id, at |-> r.at, depth |-> r.depth, build |-> r.build,
                  input |-> r.input, finding |-> r.finding, status |-> r.status]

Honest(p) ==
    /\ Shaped(rec[p])
    /\ pc[p] = "walking" => rec[p].depth = req[p].depth
    /\ pc[p] \in Judged => Sound(rec[p])

WholeInv ==
    /\ DOMAIN pc = Procs /\ pc = [p \in Procs |-> pc[p]]
    /\ req \in [Procs -> Requests]
    /\ DOMAIN rec = Procs /\ rec = [p \in Procs |-> rec[p]]
    /\ \A p \in Procs : Honest(p)
    /\ SucceededIsWhole

(* One process moves, keeping its walk as it was judged, or to a place     *)
(* where nothing is asked of it.                                           *)
LEMMA HonestKept ==
    ASSUME WholeInv, NEW p \in Procs, NEW label, pc' = [pc EXCEPT ![p] = label],
           UNCHANGED <<rows, req, rec>>,
           label \in Judged => pc[p] \in Judged, label # "walking"
    PROVE  WholeInv'
<1>1. pc'[p] = label /\ \A q \in Procs \ {p} : pc'[q] = pc[q]
  BY DEF WholeInv
<1>2. \A q \in Procs : Honest(q)'
  BY <1>1 DEF WholeInv, Honest, Judged
<1>3. SucceededIsWhole'
  BY DEF WholeInv, SucceededIsWhole
<1> QED BY <1>2, <1>3 DEF WholeInv

(* One process moves, with another walk in hand.                           *)
LEMMA HonestMoved ==
    ASSUME WholeInv, NEW p \in Procs, NEW label, pc' = [pc EXCEPT ![p] = label],
           NEW q \in Requests, req' = [req EXCEPT ![p] = q], NEW new,
           rec' = [rec EXCEPT ![p] = new], rows' = rows, Shaped(new),
           label = "walking" => new.depth = q.depth, label \in Judged => Sound(new)
    PROVE  WholeInv'
<1>1. /\ pc'[p] = label /\ req'[p] = q /\ rec'[p] = new
      /\ \A o \in Procs \ {p} : pc'[o] = pc[o] /\ req'[o] = req[o] /\ rec'[o] = rec[o]
  BY DEF WholeInv
<1>2. \A o \in Procs : Honest(o)'
  BY <1>1 DEF WholeInv, Honest
<1>3. SucceededIsWhole'
  BY DEF WholeInv, SucceededIsWhole
<1> QED BY <1>2, <1>3 DEF WholeInv

(* Every step keeps a stored success whole.                                *)
LEMMA WholeKeeps == WholeInv /\ [Next]_vars => WholeInv'
<1> SUFFICES ASSUME WholeInv, [Next]_vars PROVE WholeInv'
  OBVIOUS
<1>1. CASE Edit \/ UNCHANGED vars
  <2>1. UNCHANGED <<rows, pc, req, rec>>
    BY <1>1 DEF Edit, vars, store, locals
  <2> QED BY <2>1 DEF WholeInv, Honest, SucceededIsWhole
<1>2. ASSUME NEW p \in Procs, Step(p) PROVE WholeInv'
  <2>1. req = [req EXCEPT ![p] = req[p]] /\ req[p] \in Requests
    BY DEF WholeInv
  <2>2. CASE Begin(p)
    <3>1. PICK q \in Requests : req' = [req EXCEPT ![p] = q]
      BY <2>2 DEF Begin
    <3>2. pc' = [pc EXCEPT ![p] = "cache"] /\ rec' = [rec EXCEPT ![p] = NoRec] /\ rows' = rows
      BY <2>2 DEF Begin, Goto, store
    <3>3. Shaped(NoRec) /\ "cache" \notin Judged
      BY DEF Shaped, NoRec, Judged
    <3> QED BY <3>1, <3>2, <3>3, HonestMoved
  <2>3. CASE StartWalk(p)
    <3>1. CASE ctx[p] = "cancelled"
      <4>1. pc' = [pc EXCEPT ![p] = "idle"] /\ UNCHANGED <<rows, req, rec>>
        BY <2>3, <3>1 DEF StartWalk, Return, Goto, store
      <4> QED BY <4>1, HonestKept DEF Judged
    <3>2. CASE ctx[p] # "cancelled"
      <4>1. PICK new : new = [NoRec EXCEPT !.id = id[p], !.at = clock + 1,
                                !.depth = req[p].depth, !.build = req[p].build,
                                !.input = IF project THEN input ELSE "fixed"]
        OBVIOUS
      <4>2. rec' = [rec EXCEPT ![p] = new] /\ pc' = [pc EXCEPT ![p] = "walking"]
            /\ UNCHANGED <<rows, req>>
        BY <2>3, <3>2, <4>1 DEF StartWalk, Goto, store
      <4>3. Shaped(new) /\ new.depth = req[p].depth
        BY <4>1 DEF Shaped, NoRec
      <4>4. "walking" \notin Judged /\ req' = [req EXCEPT ![p] = req[p]]
        BY <2>1, <4>2 DEF Judged
      <4> QED BY <2>1, <4>2, <4>3, <4>4, HonestMoved
    <3> QED BY <3>1, <3>2
  <2>4. CASE EndWalk(p)
    <3>1. PICK f \in Findings :
            /\ CanFind(req[p].depth, ctx[p] = "cancelled", f)
            /\ rec' = [rec EXCEPT ![p] =
                        [Resolved(rec[p], f) EXCEPT !.finding = f,
                             !.status = WalkStatus(req[p].depth, ctx[p] = "cancelled", f)]]
      BY <2>4 DEF EndWalk, WholeInv
    <3>2. pc[p] = "walking" /\ pc' = [pc EXCEPT ![p] = "recognise"] /\ UNCHANGED <<rows, req>>
      BY <2>4 DEF EndWalk, Goto, store
    <3>3. PICK depth \in Depths, cancelled \in BOOLEAN :
            depth = req[p].depth /\ cancelled = (ctx[p] = "cancelled")
      <4>1. req[p].depth \in Depths
        BY <2>1, RequestsAssumption DEF RequestType
      <4>2. (ctx[p] = "cancelled") \in BOOLEAN
        OBVIOUS
      <4> QED BY <4>1, <4>2, Zenon
    <3>4. PICK st : /\ st = WalkStatus(depth, cancelled, f)
                    /\ st = "Succeeded" => Whole(f) \/ depth = "shallow"
      <4>1. f \in FindingType
        BY FindingsAssumption
      <4>2. CanFind(depth, cancelled, f)
        BY <3>1, <3>3, Zenon
      <4> QED BY <4>1, <4>2, VerdictFacts
    <3>5. PICK old : old = rec[p] /\ Shaped(old) /\ old.depth = depth
      BY <3>2, <3>3 DEF WholeInv, Honest
    <3>6. PICK mid : mid = Resolved(old, f) /\ Shaped(mid) /\ mid.depth = depth
      <4>1. Shaped(Resolved(old, f)) /\ Resolved(old, f).depth = depth
        <5>1. CASE f.graph = "unresolved"
          <6>1. Resolved(old, f) = [old EXCEPT !.input = NoRec.input, !.build = NoRec.build]
            BY <5>1 DEF Resolved
          <6> QED BY <3>5, <6>1 DEF Shaped
        <5>2. CASE f.graph # "unresolved"
          BY <3>5, <5>2 DEF Resolved
        <5> QED BY <5>1, <5>2
      <4> QED BY <4>1
    <3>7. PICK new : new = [mid EXCEPT !.finding = f, !.status = st]
      OBVIOUS
    <3>8. Shaped(new) /\ new.depth = depth /\ new.finding = f /\ new.status = st
      BY <3>6, <3>7 DEF Shaped
    <3>9. Sound(new)
      BY <3>4, <3>8 DEF Sound
    <3>10. rec' = [rec EXCEPT ![p] = new] /\ req' = [req EXCEPT ![p] = req[p]]
      BY <2>1, <3>1, <3>2, <3>3, <3>4, <3>5, <3>6, <3>7
    <3>11. PICK q \in Requests : q = req[p]
      BY <2>1
    <3>12. PICK label : label = "recognise"
      OBVIOUS
    <3>13. /\ pc' = [pc EXCEPT ![p] = label] /\ req' = [req EXCEPT ![p] = q] /\ rows' = rows
           /\ label # "walking"
      BY <3>2, <3>10, <3>11, <3>12
    <3>14. label = "walking" => new.depth = q.depth
      BY <3>13
    <3>15. label \in Judged => Sound(new)
      BY <3>9
    <3>16. rec' = [rec EXCEPT ![p] = new] /\ Shaped(new)
      BY <3>8, <3>10
    <3> QED BY <3>13, <3>14, <3>15, <3>16, HonestMoved
  <2>5. CASE Recognise(p) \/ Reuse(p)
    <3>1. /\ pc[p] \in Judged /\ UNCHANGED <<rows, req, rec>>
          /\ \E label \in {"reuse", "put", "idle"} : pc' = [pc EXCEPT ![p] = label]
      BY <2>5 DEF Recognise, Reuse, Return, Goto, store, locals, Judged
    <3> QED BY <3>1, HonestKept
  <2>6. CASE PutWalk(p)
    <3>1. /\ pc[p] = "put" /\ pc' = [pc EXCEPT ![p] = "emit"] /\ UNCHANGED <<req, rec>>
          /\ rows' = {s \in rows : s.id # rec[p].id} \cup {rec[p]}
      BY <2>6 DEF PutWalk, Goto, Stored, locals
    <3>2. pc'[p] = "emit" /\ \A q \in Procs \ {p} : pc'[q] = pc[q]
      BY <3>1 DEF WholeInv
    <3>3. \A q \in Procs : Honest(q)'
      BY <3>1, <3>2 DEF WholeInv, Honest, Judged
    <3>4. Sound(rec[p])
      BY <3>1 DEF WholeInv, Honest, Judged
    <3>5. SucceededIsWhole'
      BY <3>1, <3>4 DEF WholeInv, SucceededIsWhole, Sound
    <3> QED BY <3>1, <3>3, <3>5 DEF WholeInv
  <2>7. CASE ListForCache(p) \/ GetCached(p) \/ ResolveWalkID(p) \/ PutWalkFails(p)
             \/ EmitWalkCompleted(p) \/ EmitFails(p) \/ Kill(p)
    <3>1. /\ UNCHANGED <<rows, req, rec>>
          /\ \E label \in {"get", "resolve", "walk", "idle"} : pc' = [pc EXCEPT ![p] = label]
      BY <2>7 DEF ListForCache, GetCached, ResolveWalkID, PutWalkFails, EmitWalkCompleted,
                  EmitFails, Kill, Return, Goto, store, locals
    <3> QED BY <3>1, HonestKept DEF Judged
  <2>8. CASE Cancel(p)
    <3>1. UNCHANGED <<rows, pc, req, rec>>
      BY <2>8 DEF Cancel, store
    <3> QED BY <3>1 DEF WholeInv, Honest, SucceededIsWhole
  <2> QED BY <1>2, <2>2, <2>3, <2>4, <2>5, <2>6, <2>7, <2>8 DEF Step
<1> QED BY <1>1, <1>2 DEF Next

(* Whatever overlaps, fails or is killed, a walk stored as succeeded is    *)
(* the whole closure or a shallow walk (aggregateStatus and the two        *)
(* degradations of its verdict).                                           *)
THEOREM SuccessIsWhole == Spec => []SucceededIsWhole
<1>1. Init => WholeInv
  <2> SUFFICES ASSUME Init PROVE WholeInv
    OBVIOUS
  <2>1. \A p \in Procs : rec[p] = NoRec /\ pc[p] = "idle"
    BY DEF Init
  <2>2. Shaped(NoRec)
    BY DEF Shaped, NoRec
  <2>3. \A p \in Procs : Honest(p)
    BY <2>1, <2>2 DEF Honest, Judged
  <2>4. req \in [Procs -> Requests]
    BY RequestsAssumption DEF Init
  <2> QED BY <2>3, <2>4 DEF Init, WholeInv, SucceededIsWhole
<1>2. WholeInv => SucceededIsWhole
  BY DEF WholeInv
<1> QED BY <1>1, <1>2, WholeKeeps, PTL DEF Spec

\* A walk about to be logged has a row under its id.
Anchored(p) == pc[p] = "emit" => \E r \in rows : r.id = rec[p].id

AuditInv ==
    /\ DOMAIN pc = Procs /\ pc = [p \in Procs |-> pc[p]]
    /\ DOMAIN rec = Procs /\ rec = [p \in Procs |-> rec[p]]
    /\ \A p \in Procs : Anchored(p)
    /\ AuditedWalkIsHeld

(* A process whose walk is stored next keeps what the log needs, and so    *)
(* does one that goes anywhere else; no write takes an id from the store.  *)
LEMMA AuditKeeps == AuditInv /\ [Next]_vars => AuditInv'
<1> SUFFICES ASSUME AuditInv, [Next]_vars PROVE AuditInv'
  OBVIOUS
<1>1. CASE Edit \/ UNCHANGED vars
  <2>1. UNCHANGED <<rows, events, pc, rec>>
    BY <1>1 DEF Edit, vars, store, locals
  <2> QED BY <2>1 DEF AuditInv, AuditedWalkIsHeld, Anchored
<1>2. ASSUME NEW p \in Procs, Step(p) PROVE AuditInv'
  <2>1. CASE PutWalk(p)
    <3>1. /\ pc' = [pc EXCEPT ![p] = "emit"] /\ UNCHANGED <<events, rec>>
          /\ rows' = {s \in rows : s.id # rec[p].id} \cup {rec[p]}
      BY <2>1 DEF PutWalk, Goto, Stored, locals
    <3>2. /\ \E r \in rows' : r.id = rec[p].id
          /\ \A i : (\E r \in rows : r.id = i) => \E r \in rows' : r.id = i
      BY <3>1
    <3>3. pc'[p] = "emit" /\ \A q \in Procs \ {p} : pc'[q] = pc[q]
      BY <3>1 DEF AuditInv
    <3>4. \A q \in Procs : Anchored(q)'
      BY <3>1, <3>2, <3>3 DEF AuditInv, Anchored
    <3>5. AuditedWalkIsHeld'
      BY <3>1, <3>2 DEF AuditInv, AuditedWalkIsHeld, Anchored
    <3> QED BY <3>1, <3>4, <3>5 DEF AuditInv
  <2>2. CASE EmitWalkCompleted(p)
    <3>1. /\ pc[p] = "emit" /\ pc' = [pc EXCEPT ![p] = "idle"] /\ UNCHANGED <<rows, rec>>
          /\ events' \subseteq events \cup {rec[p]}
      BY <2>2 DEF EmitWalkCompleted, Return, Goto, locals
    <3>2. pc'[p] = "idle" /\ \A q \in Procs \ {p} : pc'[q] = pc[q]
      BY <3>1 DEF AuditInv
    <3>3. \A q \in Procs : Anchored(q)'
      BY <3>1, <3>2 DEF AuditInv, Anchored
    <3>4. AuditedWalkIsHeld'
      BY <3>1 DEF AuditInv, AuditedWalkIsHeld, Anchored
    <3> QED BY <3>1, <3>3, <3>4 DEF AuditInv
  <2>3. CASE Begin(p) \/ StartWalk(p) \/ EndWalk(p)
    <3>1. /\ UNCHANGED <<rows, events>>
          /\ \E label \in {"cache", "idle", "walking", "recognise"} : pc' = [pc EXCEPT ![p] = label]
      BY <2>3 DEF Begin, StartWalk, EndWalk, Return, Goto, store
    <3>2. \E new : rec' = [rec EXCEPT ![p] = new]
      <4>1. rec = [rec EXCEPT ![p] = rec[p]]
        BY DEF AuditInv
      <4>2. CASE StartWalk(p) /\ ctx[p] = "cancelled"
        BY <4>1, <4>2 DEF StartWalk
      <4>3. CASE StartWalk(p) /\ ctx[p] # "cancelled"
        BY <4>3 DEF StartWalk
      <4>4. CASE Begin(p) \/ EndWalk(p)
        BY <4>4 DEF Begin, EndWalk
      <4> QED BY <2>3, <4>2, <4>3, <4>4
    <3>3. pc'[p] # "emit" /\ \A q \in Procs \ {p} : pc'[q] = pc[q] /\ rec'[q] = rec[q]
      BY <3>1, <3>2 DEF AuditInv
    <3>4. \A q \in Procs : Anchored(q)'
      BY <3>1, <3>3 DEF AuditInv, Anchored
    <3>5. AuditedWalkIsHeld'
      BY <3>1 DEF AuditInv, AuditedWalkIsHeld
    <3> QED BY <3>1, <3>2, <3>4, <3>5 DEF AuditInv
  <2>4. CASE ListForCache(p) \/ GetCached(p) \/ ResolveWalkID(p) \/ Recognise(p) \/ Reuse(p)
             \/ PutWalkFails(p) \/ EmitFails(p) \/ Kill(p)
    <3>1. /\ UNCHANGED <<rows, events, rec>>
          /\ \E label \in {"get", "resolve", "walk", "reuse", "put", "idle"} :
               pc' = [pc EXCEPT ![p] = label]
      BY <2>4 DEF ListForCache, GetCached, ResolveWalkID, Recognise, Reuse, PutWalkFails,
                  EmitFails, Kill, Return, Goto, store, locals
    <3>2. pc'[p] # "emit" /\ \A q \in Procs \ {p} : pc'[q] = pc[q]
      BY <3>1 DEF AuditInv
    <3>3. \A q \in Procs : Anchored(q)'
      BY <3>1, <3>2 DEF AuditInv, Anchored
    <3>4. AuditedWalkIsHeld'
      BY <3>1 DEF AuditInv, AuditedWalkIsHeld
    <3> QED BY <3>1, <3>3, <3>4 DEF AuditInv
  <2>5. CASE Cancel(p)
    <3>1. UNCHANGED <<rows, events, pc, rec>>
      BY <2>5 DEF Cancel, store
    <3> QED BY <3>1 DEF AuditInv, AuditedWalkIsHeld, Anchored
  <2> QED BY <1>2, <2>1, <2>2, <2>3, <2>4, <2>5 DEF Step
<1> QED BY <1>1, <1>2 DEF Next

(* However many runs overlap, stop or are killed, a walk_completed line    *)
(* names a walk the store has (Execute stores before it logs, and PutWalk  *)
(* never takes an id away).                                                *)
THEOREM AuditIsHeld == Spec => []AuditedWalkIsHeld
<1>1. Init => AuditInv
  BY DEF Init, AuditInv, AuditedWalkIsHeld, Anchored
<1>2. AuditInv => AuditedWalkIsHeld
  BY DEF AuditInv
<1> QED BY <1>1, <1>2, AuditKeeps, PTL DEF Spec
=============================================================================
