---------------------------- MODULE FactLedger ----------------------------
(***************************************************************************)
(* The append-only ledger of fetch measurements of ONE published module    *)
(* coordinate at one pipeline version, and the processes that measure it:  *)
(* FetchModuleUseCase (internal/fetch/application), the composition of the *)
(* rows into the record a reader gets (internal/fetch/domain), the SQLite  *)
(* store with its audit log, and the presence of artefacts in the blob     *)
(* store.                                                                  *)
(*                                                                         *)
(* Every process runs one fetch after another.  A step is the code between *)
(* two accesses to what processes share (rows, blobs, audit log), so a     *)
(* composed read is stale by the time the row resting on it is appended.   *)
(* What the proxy serves, what the checksum database and git answer, and   *)
(* which step fails are the environment's choice.                          *)
(***************************************************************************)
EXTENDS Naturals, FiniteSets

CONSTANTS Procs,            \* kanonarion processes sharing one store
          Zips, GoMods,     \* h1 hashes the proxy may serve
          PinnedZip, PinnedGoMod, \* what checksum database and go.sum record
          NoHash,           \* the zero ModuleHash
          Requests,         \* the fetches processes may run
          Answers,          \* what transport, database and git may answer
          Evictable,        \* kinds of blob somebody may remove
          MaxMeasurements   \* bound on the measurements of one behaviour

ASSUME HashAssumption ==
    /\ PinnedZip \in Zips /\ PinnedGoMod \in GoMods
    /\ NoHash \notin Zips \cup GoMods
ASSUME BoundAssumption == MaxMeasurements \in Nat

Kinds == {"sumdb", "vcs"}
Provenances == {"absent", "rechecked", "inherited", "unavailable", "private_module"}
Statuses == {"Verified", "VerifiedBySumDBOnly", "VerifiedByGoSum", "Unverified"}

(* FetchRequest, with the route executeOffProxy takes, whether the project *)
(* go.sum lists the module, and the operator's downgrade permission.       *)
RequestType == [route : {"proxy", "modcache", "private"}, goModOnly : BOOLEAN,
                force : BOOLEAN, skipVCS : BOOLEAN, goSum : BOOLEAN,
                allow : BOOLEAN]
(* What one verification may meet: insecure transport or inconsistent      *)
(* content, the database's answer ("none" is a settled one: GOSUMDB=off,   *)
(* no hash line), and whether git reproduced the zip, did not, or could    *)
(* not run (no git, remote silent past the bound).                         *)
AnswerType == [contentOK : BOOLEAN, sumdb : {"answered", "failed", "none"},
               vcs : {"confirmed", "unconfirmed", "unavailable"}]
ASSUME RequestAssumption ==
    /\ Requests \subseteq RequestType /\ Requests # {}
    /\ Answers \subseteq AnswerType

(* A FactRecord.  at is the measurement's FetchedAt; measurements are taken *)
(* at distinct times here, so at also stands for the content hash.         *)
Row == [at : Nat, zip : Zips \cup {NoHash}, mod : GoMods \cup {NoHash},
        status : Statuses, lookupFailed : BOOLEAN,
        leg : [Kinds -> Provenances], src : [Kinds -> Nat]]
NoRow == [at |-> 0, zip |-> NoHash, mod |-> NoHash, status |-> "Unverified",
          lookupFailed |-> FALSE, leg |-> [k \in Kinds |-> "absent"],
          src |-> [k \in Kinds |-> 0]]

VARIABLES rows,      \* the fetch_records rows of this coordinate
          blobs,     \* artefacts the blob store holds
          log,       \* audit.jsonl: <<event, at of the measurement>>
          clock,     \* measurements taken so far
          pc, req,   \* each process's place and request
          m,         \* its measurement
          existing,  \* the composed record it last read, or NoRow
          result,    \* what its last run returned, or NoRow
          lost,      \* history: blobs removed since its run started, while it matters
          diverged,  \* history: the ledger had diverged when its run started
          torn       \* history: rows whose writer stopped before mirroring them

vars == <<rows, blobs, log, clock, pc, req, m, existing, result, lost,
          diverged, torn>>

---------------------------------------------------------------------------
(* Pure fetch-domain rules.                                                *)

IsGoModOnly(r) == r.zip = NoHash
Identity(r) == IF IsGoModOnly(r) THEN <<"gomod", r.mod>> ELSE <<"zip", r.zip>>
BlobsOf(r) == {<<"gomod", r.mod>>} \cup
              (IF IsGoModOnly(r) THEN {} ELSE {<<"zip", r.zip>>})

verificationStrength == [s \in Statuses |->
    CASE s = "Verified" -> 4 [] s = "VerifiedBySumDBOnly" -> 3
      [] s = "VerifiedByGoSum" -> 2 [] OTHER -> 0]

(* The detail-text test for records of older builds is left out.           *)
RecordIsCacheable(r) == ~r.lookupFailed /\ r.leg["vcs"] # "unavailable"

ReplacementWeakensAnchor(old, new) ==
    verificationStrength[new.status] < verificationStrength[old.status]

(* Mutant: the newest measurement is served, eligible or not.              *)
ServesBefore_Newest(a, b) == a.at > b.at

(* The ranks the lexicographic comparison goes through, most significant   *)
(* first; one build writes one schema version, so it never decides.        *)
ServesBefore(a, b) ==
    LET prefer(x, y, rest) == (x /\ ~y) \/ (x = y /\ rest)
        strength(r) == verificationStrength[r.status]
    IN  prefer(RecordIsCacheable(a), RecordIsCacheable(b),
          prefer(~IsGoModOnly(a), ~IsGoModOnly(b),
            \/ strength(a) > strength(b)
            \/ strength(a) = strength(b) /\ a.at > b.at))

(* Compose: the record served for a non-empty, consistent set of rows.     *)
Served(rs) == CHOOSE r \in rs : \A s \in rs \ {r} : ServesBefore(r, s)

(* FindDivergence: two rows that both carry a hash disagree on it.         *)
Divergent(rs) == \E r, s \in rs :
    \/ r.mod # s.mod
    \/ r.zip # s.zip /\ ~IsGoModOnly(r) /\ ~IsGoModOnly(s)

(* establishedAtOfSource: follow inherited legs to the record that is not  *)
(* itself a copy; 0 when the trail leaves the set or never ends.           *)
EstablishedAtOfSource(rs, k, source) ==
    LET named(h) == CHOOSE r \in rs : r.at = h
        hop[n \in 0..Cardinality(rs)] ==
            IF n = 0 THEN source
            ELSE LET h == hop[n - 1]
                 IN  IF /\ \E r \in rs : r.at = h
                        /\ named(h).leg[k] = "inherited"
                     THEN named(h).src[k] ELSE h
        end == hop[Cardinality(rs)]
    IN  IF (\E r \in rs : r.at = end) /\ named(end).leg[k] # "inherited"
        THEN end ELSE 0

(* RecordLegs and composeLegs: the legs of one kind, dated.                *)
LegsOf(rs, k) ==
    {[provenance |-> r.leg[k],
      established |-> IF r.leg[k] = "inherited"
                      THEN EstablishedAtOfSource(rs, k, r.src[k]) ELSE r.at] :
        r \in {s \in rs : s.leg[k] # "absent"}}

EstablishedNothing(l) == l.provenance \in {"unavailable", "private_module"}

LegIsBetter(candidate, current) ==
    IF EstablishedNothing(candidate) # EstablishedNothing(current)
    THEN EstablishedNothing(current)
    ELSE \/ candidate.established > current.established
         \/ /\ candidate.established = current.established
            /\ candidate.provenance = "rechecked"
            /\ current.provenance = "inherited"

ComposedLeg(rs, k) ==
    CHOOSE l \in LegsOf(rs, k) : \A o \in LegsOf(rs, k) : ~LegIsBetter(o, l)

---------------------------------------------------------------------------
(* Verification: what one measurement of the bytes in hand establishes.    *)

(* checkProjectGoSum: an entry that disagrees is a hard stop, an absent    *)
(* one falls through to the checksum database.                             *)
checkProjectGoSum(zip, mod) == zip = PinnedZip /\ mod = PinnedGoMod
checkProjectGoSumGoMod(mod) == mod = PinnedGoMod

(* verifyAgainstGoSum: the module-cache routes have no other anchor.       *)
GoSumAllows(q, zip, mod) ==
    IF q.goSum
    THEN IF q.goModOnly THEN checkProjectGoSumGoMod(mod)
         ELSE checkProjectGoSum(zip, mod)
    ELSE q.route = "proxy"

(* The checksum database's answer about the zip and its go.mod; "passed"   *)
(* leaves the status to the VCS leg.  A failed content check comes first   *)
(* and the database is then not asked.                                     *)
Answered(e) == e.contentOK /\ e.sumdb = "answered"

SumDBStatus(q, r, e) ==
    CASE ~e.contentOK -> "Unverified"
      [] Answered(e) -> IF r.zip = PinnedZip /\ r.mod = PinnedGoMod
                        THEN "passed" ELSE "Unverified"
      [] OTHER -> IF q.goSum THEN "VerifiedByGoSum" ELSE "Unverified"

sumdbLeg(e) == IF Answered(e) THEN "rechecked" ELSE "absent"

vcsLeg(q, e) == IF q.skipVCS THEN "absent"
                ELSE IF e.vcs = "unavailable" THEN "unavailable"
                ELSE "rechecked"

(* verify, on the full proxy path: only a reproduction from git makes the  *)
(* strongest status, and a reproduction that fails costs nothing more.     *)
Verify(q, r, e) ==
    [r EXCEPT
      !.status = IF SumDBStatus(q, r, e) # "passed" THEN SumDBStatus(q, r, e)
                 ELSE IF ~q.skipVCS /\ e.vcs = "confirmed" THEN "Verified"
                 ELSE "VerifiedBySumDBOnly",
      !.lookupFailed = e.contentOK /\ e.sumdb = "failed",
      !.leg["sumdb"] = sumdbLeg(e),
      !.leg["vcs"] = vcsLeg(q, e)]

(* verifyGoModOnly: the go.mod hash is the anchor, no VCS leg is performed. *)
VerifyGoModOnly(q, r, e) ==
    [r EXCEPT
      !.status = CASE ~e.contentOK -> "Unverified"
                   [] Answered(e) -> IF r.mod = PinnedGoMod
                                     THEN "VerifiedBySumDBOnly" ELSE "Unverified"
                   [] OTHER -> IF q.goSum THEN "VerifiedByGoSum" ELSE "Unverified",
      !.lookupFailed = e.contentOK /\ e.sumdb = "failed",
      !.leg["sumdb"] = sumdbLeg(e)]

(* executeFromCache: the local go.sum is the sole anchor.                  *)
VerifyFromCache(q, r) ==
    [r EXCEPT !.status = "VerifiedByGoSum",
              !.leg["vcs"] = IF q.route = "private" /\ ~q.goModOnly
                             THEN "private_module" ELSE "absent"]

(* Mutant: a leg is taken from any earlier measurement of the coordinate.  *)
InheritFrom_AnyArtefact(rs, r, k) ==
    LET sources == {s \in rs : s.leg[k] # "absent"}
    IN  IF r.leg[k] # "absent" \/ sources = {} THEN r
        ELSE LET latest == CHOOSE s \in sources : \A t \in sources : t.at <= s.at
             IN  [r EXCEPT !.leg[k] = "inherited", !.src[k] = latest.at]

(* inheritLegs: a leg not performed is copied from the latest earlier      *)
(* measurement of the same artefact that carries one.                      *)
InheritFrom(rs, r, k) ==
    LET sources == {s \in rs : Identity(s) = Identity(r) /\ s.leg[k] # "absent"}
    IN  IF r.leg[k] # "absent" \/ sources = {} THEN r
        ELSE LET latest == CHOOSE s \in sources : \A t \in sources : t.at <= s.at
             IN  [r EXCEPT !.leg[k] = "inherited", !.src[k] = latest.at]

InheritAll(rs, r) == InheritFrom(rs, InheritFrom(rs, r, "sumdb"), "vcs")

---------------------------------------------------------------------------
Init ==
    /\ rows = {} /\ blobs = {} /\ log = {} /\ clock = 0
    /\ pc = [p \in Procs |-> "idle"]
    /\ req = [p \in Procs |-> CHOOSE q \in Requests : TRUE]
    /\ m = [p \in Procs |-> NoRow]
    /\ existing = [p \in Procs |-> NoRow]
    /\ result = [p \in Procs |-> NoRow]
    /\ lost = [p \in Procs |-> {}]
    /\ diverged = [p \in Procs |-> FALSE]
    /\ torn = {}

ledger == <<rows, log>>
history == <<lost, diverged, torn>>
Goto(p, label) == pc' = [pc EXCEPT ![p] = label]

(* The run ends with record r (NoRow when it failed), its locals are gone. *)
Return(p, r) ==
    /\ Goto(p, "idle")
    /\ result' = [result EXCEPT ![p] = r]
    /\ m' = [m EXCEPT ![p] = NoRow]
    /\ existing' = [existing EXCEPT ![p] = NoRow]

(* A run starts.  Only the full proxy path reads the ledger when forced.   *)
Execute(p) ==
    /\ pc[p] = "idle"
    /\ \E q \in Requests :
        /\ req' = [req EXCEPT ![p] = q]
        /\ Goto(p, IF q.force /\ (q.goModOnly \/ q.route # "proxy")
                   THEN "download" ELSE "cache")
    /\ result' = [result EXCEPT ![p] = NoRow]
    /\ lost' = [lost EXCEPT ![p] = {}]
    /\ diverged' = [diverged EXCEPT ![p] = Divergent(rows)]
    /\ UNCHANGED <<ledger, blobs, clock, m, existing, torn>>

(* GetFetchRecord for the cache check or the revalidation; a divergence is *)
(* an error, which Stop takes.                                             *)
ReadForReuse(p) ==
    /\ pc[p] = "cache"
    /\ ~Divergent(rows)
    /\ existing' = [existing EXCEPT ![p] = IF rows = {} THEN NoRow ELSE Served(rows)]
    /\ Goto(p, IF rows = {} THEN "download" ELSE "held")
    /\ UNCHANGED <<ledger, blobs, clock, req, m, result, history>>

(* Mutant: a record is taken to be readable because it is stored.          *)
cachedArtefactsReadable_Assumed(r) == r \in rows

cachedArtefactsReadable(r) == BlobsOf(r) \subseteq blobs

(* The module-cache routes do not ask whether the record is cacheable.     *)
CacheHits(q, r) ==
    /\ ~q.force
    /\ q.route = "proxy" => RecordIsCacheable(r)
    /\ cachedArtefactsReadable(r)
    /\ q.goModOnly \/ ~IsGoModOnly(r)

CacheHit(p) ==
    /\ pc[p] = "held"
    /\ CacheHits(req[p], existing[p])
    /\ Return(p, existing[p])
    /\ UNCHANGED <<ledger, blobs, clock, req, history>>

(* tryRevalidate: a forced run takes the bytes it holds; the go.sum check  *)
(* still applies to them, and nothing is stored again.                     *)
CanRevalidate(q, r) == q.force /\ ~IsGoModOnly(r) /\ cachedArtefactsReadable(r)

Revalidate(p) ==
    /\ pc[p] = "held"
    /\ CanRevalidate(req[p], existing[p])
    /\ GoSumAllows(req[p], existing[p].zip, existing[p].mod)
    /\ m' = [m EXCEPT ![p] = [NoRow EXCEPT !.zip = existing[p].zip,
                                           !.mod = existing[p].mod]]
    /\ existing' = [existing EXCEPT ![p] = NoRow]
    /\ Goto(p, "verify")
    /\ UNCHANGED <<ledger, blobs, clock, req, result, history>>

CacheMiss(p) ==
    /\ pc[p] = "held"
    /\ ~CacheHits(req[p], existing[p]) /\ ~CanRevalidate(req[p], existing[p])
    /\ existing' = [existing EXCEPT ![p] = NoRow]
    /\ Goto(p, "download")
    /\ UNCHANGED <<ledger, blobs, clock, req, m, result, history>>

(* infoAndDownload and readAndCrossCheck, before any blob is written.      *)
Download(p) ==
    /\ pc[p] = "download"
    /\ \E zip \in Zips, mod \in GoMods :
        /\ GoSumAllows(req[p], zip, mod)
        /\ m' = [m EXCEPT ![p] =
                    [NoRow EXCEPT !.zip = IF req[p].goModOnly THEN NoHash ELSE zip,
                                  !.mod = mod]]
    /\ Goto(p, IF req[p].goModOnly THEN "putGoMod" ELSE "putZip")
    /\ UNCHANGED <<ledger, blobs, clock, req, existing, result, history>>

PutZip(p) ==
    /\ pc[p] = "putZip"
    /\ blobs' = blobs \cup {<<"zip", m[p].zip>>}
    /\ Goto(p, "putGoMod")
    /\ UNCHANGED <<ledger, clock, req, m, existing, result, history>>

PutGoMod(p) ==
    /\ pc[p] = "putGoMod"
    /\ blobs' = blobs \cup {<<"gomod", m[p].mod>>}
    /\ Goto(p, "verify")
    /\ UNCHANGED <<ledger, clock, req, m, existing, result, history>>

(* The verification pipeline and the timestamp of the measurement.         *)
Measure(p) ==
    /\ pc[p] = "verify"
    /\ clock < MaxMeasurements
    /\ clock' = clock + 1
    /\ \E e \in Answers :
        LET bytes == [m[p] EXCEPT !.at = clock + 1]
        IN  m' = [m EXCEPT ![p] =
                    IF req[p].route # "proxy" THEN VerifyFromCache(req[p], bytes)
                    ELSE IF req[p].goModOnly THEN VerifyGoModOnly(req[p], bytes, e)
                    ELSE Verify(req[p], bytes, e)]
    /\ Goto(p, "persist")
    /\ UNCHANGED <<ledger, blobs, req, existing, result, lost, diverged, torn>>

(* Mutant: a disagreement between stored rows is not an error.             *)
ReadExisting_IgnoresDivergence(p) ==
    /\ pc[p] = "persist"
    /\ existing' = [existing EXCEPT ![p] = IF rows = {} THEN NoRow ELSE Served(rows)]
    /\ Goto(p, "inherit")
    /\ UNCHANGED <<ledger, blobs, clock, req, m, result, history>>

(* persistRecord: the composed record the guard compares against ...       *)
ReadExisting(p) ==
    /\ pc[p] = "persist"
    /\ ~Divergent(rows)
    /\ existing' = [existing EXCEPT ![p] = IF rows = {} THEN NoRow ELSE Served(rows)]
    /\ Goto(p, "inherit")
    /\ UNCHANGED <<ledger, blobs, clock, req, m, result, history>>

(* ... the legs copied from a second, separate listing ...                 *)
InheritLegs(p) ==
    /\ pc[p] = "inherit"
    /\ m' = [m EXCEPT ![p] = InheritAll(rows, m[p])]
    /\ Goto(p, "decide")
    /\ UNCHANGED <<ledger, blobs, clock, req, existing, result, history>>

(* ... the verification-strength guard, with its artefact exemption ...    *)
Weakens(p) ==
    /\ existing[p] # NoRow
    /\ ~(IsGoModOnly(existing[p]) /\ ~IsGoModOnly(m[p]))
    /\ ReplacementWeakensAnchor(existing[p], m[p])

RefuseWeaker(p) ==
    /\ pc[p] = "decide"
    /\ Weakens(p) /\ ~req[p].allow
    /\ log' = log \cup {<<"refused", m[p].at>>}
    /\ Return(p, IF cachedArtefactsReadable(existing[p]) THEN existing[p] ELSE m[p])
    /\ UNCHANGED <<rows, blobs, clock, req, history>>

RecordDowngrade(p) ==
    /\ pc[p] = "decide"
    /\ Weakens(p) /\ req[p].allow
    /\ log' = log \cup {<<"downgraded", m[p].at>>}
    /\ Goto(p, "append")
    /\ UNCHANGED <<rows, blobs, clock, req, m, existing, result, history>>

(* Mutant: the insert does nothing when the coordinate already has a row.  *)
AppendRow_OnConflictCoordinate(p) ==
    /\ pc[p] = "append" \/ (pc[p] = "decide" /\ ~Weakens(p))
    /\ rows' = IF rows = {} THEN {m[p]} ELSE rows
    /\ Goto(p, "mirror")
    /\ UNCHANGED <<log, blobs, clock, req, m, existing, result, history>>

(* ... and the append: the row, then its line in the audit log.            *)
AppendRow(p) ==
    /\ pc[p] = "append" \/ (pc[p] = "decide" /\ ~Weakens(p))
    /\ rows' = rows \cup {m[p]}
    /\ Goto(p, "mirror")
    /\ UNCHANGED <<log, blobs, clock, req, m, existing, result, history>>

MirrorToAudit(p) ==
    /\ pc[p] = "mirror"
    /\ log' = log \cup {<<"written", m[p].at>>}
    /\ Goto(p, "reread")
    /\ UNCHANGED <<rows, blobs, clock, req, m, existing, result, history>>

(* The caller gets the ledger's composed answer, not the measurement.      *)
ReturnComposed(p) ==
    /\ pc[p] = "reread"
    /\ ~Divergent(rows)
    /\ Return(p, Served(rows))
    /\ UNCHANGED <<ledger, blobs, clock, req, history>>

(* A run ends early: a proxy, blob, store, signer or go.sum error, a read  *)
(* that finds the ledger diverged, a cancelled context or a crash.         *)
Stop(p) ==
    /\ pc[p] # "idle"
    /\ Return(p, NoRow)
    /\ torn' = IF pc[p] = "mirror" THEN torn \cup {m[p].at} ELSE torn
    /\ UNCHANGED <<ledger, blobs, clock, req, lost, diverged>>

(* Someone removes an artefact from the blob directory.                    *)
Evict ==
    /\ \E b \in blobs :
        /\ b[1] \in Evictable
        /\ blobs' = blobs \ {b}
        /\ lost' = [p \in Procs |->
                      IF pc[p] = "idle" /\ result[p] = NoRow THEN lost[p]
                      ELSE lost[p] \cup {b}]
    /\ UNCHANGED <<ledger, clock, pc, req, m, existing, result, diverged,
                   torn>>

Step(p) ==
    \/ Execute(p) \/ ReadForReuse(p) \/ CacheHit(p) \/ CacheMiss(p)
    \/ Revalidate(p) \/ Download(p) \/ PutZip(p) \/ PutGoMod(p) \/ Measure(p)
    \/ ReadExisting(p) \/ InheritLegs(p) \/ RefuseWeaker(p)
    \/ RecordDowngrade(p) \/ AppendRow(p) \/ MirrorToAudit(p)
    \/ ReturnComposed(p) \/ Stop(p)

Next == Evict \/ \E p \in Procs : Step(p)

Spec == Init /\ [][Next]_vars

---------------------------------------------------------------------------
(* Type invariant.                                                         *)
TypeOK ==
    /\ rows \subseteq Row /\ Cardinality(rows) <= clock
    /\ blobs \subseteq {"zip", "gomod"} \X (Zips \cup GoMods)
    /\ log \subseteq {"written", "refused", "downgraded"} \X (1..clock)
    /\ clock \in 0..MaxMeasurements
    /\ pc \in [Procs -> {"idle", "cache", "held", "download", "putZip",
                         "putGoMod", "verify", "persist", "inherit", "decide",
                         "append", "mirror", "reread"}]
    /\ req \in [Procs -> Requests]
    /\ m \in [Procs -> Row] /\ existing \in [Procs -> Row]
    /\ result \in [Procs -> Row]
    /\ lost \in [Procs -> SUBSET ({"zip", "gomod"} \X (Zips \cup GoMods))]
    /\ diverged \in [Procs -> BOOLEAN] /\ torn \subseteq 1..clock

(* Whatever runs overlap, stop half way or are permitted to downgrade: an  *)
(* answer that rests on checks that ran is never displaced by one that     *)
(* rests on checks that did not, nor by a shallower one, nor, at its depth, *)
(* by a weaker anchor (servesBefore and the append-only store).            *)
ServedNeverWeakens == [][
    rows # {} /\ rows' # rows /\ RecordIsCacheable(Served(rows)) =>
        LET old == Served(rows)
            new == Served(rows')
        IN  /\ RecordIsCacheable(new)
            /\ IsGoModOnly(new) => IsGoModOnly(old)
            /\ IsGoModOnly(new) = IsGoModOnly(old)
               => ~ReplacementWeakensAnchor(old, new)]_vars

(* A run that succeeds hands back a record whose artefacts it can read:    *)
(* the go.mod, and the zip when the run was a full fetch and the record    *)
(* names one, unless somebody removed them while the run was under way.    *)
ReturnedIsReadable == \A p \in Procs :
    result[p] # NoRow =>
        {b \in BlobsOf(result[p]) : b[1] = "zip" => ~req[p].goModOnly}
            \subseteq blobs \cup lost[p]

(* The ledger fails closed: a run that starts after two rows disagree      *)
(* never serves a record, and never adds a row to the disagreement.        *)
DivergedLedgerIsClosed == \A p \in Procs :
    diverged[p] => /\ result[p] = NoRow
                   /\ pc[p] \in {"idle", "cache", "download", "putZip",
                                 "putGoMod", "verify", "persist"}

(* The audit log and the ledger agree: a fact_record_written line names a  *)
(* row that is stored, and a stored row has its line unless its writer is  *)
(* about to write it or stopped between the two.                           *)
AuditMatchesLedger ==
    /\ \A e \in log : e[1] = "written" => \E r \in rows : r.at = e[2]
    /\ \A r \in rows :
        \/ <<"written", r.at>> \in log
        \/ r.at \in torn
        \/ \E p \in Procs : pc[p] = "mirror" /\ m[p] = r

(* "inherited" is falsifiable: every inherited leg names a stored row of   *)
(* the same artefact that carries the leg, and the chain of copies ends at *)
(* a row that is not a copy, so the composed leg can always be dated.      *)
InheritanceIsGrounded == \A r \in rows, k \in Kinds :
    r.leg[k] = "inherited" =>
        /\ \E s \in rows : /\ s.at = r.src[k]
                           /\ Identity(s) = Identity(r)
                           /\ s.leg[k] # "absent"
        /\ EstablishedAtOfSource(rows, k, r.src[k]) # 0

(* The composed leg of a kind that claims a check (rechecked or inherited) *)
(* bears the date of a measurement that performed it.                      *)
EvidenceIsReal(k) ==
    LegsOf(rows, k) # {} =>
        LET l == ComposedLeg(rows, k)
        IN  ~EstablishedNothing(l) =>
                \E r \in rows : r.at = l.established /\ r.leg[k] = "rechecked"

(* It holds of the checksum-database leg: a lookup either answered or left *)
(* no leg at all (sumdbLeg).                                               *)
SumDBEvidenceIsReal == EvidenceIsReal("sumdb")

(* A row weaker than the record its writer compared it with is appended    *)
(* only after the operator's decision is in the audit log, so a crash      *)
(* leaves a line without a row and never a row without its line.           *)
DowngradesAreExplained == \A p \in Procs :
    pc[p] \in {"append", "mirror", "reread"} /\ Weakens(p) =>
        <<"downgraded", m[p].at>> \in log

(* The ledger is accounted for, whoever stopped where: every row and every *)
(* line of the audit log match, and a weaker row has its explanation.      *)
LedgerIsAccountedFor == TypeOK /\ AuditMatchesLedger /\ DowngradesAreExplained

(* What a record claims to have inherited was established by somebody:     *)
(* inheritLegs copies along a chain that ends at a measurement.            *)
ClaimsAreGrounded == InheritanceIsGrounded /\ SumDBEvidenceIsReal

---------------------------------------------------------------------------
(* A statement of the repository that the code does not keep.              *)

(* persistrecord.go: "Inheritance must not launder evidence"; an inherited *)
(* VCS leg "IS backed by cross-verification evidence".                     *)
VCSEvidenceIsReal == EvidenceIsReal("vcs")
====
