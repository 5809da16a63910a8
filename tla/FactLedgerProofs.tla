-------------------------- MODULE FactLedgerProofs --------------------------
(***************************************************************************)
(* Proofs about FactLedger: for any number of processes, hashes, requests, *)
(* answers and measurements, every row is accounted for in the audit log,  *)
(* an answer never weakens, a diverged ledger is closed, what a run hands  *)
(* back can be read, and what a record claims to inherit was established.  *)
(***************************************************************************)
EXTENDS FactLedger, FiniteSetTheorems, WellFoundedInduction, TLAPS

-----------------------------------------------------------------------------
(* The inductive invariant.                                                *)

Stored == {"mirror", "reread"}
Deciding == {"decide", "append"}
Measured == {"persist", "inherit"} \cup Deciding \cup Stored
InHand == {"verify"} \cup Measured

\* A row bears the time of one measurement.
RowsAreTimed ==
    /\ \A r \in rows : r.at \in 1..clock /\ r.mod \in GoMods
    /\ \A r, s \in rows : r.at = s.at => r = s

\* A measurement has its own time, and is a row once its writer stored it.
MeasurementsAreOwn ==
    /\ \A p \in Procs : pc[p] \in Measured => m[p].at \in 1..clock
    /\ \A p, q \in Procs :
         pc[p] \in Measured /\ pc[q] \in Measured /\ m[p].at = m[q].at => p = q
    /\ \A p \in Procs : pc[p] \in Measured \ Stored => \A r \in rows : r.at # m[p].at
    /\ \A p \in Procs : pc[p] \in Stored => m[p] \in rows

\* One row serves before all the others.
AnswerExists == rows # {} => \E r \in rows : \A s \in rows \ {r} : ServesBefore(r, s)

\* The artefacts of a measurement were held when it was taken.
Bytes(p) ==
    /\ pc[p] \in {"putZip", "putGoMod"} \cup InHand =>
         m[p].mod \in GoMods /\ (req[p].goModOnly \/ ~IsGoModOnly(m[p]))
    /\ pc[p] = "putZip" => ~IsGoModOnly(m[p])
    /\ pc[p] = "putGoMod" /\ ~IsGoModOnly(m[p]) => <<"zip", m[p].zip>> \in blobs \cup lost[p]
    /\ pc[p] \in InHand => BlobsOf(m[p]) \subseteq blobs \cup lost[p]
    /\ pc[p] = "held" => existing[p] \in rows

BytesAreHeld == \A p \in Procs : Bytes(p)

\* Rows that disagree go on disagreeing.
DivergenceStays == \A p \in Procs : diverged[p] => Divergent(rows)

IInv ==
    /\ TypeOK /\ RowsAreTimed /\ MeasurementsAreOwn /\ AnswerExists /\ BytesAreHeld
    /\ DivergenceStays /\ AuditMatchesLedger /\ DowngradesAreExplained
    /\ DivergedLedgerIsClosed /\ ReturnedIsReadable

\* A chain of n copies from the row of time h to one that is not a copy.
Chain(rs, k, h, n) ==
    \E f \in [0..n -> {r.at : r \in rs}] :
        /\ f[0] = h
        /\ \A i \in 0..(n - 1) : \E r \in rs :
             r.at = f[i] /\ r.leg[k] = "inherited" /\ r.src[k] = f[i + 1]
        /\ \E r \in rs : r.at = f[n] /\ r.leg[k] \notin {"inherited", "absent"}

\* An inherited leg names a row of the artefact, and copies fewer than there are rows.
GroundedIn(rs, r, k, size) ==
    r.leg[k] = "inherited" =>
        /\ \E s \in rs : s.at = r.src[k] /\ Identity(s) = Identity(r) /\ s.leg[k] # "absent"
        /\ \E n \in 0..(size - 1) : Chain(rs, k, r.src[k], n)

\* The checksum database answered or left no leg.
SumDBAnswered(r) == r.leg["sumdb"] \in {"absent", "rechecked", "inherited"}

ChainsEnd ==
    /\ \A r \in rows : SumDBAnswered(r) /\ \A k \in Kinds : GroundedIn(rows, r, k, Cardinality(rows))
    /\ \A p \in Procs : SumDBAnswered(m[p])
    /\ \A p \in Procs : pc[p] \notin Deciding \cup Stored =>
         \A k \in Kinds : m[p].leg[k] # "inherited"
    /\ \A p \in Procs : pc[p] \in Deciding =>
         \A k \in Kinds : GroundedIn(rows, m[p], k, Cardinality(rows) + 1)

-----------------------------------------------------------------------------
(* Rows and the record served.                                             *)

(* Rows built from the empty one are rows.                                 *)
LEMMA RowFacts ==
    /\ NoRow \in Row /\ NoRow.at = 0 /\ NoRow.zip = NoHash /\ NoRow.mod = NoHash
    /\ \A k \in Kinds : NoRow.leg[k] = "absent"
    /\ \A zip \in Zips \cup {NoHash}, mod \in GoMods :
         /\ [NoRow EXCEPT !.zip = zip, !.mod = mod] \in Row
         /\ [NoRow EXCEPT !.zip = zip, !.mod = mod].zip = zip
         /\ [NoRow EXCEPT !.zip = zip, !.mod = mod].mod = mod
         /\ [NoRow EXCEPT !.zip = zip, !.mod = mod].leg = NoRow.leg
  BY DEF NoRow, Row, Statuses, Provenances, Kinds

(* A status has a rank, and a rank is a number.                            *)
LEMMA StrengthFacts ==
    ASSUME NEW s \in Statuses
    PROVE  verificationStrength[s] \in Nat
<1>1. verificationStrength[s] = (CASE s = "Verified" -> 4 [] s = "VerifiedBySumDBOnly" -> 3
                                   [] s = "VerifiedByGoSum" -> 2 [] OTHER -> 0)
  BY DEF verificationStrength
<1> QED BY <1>1 DEF Statuses

(* The record served is one of the rows and serves before the others.      *)
LEMMA ServedFacts ==
    ASSUME AnswerExists, rows # {}
    PROVE  Served(rows) \in rows /\ \A s \in rows \ {Served(rows)} : ServesBefore(Served(rows), s)
  BY DEF AnswerExists, Served

(* Rows are finitely many, and no more than the measurements.              *)
LEMMA RowsAreFinite ==
    ASSUME NEW rs, NEW c \in Nat, \A r \in rs : r.at \in 1..c, \A r, s \in rs : r.at = s.at => r = s
    PROVE  IsFiniteSet(rs) /\ Cardinality(rs) \in Nat /\ Cardinality(rs) <= c
<1> DEFINE f == [r \in rs |-> r.at]
<1>1. f \in Injection(rs, 1..c)
  <2>1. f \in [rs -> 1..c] /\ \A r, s \in rs : f[r] = f[s] => r = s
    OBVIOUS
  <2> QED BY <2>1 DEF Injection, IsInjective
<1>2. IsFiniteSet(1..c) /\ Cardinality(1..c) = c
  BY FS_Interval
<1>3. IsFiniteSet(rs) /\ Cardinality(rs) <= c
  BY <1>1, <1>2, FS_Injection
<1> QED BY <1>3, FS_CardinalityType

-----------------------------------------------------------------------------
(* Inheritance.                                                            *)

(* A number-valued function on a non-empty set has a least value.          *)
LEMMA LeastNumber ==
    ASSUME NEW S, S # {}, NEW f \in [S -> Nat]
    PROVE  \E x \in S : \A y \in S : f[x] <= f[y]
<1> DEFINE T == {f[x] : x \in S}
<1>1. T \subseteq Nat /\ T # {}
  OBVIOUS
<1>2. \E a \in T : \A b \in T : ~(<<b, a>> \in OpToRel(<, Nat))
  BY <1>1, WFMin, NatLessThanWellFounded
<1>3. PICK a \in T : \A b \in T : ~(<<b, a>> \in OpToRel(<, Nat))
  BY <1>2
<1>4. ASSUME NEW b \in T PROVE a <= b
  <2>1. a \in Nat /\ b \in Nat
    BY <1>1, <1>3, <1>4
  <2>2. ~(b < a)
    BY <1>3, <1>4, <2>1 DEF OpToRel
  <2> QED BY <2>1, <2>2
<1>5. PICK x \in S : f[x] = a
  BY <1>3
<1>6. ASSUME NEW y \in S PROVE f[x] <= f[y]
  BY <1>4, <1>5, <1>6
<1> QED BY <1>6

(* Among measurements there is a latest.                                   *)
LEMMA LatestExists ==
    ASSUME NEW S, S # {}, NEW c \in Nat, \A r \in S : r.at \in 1..c
    PROVE  \E s \in S : \A t \in S : t.at <= s.at
<1> DEFINE f == [r \in S |-> c - r.at]
<1>1. f \in [S -> Nat]
  OBVIOUS
<1>2. PICK s \in S : \A t \in S : f[s] <= f[t]
  BY <1>1, LeastNumber
<1>3. \A t \in S : t.at <= s.at
  BY <1>2
<1> QED BY <1>3

\* r got its leg k by copying one of rs, or kept it.
CopiedLeg(rs, r, new, k) ==
    \/ new.leg[k] = r.leg[k] /\ new.src[k] = r.src[k]
    \/ /\ new.leg[k] = "inherited"
       /\ \E s \in rs : s.at = new.src[k] /\ Identity(s) = Identity(r) /\ s.leg[k] # "absent"

\* A record and the same record with other legs.
SameBytes(r, new) ==
    new.at = r.at /\ new.zip = r.zip /\ new.mod = r.mod /\ new.status = r.status
    /\ new.lookupFailed = r.lookupFailed

\* new is r with its leg k kept or copied, and nothing else changed.
CopyOf(rs, r, new, k) ==
    /\ new \in Row /\ SameBytes(r, new) /\ CopiedLeg(rs, r, new, k)
    /\ \A j \in Kinds \ {k} : new.leg[j] = r.leg[j] /\ new.src[j] = r.src[j]

(* One leg is copied from the latest measurement of the artefact, and      *)
(* nothing else of the record changes.                                     *)
LEMMA InheritFromFacts ==
    ASSUME NEW rs, rs \subseteq Row, NEW c \in Nat, \A s \in rs : s.at \in 1..c,
           NEW r \in Row, NEW k \in Kinds, NEW new, new = InheritFrom(rs, r, k)
    PROVE  CopyOf(rs, r, new, k)
<1> DEFINE sources == {s \in rs : Identity(s) = Identity(r) /\ s.leg[k] # "absent"}
           latest == CHOOSE s \in sources : \A t \in sources : t.at <= s.at
<1>1. CASE r.leg[k] # "absent" \/ sources = {}
  <2>1. new = r
    BY <1>1 DEF InheritFrom
  <2> QED BY <2>1 DEF SameBytes, CopiedLeg, CopyOf
<1>2. CASE ~(r.leg[k] # "absent" \/ sources = {})
  <2>1. latest \in sources
    BY <1>2, LatestExists
  <2>2. new = [r EXCEPT !.leg[k] = "inherited", !.src[k] = latest.at]
    BY <1>2 DEF InheritFrom
  <2>3. latest \in rs /\ latest.at \in Nat /\ Identity(latest) = Identity(r) /\ latest.leg[k] # "absent"
    BY <2>1
  <2> HIDE DEF latest
  <2>4. /\ r.leg \in [Kinds -> Provenances] /\ r.src \in [Kinds -> Nat]
        /\ r = [at |-> r.at, zip |-> r.zip, mod |-> r.mod, status |-> r.status,
                lookupFailed |-> r.lookupFailed, leg |-> r.leg, src |-> r.src]
    BY DEF Row
  <2>5. new = [at |-> r.at, zip |-> r.zip, mod |-> r.mod, status |-> r.status,
               lookupFailed |-> r.lookupFailed, leg |-> [r.leg EXCEPT ![k] = "inherited"],
               src |-> [r.src EXCEPT ![k] = latest.at]]
    BY <2>2, <2>4
  <2>6. /\ [r.leg EXCEPT ![k] = "inherited"] \in [Kinds -> Provenances]
        /\ [r.src EXCEPT ![k] = latest.at] \in [Kinds -> Nat]
    BY <2>3, <2>4 DEF Provenances
  <2>7. new \in Row
    BY <2>5, <2>6 DEF Row
  <2>8. SameBytes(r, new)
    BY <2>5 DEF SameBytes
  <2>9. /\ new.leg[k] = "inherited" /\ new.src[k] = latest.at
        /\ \A j \in Kinds \ {k} : new.leg[j] = r.leg[j] /\ new.src[j] = r.src[j]
    BY <2>4, <2>5
  <2> QED BY <2>3, <2>7, <2>8, <2>9 DEF CopiedLeg, CopyOf
<1> QED BY <1>1, <1>2

(* inheritLegs: each leg kept or copied, the bytes and the anchor kept.    *)
LEMMA InheritAllFacts ==
    ASSUME NEW rs, rs \subseteq Row, NEW c \in Nat, \A s \in rs : s.at \in 1..c,
           NEW r \in Row, NEW new, new = InheritAll(rs, r)
    PROVE  new \in Row /\ SameBytes(r, new) /\ \A k \in Kinds : CopiedLeg(rs, r, new, k)
<1>1. PICK half : half = InheritFrom(rs, r, "sumdb")
  OBVIOUS
<1>2. "sumdb" \in Kinds /\ "vcs" \in Kinds /\ new = InheritFrom(rs, half, "vcs")
  BY <1>1 DEF InheritAll, Kinds
<1>3. CopyOf(rs, r, half, "sumdb")
  BY <1>1, <1>2, InheritFromFacts
<1>4. CopyOf(rs, half, new, "vcs")
  <2>1. half \in Row
    BY <1>3 DEF CopyOf
  <2> QED BY <1>2, <2>1, InheritFromFacts
<1>5. Identity(half) = Identity(r)
  BY <1>3 DEF CopyOf, SameBytes, Identity, IsGoModOnly
<1>6. new \in Row /\ SameBytes(r, new)
  BY <1>3, <1>4 DEF CopyOf, SameBytes
<1>7. CopiedLeg(rs, r, new, "sumdb") /\ CopiedLeg(rs, r, new, "vcs")
  BY <1>2, <1>3, <1>4, <1>5 DEF CopyOf, CopiedLeg
<1> QED BY <1>6, <1>7 DEF Kinds

-----------------------------------------------------------------------------
(* Steps of one process that take no measurement and store no row.         *)

Alone(p) == \A q \in Procs \ {p} :
    UNCHANGED <<pc[q], req[q], m[q], existing[q], result[q], lost[q], diverged[q]>>

Closed(p) ==
    diverged[p] => /\ result[p] = NoRow
                   /\ pc[p] \in {"idle", "cache", "download", "putZip", "putGoMod", "verify", "persist"}

Readable(p) ==
    result[p] # NoRow =>
        {b \in BlobsOf(result[p]) : b[1] = "zip" => ~req[p].goModOnly} \subseteq blobs \cup lost[p]

(* What is left to show of such a step.                                    *)
LEMMA QuietKeeps ==
    ASSUME IInv, NEW p \in Procs, Alone(p), UNCHANGED <<rows, clock>>, torn \subseteq torn',
           log \subseteq log', \A e \in log' \ log : e[1] # "written",
           blobs \subseteq blobs', TypeOK', Bytes(p)', Closed(p)', Readable(p)',
           diverged'[p] => Divergent(rows),
           pc'[p] \in Measured => /\ pc[p] \in Measured \ Stored /\ m'[p].at = m[p].at
                                  /\ pc'[p] \notin Stored,
           pc'[p] = "append" => <<"downgraded", m'[p].at>> \in log',
           pc[p] = "mirror" => m[p].at \in torn'
    PROVE  IInv'
<1>1. RowsAreTimed' /\ AnswerExists'
  BY DEF IInv, RowsAreTimed, AnswerExists
<1>2. MeasurementsAreOwn'
  <2>1. pc'[p] \in Measured => pc'[p] \in Measured \ Stored /\ pc[p] \in Measured \ Stored
    BY DEF Measured, Stored, Deciding
  <2>2. \A q \in Procs : pc'[q] \in Measured =>
          /\ pc[q] \in Measured /\ m'[q].at = m[q].at
          /\ pc'[q] \in Stored <=> pc[q] \in Stored
          /\ pc'[q] \in Stored => m'[q] = m[q]
    BY <2>1 DEF Alone
  <2>3. \A q \in Procs : pc'[q] \in Stored => pc'[q] \in Measured
    BY DEF Measured
  <2> QED BY <2>2, <2>3 DEF IInv, MeasurementsAreOwn
<1>3. BytesAreHeld'
  <2>1. ASSUME NEW q \in Procs, q # p PROVE Bytes(q)'
    BY <2>1 DEF IInv, BytesAreHeld, Bytes, Alone
  <2> QED BY <2>1 DEF BytesAreHeld
<1>4. DivergenceStays'
  BY DEF IInv, DivergenceStays, Alone, Divergent
<1>5. AuditMatchesLedger'
  BY DEF IInv, AuditMatchesLedger, Alone
<1>6. DowngradesAreExplained'
  <2>1. pc'[p] \notin {"mirror", "reread"}
    BY DEF Measured, Deciding, Stored
  <2> QED BY <2>1 DEF IInv, DowngradesAreExplained, Weakens, Alone
<1>7. DivergedLedgerIsClosed'
  BY DEF IInv, DivergedLedgerIsClosed, Closed, Alone
<1>8. ReturnedIsReadable'
  BY DEF IInv, ReturnedIsReadable, Readable, Alone
<1> QED BY <1>1, <1>2, <1>3, <1>4, <1>5, <1>6, <1>7, <1>8 DEF IInv

(* A run starts.                                                           *)
LEMMA ExecuteKeeps ==
    ASSUME IInv, NEW p \in Procs, Execute(p)
    PROVE  IInv'
<1>1. PICK q \in Requests :
        /\ req' = [req EXCEPT ![p] = q]
        /\ pc' = [pc EXCEPT ![p] = IF q.force /\ (q.goModOnly \/ q.route # "proxy")
                                   THEN "download" ELSE "cache"]
  BY DEF Execute, Goto
<1>2. /\ result' = [result EXCEPT ![p] = NoRow] /\ lost' = [lost EXCEPT ![p] = {}]
      /\ diverged' = [diverged EXCEPT ![p] = Divergent(rows)]
      /\ UNCHANGED <<rows, log, blobs, clock, m, existing, torn>>
      /\ pc[p] = "idle"
  BY DEF Execute, ledger
<1>3. Alone(p)
  BY <1>1, <1>2 DEF IInv, TypeOK, Alone
<1>4. /\ pc'[p] \in {"download", "cache"} /\ result'[p] = NoRow
      /\ diverged'[p] = Divergent(rows)
  BY <1>1, <1>2 DEF IInv, TypeOK
<1>5. TypeOK'
  <2>1. diverged' \in [Procs -> BOOLEAN]
    BY <1>2 DEF IInv, TypeOK, Divergent
  <2>2. result' \in [Procs -> Row]
    BY <1>2, RowFacts DEF IInv, TypeOK
  <2> QED BY <1>1, <1>2, <2>1, <2>2 DEF IInv, TypeOK
<1>6. Bytes(p)' /\ Closed(p)' /\ Readable(p)'
  BY <1>4 DEF Bytes, Closed, Readable, InHand, Measured, Deciding, Stored
<1> QED BY <1>2, <1>3, <1>4, <1>5, <1>6, QuietKeeps DEF Measured, Deciding, Stored

(* A read that finds no disagreement belongs to a run that met none.       *)
LEMMA NotDiverged ==
    ASSUME IInv, NEW p \in Procs,
           ~Divergent(rows) \/ pc[p] \in {"held", "inherit"} \cup Deciding \cup Stored
    PROVE  ~diverged[p]
  BY DEF IInv, DivergenceStays, DivergedLedgerIsClosed, Deciding, Stored

(* The two reads of the composed record.                                   *)
LEMMA ReadKeeps ==
    ASSUME IInv, NEW p \in Procs, ReadForReuse(p) \/ ReadExisting(p)
    PROVE  IInv'
<1> DEFINE answer == IF rows = {} THEN NoRow ELSE Served(rows)
<1>1. /\ existing' = [existing EXCEPT ![p] = answer]
      /\ UNCHANGED <<rows, log, blobs, clock, req, m, result, lost, diverged, torn>>
      /\ ~Divergent(rows)
      /\ \/ /\ pc[p] = "cache" /\ pc' = [pc EXCEPT ![p] = IF rows = {} THEN "download" ELSE "held"]
         \/ /\ pc[p] = "persist" /\ pc' = [pc EXCEPT ![p] = "inherit"]
  BY DEF ReadForReuse, ReadExisting, Goto, ledger, history
<1>2. answer \in Row /\ (rows # {} => answer \in rows)
  BY ServedFacts, RowFacts DEF IInv, TypeOK
<1> HIDE DEF answer
<1>3. Alone(p) /\ existing'[p] = answer
  BY <1>1 DEF IInv, TypeOK, Alone
<1>4. \/ pc[p] = "cache" /\ pc'[p] = "download"
      \/ pc[p] = "cache" /\ pc'[p] = "held" /\ rows # {}
      \/ pc[p] = "persist" /\ pc'[p] = "inherit"
  BY <1>1 DEF IInv, TypeOK
<1>5. TypeOK'
  BY <1>1, <1>2 DEF IInv, TypeOK
<1>6. ~diverged[p]
  BY <1>1, NotDiverged
<1>7. Bytes(p)'
  BY <1>1, <1>2, <1>3, <1>4 DEF IInv, BytesAreHeld, Bytes, InHand, Measured, Deciding, Stored
<1>8. Closed(p)' /\ Readable(p)'
  BY <1>1, <1>6 DEF IInv, Closed, Readable, ReturnedIsReadable
<1> QED BY <1>1, <1>3, <1>4, <1>5, <1>6, <1>7, <1>8, QuietKeeps DEF Measured, Deciding, Stored

(* The stored record is not reused as it is.                               *)
LEMMA CacheMissKeeps ==
    ASSUME IInv, NEW p \in Procs, CacheMiss(p)
    PROVE  IInv'
<1>1. /\ pc[p] = "held" /\ existing' = [existing EXCEPT ![p] = NoRow]
      /\ pc' = [pc EXCEPT ![p] = "download"]
      /\ UNCHANGED <<rows, log, blobs, clock, req, m, result, lost, diverged, torn>>
  BY DEF CacheMiss, Goto, ledger, history
<1>2. Alone(p) /\ pc'[p] = "download"
  BY <1>1 DEF IInv, TypeOK, Alone
<1>3. TypeOK'
  BY <1>1, RowFacts DEF IInv, TypeOK
<1>4. ~diverged[p]
  BY <1>1, NotDiverged
<1>5. Bytes(p)' /\ Closed(p)' /\ Readable(p)'
  BY <1>1, <1>2, <1>4
     DEF IInv, Bytes, Closed, Readable, ReturnedIsReadable, InHand, Measured, Deciding, Stored
<1> QED BY <1>1, <1>2, <1>3, <1>4, <1>5, QuietKeeps DEF Measured, Deciding, Stored

(* The bytes held are verified again.                                      *)
LEMMA RevalidateKeeps ==
    ASSUME IInv, NEW p \in Procs, Revalidate(p)
    PROVE  IInv'
<1>1. PICK zip, mod : zip = existing[p].zip /\ mod = existing[p].mod
  OBVIOUS
<1>2. PICK new : new = [NoRow EXCEPT !.zip = zip, !.mod = mod]
  OBVIOUS
<1>3. /\ pc[p] = "held" /\ m' = [m EXCEPT ![p] = new]
      /\ existing' = [existing EXCEPT ![p] = NoRow] /\ pc' = [pc EXCEPT ![p] = "verify"]
      /\ UNCHANGED <<rows, log, blobs, clock, req, result, lost, diverged, torn>>
  BY <1>1, <1>2 DEF Revalidate, Goto, ledger, history
<1>4. /\ zip \in Zips /\ zip # NoHash /\ mod \in GoMods
      /\ {<<"gomod", mod>>, <<"zip", zip>>} \subseteq blobs
  <2>1. existing[p] \in rows
    BY <1>3 DEF IInv, BytesAreHeld, Bytes
  <2>2. existing[p].zip \in Zips \cup {NoHash} /\ existing[p].mod \in GoMods
    BY <2>1 DEF IInv, TypeOK, RowsAreTimed, Row
  <2> QED BY <1>1, <2>2
          DEF Revalidate, CanRevalidate, IsGoModOnly, cachedArtefactsReadable, BlobsOf
<1>5. new \in Row /\ new.zip = zip /\ new.mod = mod
  BY <1>2, <1>4, RowFacts
<1>6. Alone(p) /\ pc'[p] = "verify" /\ m'[p] = new
  BY <1>3 DEF IInv, TypeOK, Alone
<1>7. TypeOK'
  BY <1>3, <1>5, RowFacts DEF IInv, TypeOK
<1>8. ~diverged[p]
  BY <1>3, NotDiverged
<1>9. Bytes(p)'
  <2>1. m'[p].mod \in GoMods /\ ~IsGoModOnly(m'[p]) /\ BlobsOf(m'[p]) \subseteq blobs
    BY <1>4, <1>5, <1>6 DEF IsGoModOnly, BlobsOf
  <2> QED BY <1>3, <1>6, <2>1 DEF Bytes
<1>10. Closed(p)' /\ Readable(p)'
  BY <1>3, <1>8 DEF IInv, Closed, Readable, ReturnedIsReadable
<1> QED BY <1>3, <1>6, <1>7, <1>8, <1>9, <1>10, QuietKeeps DEF Measured, Deciding, Stored

(* The bytes arrive, before any of them is stored.                         *)
LEMMA DownloadKeeps ==
    ASSUME IInv, NEW p \in Procs, Download(p)
    PROVE  IInv'
<1>1. PICK zip \in Zips, mod \in GoMods :
        m' = [m EXCEPT ![p] = [NoRow EXCEPT !.zip = IF req[p].goModOnly THEN NoHash ELSE zip,
                                            !.mod = mod]]
  BY DEF Download
<1>2. PICK kept \in Zips \cup {NoHash} :
        /\ kept = IF req[p].goModOnly THEN NoHash ELSE zip
        /\ m' = [m EXCEPT ![p] = [NoRow EXCEPT !.zip = kept, !.mod = mod]]
  BY <1>1
<1>3. PICK new : new = [NoRow EXCEPT !.zip = kept, !.mod = mod]
  OBVIOUS
<1>4. new \in Row /\ new.zip = kept /\ new.mod = mod
  BY <1>3, RowFacts
<1>5. /\ pc[p] = "download" /\ m' = [m EXCEPT ![p] = new]
      /\ pc' = [pc EXCEPT ![p] = IF req[p].goModOnly THEN "putGoMod" ELSE "putZip"]
      /\ UNCHANGED <<rows, log, blobs, clock, req, existing, result, lost, diverged, torn>>
  BY <1>2, <1>3 DEF Download, Goto, ledger, history
<1>6. /\ Alone(p) /\ m'[p] = new
      /\ pc'[p] = IF req[p].goModOnly THEN "putGoMod" ELSE "putZip"
  BY <1>5 DEF IInv, TypeOK, Alone
<1>7. TypeOK'
  BY <1>4, <1>5 DEF IInv, TypeOK
<1>8. Bytes(p)'
  <2>1. m'[p].mod \in GoMods /\ (req[p].goModOnly <=> IsGoModOnly(m'[p]))
    BY <1>2, <1>4, <1>6, HashAssumption DEF IsGoModOnly
  <2> QED BY <1>5, <1>6, <2>1 DEF Bytes, InHand, Measured, Deciding, Stored
<1>9. Closed(p)' /\ Readable(p)'
  BY <1>5, <1>6 DEF IInv, Closed, Readable, DivergedLedgerIsClosed, ReturnedIsReadable
<1>10. diverged'[p] => Divergent(rows)
  BY <1>5 DEF IInv, DivergenceStays
<1>11. pc'[p] \notin Measured /\ pc'[p] # "append" /\ pc[p] # "mirror"
  BY <1>5, <1>6 DEF Measured, Deciding, Stored
<1> QED BY <1>5, <1>6, <1>7, <1>8, <1>9, <1>10, <1>11, QuietKeeps

(* The artefacts are stored, the zip before the go.mod.                    *)
LEMMA PutKeeps ==
    ASSUME IInv, NEW p \in Procs, PutZip(p) \/ PutGoMod(p)
    PROVE  IInv'
<1>1. PICK b, next :
        /\ blobs' = blobs \cup {b}
        /\ pc' = [pc EXCEPT ![p] = next]
        /\ \/ pc[p] = "putZip" /\ b = <<"zip", m[p].zip>> /\ next = "putGoMod"
           \/ pc[p] = "putGoMod" /\ b = <<"gomod", m[p].mod>> /\ next = "verify"
        /\ UNCHANGED <<rows, log, clock, req, m, existing, result, lost, diverged, torn>>
  BY DEF PutZip, PutGoMod, Goto, ledger, history
<1>2. Alone(p) /\ pc'[p] = next
  BY <1>1 DEF IInv, TypeOK, Alone
<1>3. b \in {"zip", "gomod"} \X (Zips \cup GoMods)
  <2>1. m[p].mod \in GoMods /\ (pc[p] = "putZip" => m[p].zip \in Zips)
    BY <1>1 DEF IInv, BytesAreHeld, Bytes, IsGoModOnly, TypeOK, Row
  <2> QED BY <1>1, <2>1
<1>4. TypeOK'
  BY <1>1, <1>3 DEF IInv, TypeOK
<1>5. Bytes(p)'
  <2>1. Bytes(p)
    BY DEF IInv, BytesAreHeld
  <2>2. CASE pc[p] = "putZip"
    BY <1>1, <1>2, <2>1, <2>2 DEF Bytes, InHand, Measured, Deciding, Stored
  <2>3. CASE pc[p] = "putGoMod"
    BY <1>1, <1>2, <2>1, <2>3 DEF Bytes, BlobsOf, InHand, Measured, Deciding, Stored
  <2> QED BY <1>1, <2>2, <2>3
<1>6. Closed(p)' /\ Readable(p)'
  BY <1>1, <1>2 DEF IInv, Closed, Readable, DivergedLedgerIsClosed, ReturnedIsReadable
<1>7. diverged'[p] => Divergent(rows)
  BY <1>1 DEF IInv, DivergenceStays
<1> QED BY <1>1, <1>2, <1>4, <1>5, <1>6, <1>7, QuietKeeps DEF Measured, Deciding, Stored

(* The legs not performed are copied from the rows.                        *)
LEMMA InheritKeeps ==
    ASSUME IInv, NEW p \in Procs, InheritLegs(p)
    PROVE  IInv'
<1>1. PICK old, new : old \in Row /\ old = m[p] /\ new = InheritAll(rows, old)
  BY DEF IInv, TypeOK
<1>2. /\ pc[p] = "inherit" /\ m' = [m EXCEPT ![p] = new] /\ pc' = [pc EXCEPT ![p] = "decide"]
      /\ UNCHANGED <<rows, log, blobs, clock, req, existing, result, lost, diverged, torn>>
  BY <1>1 DEF InheritLegs, Goto, ledger, history
<1>3. PICK rs \in SUBSET Row : rs = rows /\ \A s \in rs : s.at \in 1..clock
  BY DEF IInv, TypeOK, RowsAreTimed
<1>4. new \in Row /\ SameBytes(old, new)
  <2>1. new = InheritAll(rs, old)
    BY <1>1, <1>3
  <2>2. PICK c \in Nat : c = clock
    BY BoundAssumption DEF IInv, TypeOK
  <2> QED BY <1>1, <1>3, <2>1, <2>2, InheritAllFacts
<1>5. Alone(p) /\ pc'[p] = "decide" /\ m'[p] = new
  BY <1>2 DEF IInv, TypeOK, Alone
<1>6. TypeOK'
  BY <1>2, <1>4 DEF IInv, TypeOK
<1>7. ~diverged[p]
  BY <1>2, NotDiverged
<1>8. Bytes(p)'
  <2>1. m'[p].zip = m[p].zip /\ m'[p].mod = m[p].mod
    BY <1>1, <1>4, <1>5 DEF SameBytes
  <2>2. Bytes(p)
    BY DEF IInv, BytesAreHeld
  <2> QED BY <1>2, <1>5, <2>1, <2>2
          DEF Bytes, BlobsOf, IsGoModOnly, InHand, Measured, Deciding, Stored
<1>9. Closed(p)' /\ Readable(p)'
  BY <1>2, <1>7 DEF IInv, Closed, Readable, ReturnedIsReadable
<1>10. m'[p].at = m[p].at
  BY <1>1, <1>4, <1>5 DEF SameBytes
<1> QED BY <1>2, <1>5, <1>6, <1>7, <1>8, <1>9, <1>10, QuietKeeps DEF Measured, Deciding, Stored

(* A run ends with record r, or fails with none.                           *)
LEMMA ReturnKeeps ==
    ASSUME IInv, NEW p \in Procs, pc[p] # "idle", NEW r \in Row, Return(p, r),
           UNCHANGED <<rows, blobs, clock, req, lost, diverged>>,
           log \subseteq log', \A e \in log' \ log : e[1] = "refused" /\ e \in {"refused"} \X (1..clock),
           torn \subseteq torn', torn' \subseteq 1..clock, pc[p] = "mirror" => m[p].at \in torn',
           r # NoRow =>
             /\ ~diverged[p]
             /\ {b \in BlobsOf(r) : b[1] = "zip" => ~req[p].goModOnly} \subseteq blobs \cup lost[p]
    PROVE  IInv'
<1>1. /\ pc' = [pc EXCEPT ![p] = "idle"] /\ result' = [result EXCEPT ![p] = r]
      /\ m' = [m EXCEPT ![p] = NoRow] /\ existing' = [existing EXCEPT ![p] = NoRow]
  BY DEF Return, Goto
<1>2. Alone(p) /\ pc'[p] = "idle" /\ result'[p] = r
  BY <1>1 DEF IInv, TypeOK, Alone
<1>3. TypeOK'
  <2>1. log' \subseteq {"written", "refused", "downgraded"} \X (1..clock)
    BY DEF IInv, TypeOK
  <2> QED BY <1>1, <2>1, RowFacts DEF IInv, TypeOK
<1>4. Bytes(p)'
  BY <1>2 DEF Bytes, InHand, Measured, Deciding, Stored
<1>5. Closed(p)'
  BY <1>2 DEF Closed
<1>6. Readable(p)'
  BY <1>2 DEF Readable
<1>7. diverged'[p] => Divergent(rows)
  BY DEF IInv, DivergenceStays
<1> QED BY <1>2, <1>3, <1>4, <1>5, <1>6, <1>7, QuietKeeps DEF Measured, Deciding, Stored

(* The stored record is handed back, its artefacts readable.               *)
LEMMA CacheHitKeeps ==
    ASSUME IInv, NEW p \in Procs, CacheHit(p)
    PROVE  IInv'
<1>1. PICK r \in Row : r = existing[p] /\ BlobsOf(r) \subseteq blobs
  BY DEF CacheHit, CacheHits, cachedArtefactsReadable, IInv, TypeOK
<1>2. /\ pc[p] = "held" /\ Return(p, r)
      /\ UNCHANGED <<rows, log, blobs, clock, req, lost, diverged, torn>>
  BY <1>1 DEF CacheHit, ledger, history
<1>3. ~diverged[p]
  BY <1>2, NotDiverged
<1>4. torn' \subseteq 1..clock
  BY <1>2 DEF IInv, TypeOK
<1> QED BY <1>1, <1>2, <1>3, <1>4, ReturnKeeps

(* The composed answer is handed back; its bytes are the measurement's.    *)
LEMMA ReturnComposedKeeps ==
    ASSUME IInv, NEW p \in Procs, ReturnComposed(p)
    PROVE  IInv'
<1>1. /\ pc[p] = "reread" /\ ~Divergent(rows)
      /\ UNCHANGED <<rows, log, blobs, clock, req, lost, diverged, torn>>
  BY DEF ReturnComposed, ledger, history
<1>2. /\ m[p] \in rows /\ BlobsOf(m[p]) \subseteq blobs \cup lost[p]
      /\ req[p].goModOnly \/ ~IsGoModOnly(m[p])
  BY <1>1 DEF IInv, MeasurementsAreOwn, BytesAreHeld, Bytes, InHand, Measured, Stored
<1>3. PICK r \in rows : r = Served(rows)
  BY <1>2, ServedFacts DEF IInv
<1>4. r \in Row /\ Return(p, r)
  BY <1>3 DEF ReturnComposed, IInv, TypeOK
<1>5. r.mod = m[p].mod /\ (r.zip = m[p].zip \/ IsGoModOnly(r) \/ IsGoModOnly(m[p]))
  BY <1>1, <1>2, <1>3 DEF Divergent
<1>6. {b \in BlobsOf(r) : b[1] = "zip" => ~req[p].goModOnly} \subseteq blobs \cup lost[p]
  BY <1>2, <1>5 DEF BlobsOf, IsGoModOnly
<1>7. ~diverged[p]
  BY <1>1, NotDiverged
<1>8. torn' \subseteq 1..clock
  BY <1>1 DEF IInv, TypeOK
<1> QED BY <1>1, <1>4, <1>6, <1>7, <1>8, ReturnKeeps

(* A run stops where it is.                                                *)
LEMMA StopKeeps ==
    ASSUME IInv, NEW p \in Procs, Stop(p)
    PROVE  IInv'
<1>1. /\ pc[p] # "idle" /\ Return(p, NoRow)
      /\ torn' = IF pc[p] = "mirror" THEN torn \cup {m[p].at} ELSE torn
      /\ UNCHANGED <<rows, log, blobs, clock, req, lost, diverged>>
  BY DEF Stop, ledger
<1>2. pc[p] = "mirror" => m[p].at \in 1..clock
  BY DEF IInv, MeasurementsAreOwn, Measured, Stored
<1>3. torn \subseteq torn' /\ torn' \subseteq 1..clock /\ (pc[p] = "mirror" => m[p].at \in torn')
  BY <1>1, <1>2 DEF IInv, TypeOK
<1> QED BY <1>1, <1>3, RowFacts, ReturnKeeps

(* A weaker measurement is refused, and its reader gets what is readable.  *)
LEMMA RefuseKeeps ==
    ASSUME IInv, NEW p \in Procs, RefuseWeaker(p)
    PROVE  IInv'
<1>1. PICK r : r = IF cachedArtefactsReadable(existing[p]) THEN existing[p] ELSE m[p]
  OBVIOUS
<1>2. /\ pc[p] = "decide" /\ Return(p, r) /\ log' = log \cup {<<"refused", m[p].at>>}
      /\ UNCHANGED <<rows, blobs, clock, req, lost, diverged, torn>>
  BY <1>1 DEF RefuseWeaker, history
<1>3. r \in Row
  BY <1>1 DEF IInv, TypeOK
<1>4. m[p].at \in 1..clock /\ BlobsOf(m[p]) \subseteq blobs \cup lost[p]
  BY <1>2 DEF IInv, MeasurementsAreOwn, BytesAreHeld, Bytes, InHand, Measured, Deciding
<1>5. BlobsOf(r) \subseteq blobs \cup lost[p]
  BY <1>1, <1>4 DEF cachedArtefactsReadable
<1>6. ~diverged[p]
  BY <1>2, NotDiverged DEF Deciding
<1>7. log \subseteq log' /\ \A e \in log' \ log : e[1] = "refused" /\ e \in {"refused"} \X (1..clock)
  BY <1>2, <1>4
<1>8. torn' \subseteq 1..clock
  BY <1>2 DEF IInv, TypeOK
<1> QED BY <1>2, <1>3, <1>5, <1>6, <1>7, <1>8, ReturnKeeps

(* The operator's permission is written down before the row is.            *)
LEMMA DowngradeKeeps ==
    ASSUME IInv, NEW p \in Procs, RecordDowngrade(p)
    PROVE  IInv'
<1>1. /\ pc[p] = "decide" /\ log' = log \cup {<<"downgraded", m[p].at>>}
      /\ pc' = [pc EXCEPT ![p] = "append"]
      /\ UNCHANGED <<rows, blobs, clock, req, m, existing, result, lost, diverged, torn>>
  BY DEF RecordDowngrade, Goto, history
<1>2. Alone(p) /\ pc'[p] = "append"
  BY <1>1 DEF IInv, TypeOK, Alone
<1>3. m[p].at \in 1..clock
  BY <1>1 DEF IInv, MeasurementsAreOwn, Measured, Deciding
<1>4. TypeOK'
  <2>1. log' \subseteq {"written", "refused", "downgraded"} \X (1..clock)
    BY <1>1, <1>3 DEF IInv, TypeOK
  <2> QED BY <1>1, <2>1 DEF IInv, TypeOK
<1>5. ~diverged[p]
  BY <1>1, NotDiverged DEF Deciding
<1>6. Bytes(p)'
  BY <1>1, <1>2 DEF IInv, BytesAreHeld, Bytes, InHand, Measured, Deciding, Stored
<1>7. Closed(p)' /\ Readable(p)'
  BY <1>1, <1>5 DEF IInv, Closed, Readable, ReturnedIsReadable
<1>8. /\ pc[p] \in Measured \ Stored /\ pc'[p] \notin Stored /\ pc[p] # "mirror"
      /\ m'[p].at = m[p].at /\ <<"downgraded", m'[p].at>> \in log'
      /\ \A e \in log' \ log : e[1] # "written"
  BY <1>1, <1>2 DEF Measured, Deciding, Stored
<1> QED BY <1>1, <1>2, <1>4, <1>5, <1>6, <1>7, <1>8, QuietKeeps

-----------------------------------------------------------------------------
(* The measurement, the row, its line in the log, and a lost artefact.     *)

\* new is r after verification: the bytes kept, no leg copied.
VerifiedFrom(r, new) ==
    /\ new \in Row /\ new.at = r.at /\ new.zip = r.zip /\ new.mod = r.mod
    /\ \A k \in Kinds : new.leg[k] = "inherited" => r.leg[k] = "inherited"
    /\ SumDBAnswered(r) => SumDBAnswered(new)

(* A record is its fields.                                                 *)
LEMMA RowShape ==
    ASSUME NEW r \in Row
    PROVE  /\ r.at \in Nat /\ r.zip \in Zips \cup {NoHash} /\ r.mod \in GoMods \cup {NoHash}
           /\ r.status \in Statuses /\ r.lookupFailed \in BOOLEAN
           /\ r.leg \in [Kinds -> Provenances] /\ r.src \in [Kinds -> Nat]
           /\ r = [at |-> r.at, zip |-> r.zip, mod |-> r.mod, status |-> r.status,
                   lookupFailed |-> r.lookupFailed, leg |-> r.leg, src |-> r.src]
  BY DEF Row

(* Another status, lookup outcome and legs make a row of a row.            *)
LEMMA Rewritten ==
    ASSUME NEW r \in Row, NEW st \in Statuses, NEW failed \in BOOLEAN,
           NEW leg \in [Kinds -> Provenances], NEW new,
           new = [at |-> r.at, zip |-> r.zip, mod |-> r.mod, status |-> st,
                  lookupFailed |-> failed, leg |-> leg, src |-> r.src],
           \A k \in Kinds : leg[k] # "inherited" \/ leg[k] = r.leg[k],
           leg["sumdb"] \in {"absent", "rechecked", r.leg["sumdb"]}
    PROVE  VerifiedFrom(r, new)
<1>1. new \in Row
  BY RowShape DEF Row
<1>2. new.at = r.at /\ new.zip = r.zip /\ new.mod = r.mod /\ new.leg = leg
  OBVIOUS
<1> QED BY <1>1, <1>2 DEF VerifiedFrom, SumDBAnswered

(* The three verification pipelines.                                       *)
LEMMA MeasurementFacts ==
    ASSUME NEW q \in Requests, NEW e \in Answers, NEW r \in Row, NEW new,
           new = IF q.route # "proxy" THEN VerifyFromCache(q, r)
                 ELSE IF q.goModOnly THEN VerifyGoModOnly(q, r, e)
                 ELSE Verify(q, r, e)
    PROVE  VerifiedFrom(r, new)
<1>1. /\ r.leg \in [Kinds -> Provenances] /\ "sumdb" \in Kinds /\ "vcs" \in Kinds
      /\ r = [at |-> r.at, zip |-> r.zip, mod |-> r.mod, status |-> r.status,
              lookupFailed |-> r.lookupFailed, leg |-> r.leg, src |-> r.src]
      /\ r.lookupFailed \in BOOLEAN
  BY RowShape DEF Kinds
<1>2. e.contentOK \in BOOLEAN
  BY RequestAssumption DEF AnswerType
<1>3. CASE q.route # "proxy"
  <2>1. PICK v \in {"private_module", "absent"} :
          v = IF q.route = "private" /\ ~q.goModOnly THEN "private_module" ELSE "absent"
    OBVIOUS
  <2>2. new = [r EXCEPT !.status = "VerifiedByGoSum", !.leg["vcs"] = v]
    BY <1>3, <2>1 DEF VerifyFromCache
  <2>3. new = [at |-> r.at, zip |-> r.zip, mod |-> r.mod, status |-> "VerifiedByGoSum",
               lookupFailed |-> r.lookupFailed, leg |-> [r.leg EXCEPT !["vcs"] = v], src |-> r.src]
    BY <1>1, <2>2
  <2>4. PICK leg \in [Kinds -> Provenances] : leg = [r.leg EXCEPT !["vcs"] = v]
    BY <1>1, <2>1 DEF Provenances
  <2>5. (\A k \in Kinds : leg[k] # "inherited" \/ leg[k] = r.leg[k]) /\ leg["sumdb"] = r.leg["sumdb"]
    BY <1>1, <2>1, <2>4
  <2> QED BY <1>1, <2>3, <2>4, <2>5, Rewritten DEF Statuses
<1>4. CASE q.route = "proxy"
  <2>1. PICK s \in {"absent", "rechecked"} : s = sumdbLeg(e)
    BY DEF sumdbLeg
  <2>2. PICK failed \in BOOLEAN : failed = (e.contentOK /\ e.sumdb = "failed")
    BY <1>2
  <2>3. CASE q.goModOnly
    <3>1. PICK st \in Statuses :
            st = CASE ~e.contentOK -> "Unverified"
                   [] Answered(e) -> IF r.mod = PinnedGoMod
                                     THEN "VerifiedBySumDBOnly" ELSE "Unverified"
                   [] OTHER -> IF q.goSum THEN "VerifiedByGoSum" ELSE "Unverified"
      BY DEF Statuses
    <3>2. new = [r EXCEPT !.status = st, !.lookupFailed = failed, !.leg["sumdb"] = s]
      BY <1>4, <2>1, <2>2, <2>3, <3>1 DEF VerifyGoModOnly
    <3>3. PICK leg \in [Kinds -> Provenances] : leg = [r.leg EXCEPT !["sumdb"] = s]
      BY <1>1, <2>1 DEF Provenances
    <3>4. new = [at |-> r.at, zip |-> r.zip, mod |-> r.mod, status |-> st,
                 lookupFailed |-> failed, leg |-> leg, src |-> r.src]
      BY <1>1, <3>2, <3>3
    <3>5. (\A k \in Kinds : leg[k] # "inherited" \/ leg[k] = r.leg[k]) /\ leg["sumdb"] = s
      BY <1>1, <2>1, <3>3
    <3> QED BY <2>1, <3>4, <3>5, Rewritten
  <2>4. CASE ~q.goModOnly
    <3>1. SumDBStatus(q, r, e) \in Statuses \cup {"passed"}
      BY DEF SumDBStatus, Statuses
    <3>2. PICK st \in Statuses :
            st = IF SumDBStatus(q, r, e) # "passed" THEN SumDBStatus(q, r, e)
                 ELSE IF ~q.skipVCS /\ e.vcs = "confirmed" THEN "Verified"
                 ELSE "VerifiedBySumDBOnly"
      BY <3>1 DEF Statuses
    <3>3. PICK v \in Provenances \ {"inherited"} : v = vcsLeg(q, e)
      BY DEF vcsLeg, Provenances
    <3>4. new = [r EXCEPT !.status = st, !.lookupFailed = failed, !.leg["sumdb"] = s,
                          !.leg["vcs"] = v]
      BY <1>4, <2>1, <2>2, <2>4, <3>2, <3>3 DEF Verify
    <3>5. PICK leg \in [Kinds -> Provenances] : leg = [r.leg EXCEPT !["sumdb"] = s, !["vcs"] = v]
      BY <1>1, <2>1, <3>3 DEF Provenances
    <3>6. new = [at |-> r.at, zip |-> r.zip, mod |-> r.mod, status |-> st,
                 lookupFailed |-> failed, leg |-> leg, src |-> r.src]
      BY <1>1, <3>4, <3>5
    <3>7. (\A k \in Kinds : leg[k] # "inherited" \/ leg[k] = r.leg[k]) /\ leg["sumdb"] = s
      BY <1>1, <2>1, <3>3, <3>5
    <3> QED BY <2>1, <3>6, <3>7, Rewritten
  <2> QED BY <2>3, <2>4
<1> QED BY <1>3, <1>4

(* A measurement is taken: its time is its own.                            *)
LEMMA MeasureKeeps ==
    ASSUME IInv, NEW p \in Procs, Measure(p)
    PROVE  IInv'
<1>1. PICK q \in Requests, old \in Row, c \in Nat :
        /\ q = req[p] /\ old = m[p] /\ c = clock /\ c + 1 \in 1..MaxMeasurements
  BY BoundAssumption DEF Measure, IInv, TypeOK
<1>2. PICK bytes \in Row : /\ bytes = [old EXCEPT !.at = c + 1] /\ bytes.at = c + 1
                           /\ bytes.zip = old.zip /\ bytes.mod = old.mod
  <2>1. [old EXCEPT !.at = c + 1] \in Row
    BY DEF Row
  <2> QED BY <2>1 DEF Row
<1>3. PICK e, new :
        /\ e \in Answers
        /\ new = IF q.route # "proxy" THEN VerifyFromCache(q, bytes)
                 ELSE IF q.goModOnly THEN VerifyGoModOnly(q, bytes, e)
                 ELSE Verify(q, bytes, e)
        /\ m' = [m EXCEPT ![p] = new]
  BY <1>1, <1>2 DEF Measure
<1>4. /\ pc[p] = "verify" /\ clock' = c + 1 /\ pc' = [pc EXCEPT ![p] = "persist"]
      /\ UNCHANGED <<rows, log, blobs, req, existing, result, lost, diverged, torn>>
  BY <1>1 DEF Measure, Goto, ledger
<1>5. new \in Row /\ new.at = c + 1 /\ new.zip = old.zip /\ new.mod = old.mod
  <2>1. VerifiedFrom(bytes, new)
    BY <1>3, MeasurementFacts
  <2> QED BY <1>2, <2>1 DEF VerifiedFrom
<1>6. Alone(p) /\ pc'[p] = "persist" /\ m'[p] = new
  BY <1>3, <1>4 DEF IInv, TypeOK, Alone
<1>7. 1..clock \subseteq 1..clock' /\ c + 1 \notin 1..clock /\ c + 1 \in 1..clock'
  BY <1>1, <1>4
<1>8. TypeOK'
  <2>1. Cardinality(rows) \in Nat /\ Cardinality(rows) <= clock
    BY <1>1, RowsAreFinite DEF IInv, RowsAreTimed
  <2>2. log' \subseteq {"written", "refused", "downgraded"} \X (1..clock') /\ torn' \subseteq 1..clock'
    BY <1>4, <1>7 DEF IInv, TypeOK
  <2>3. clock' \in 0..MaxMeasurements /\ Cardinality(rows') <= clock'
    BY <1>1, <1>4, <2>1
  <2>4. /\ pc' \in [Procs -> {"idle", "cache", "held", "download", "putZip", "putGoMod", "verify",
                              "persist", "inherit", "decide", "append", "mirror", "reread"}]
        /\ m' \in [Procs -> Row]
    BY <1>3, <1>4, <1>5 DEF IInv, TypeOK
  <2> QED BY <1>4, <2>2, <2>3, <2>4 DEF IInv, TypeOK
<1>9. RowsAreTimed' /\ AnswerExists'
  BY <1>4, <1>7 DEF IInv, RowsAreTimed, AnswerExists
<1>10. MeasurementsAreOwn'
  <2>1. \A q1 \in Procs \ {p} : pc'[q1] \in Measured =>
          m'[q1].at \in 1..clock /\ m'[q1] = m[q1] /\ pc'[q1] = pc[q1]
    BY <1>6 DEF Alone, IInv, MeasurementsAreOwn
  <2>2. m'[p].at = c + 1 /\ pc'[p] \notin Stored
    BY <1>5, <1>6 DEF Stored
  <2>3. \A r \in rows : r.at \in 1..clock
    BY DEF IInv, RowsAreTimed
  <2>4. \A q1 \in Procs : pc'[q1] \in Measured => m'[q1].at \in 1..clock'
    BY <1>7, <2>1, <2>2
  <2>5. \A q1, q2 \in Procs :
          pc'[q1] \in Measured /\ pc'[q2] \in Measured /\ m'[q1].at = m'[q2].at => q1 = q2
    BY <1>7, <2>1, <2>2 DEF IInv, MeasurementsAreOwn
  <2>6. \A q1 \in Procs : pc'[q1] \in Measured \ Stored => \A r \in rows : r.at # m'[q1].at
    BY <1>7, <2>1, <2>2, <2>3 DEF IInv, MeasurementsAreOwn
  <2>7. \A q1 \in Procs : pc'[q1] \in Stored => m'[q1] \in rows
    BY <1>6, <2>2 DEF Alone, IInv, MeasurementsAreOwn
  <2> QED BY <1>4, <2>4, <2>5, <2>6, <2>7 DEF MeasurementsAreOwn
<1>11. BytesAreHeld'
  <2>1. ASSUME NEW q1 \in Procs, q1 # p PROVE Bytes(q1)'
    BY <1>4, <1>6, <2>1 DEF IInv, BytesAreHeld, Bytes, Alone
  <2>2. /\ m'[p].mod \in GoMods /\ (req[p].goModOnly \/ ~IsGoModOnly(m'[p]))
        /\ BlobsOf(m'[p]) \subseteq blobs \cup lost[p]
    BY <1>1, <1>4, <1>5, <1>6 DEF IInv, BytesAreHeld, Bytes, InHand, BlobsOf, IsGoModOnly
  <2>3. Bytes(p)'
    BY <1>4, <1>6, <2>2 DEF Bytes
  <2> QED BY <2>1, <2>3 DEF BytesAreHeld
<1>12. DivergenceStays' /\ AuditMatchesLedger'
  BY <1>4, <1>6 DEF IInv, DivergenceStays, AuditMatchesLedger, Alone, Divergent
<1>13. DowngradesAreExplained'
  BY <1>4, <1>6 DEF IInv, DowngradesAreExplained, Weakens, Alone
<1>14. DivergedLedgerIsClosed' /\ ReturnedIsReadable'
  BY <1>4, <1>6 DEF IInv, DivergedLedgerIsClosed, ReturnedIsReadable, Alone
<1> QED BY <1>8, <1>9, <1>10, <1>11, <1>12, <1>13, <1>14 DEF IInv

(* The serving order compares the ranks one after the other.               *)
LEMMA ServesMeans ==
    ASSUME NEW a \in Row, NEW b \in Row
    PROVE  LET s == verificationStrength[a.status]
               t == verificationStrength[b.status]
           IN  ServesBefore(a, b) <=>
                 \/ RecordIsCacheable(a) /\ ~RecordIsCacheable(b)
                 \/ /\ RecordIsCacheable(a) <=> RecordIsCacheable(b)
                    /\ \/ ~IsGoModOnly(a) /\ IsGoModOnly(b)
                       \/ /\ IsGoModOnly(a) <=> IsGoModOnly(b)
                          /\ s > t \/ (s = t /\ a.at > b.at)
<1>1. RecordIsCacheable(a) \in BOOLEAN /\ RecordIsCacheable(b) \in BOOLEAN
  BY DEF RecordIsCacheable
<1>2. IsGoModOnly(a) \in BOOLEAN /\ IsGoModOnly(b) \in BOOLEAN
  BY DEF IsGoModOnly
<1> QED BY <1>1, <1>2 DEF ServesBefore

(* It is a strict order, and total on records of different times.          *)
LEMMA ServesOrder ==
    /\ \A a, b \in Row : ~(ServesBefore(a, b) /\ ServesBefore(b, a))
    /\ \A a, b \in Row : a.at # b.at => ServesBefore(a, b) \/ ServesBefore(b, a)
    /\ \A a, b, c \in Row : ServesBefore(a, b) /\ ServesBefore(b, c) => ServesBefore(a, c)
<1>1. \A a \in Row : a.at \in Nat /\ verificationStrength[a.status] \in Nat
  BY StrengthFacts DEF Row
<1>2. ASSUME NEW a \in Row, NEW b \in Row
      PROVE  /\ ~(ServesBefore(a, b) /\ ServesBefore(b, a))
             /\ a.at # b.at => ServesBefore(a, b) \/ ServesBefore(b, a)
  BY <1>1, <1>2, ServesMeans
<1>3. ASSUME NEW a \in Row, NEW b \in Row, NEW c \in Row, ServesBefore(a, b), ServesBefore(b, c)
      PROVE  ServesBefore(a, c)
  BY <1>1, <1>3, ServesMeans
<1> QED BY <1>2, <1>3

\* One row of rs serves before the others.
HasAnswer(rs) == \E r \in rs : \A s \in rs \ {r} : ServesBefore(r, s)

(* With one more row there is still an answer.                             *)
LEMMA AnswerAdded ==
    ASSUME NEW rs, rs \subseteq Row, NEW r \in Row, \A s \in rs : s.at # r.at,
           rs # {} => HasAnswer(rs)
    PROVE  HasAnswer(rs \cup {r})
<1>1. CASE rs = {}
  BY <1>1 DEF HasAnswer
<1>2. CASE rs # {}
  <2>1. PICK a \in rs : \A s \in rs \ {a} : ServesBefore(a, s)
    BY <1>2 DEF HasAnswer
  <2>2. CASE ServesBefore(r, a)
    <3>1. \A s \in rs : ServesBefore(r, s)
      BY <2>1, <2>2, ServesOrder
    <3> QED BY <3>1 DEF HasAnswer
  <2>3. CASE ServesBefore(a, r)
    BY <2>1, <2>3 DEF HasAnswer
  <2> QED BY <2>1, <2>2, <2>3, ServesOrder
<1> QED BY <1>1, <1>2

(* A measurement becomes a row.                                            *)
LEMMA AppendKeeps ==
    ASSUME IInv, NEW p \in Procs, AppendRow(p)
    PROVE  IInv'
<1>1. PICK r \in Row : r = m[p]
  BY DEF IInv, TypeOK
<1>2. /\ pc[p] \in Deciding /\ (pc[p] = "append" \/ ~Weakens(p))
      /\ rows' = rows \cup {r} /\ pc' = [pc EXCEPT ![p] = "mirror"]
      /\ UNCHANGED <<log, blobs, clock, req, m, existing, result, lost, diverged, torn>>
  BY <1>1 DEF AppendRow, Goto, history, Deciding
<1>3. Alone(p) /\ pc'[p] = "mirror"
  BY <1>2 DEF IInv, TypeOK, Alone
<1>4. /\ pc[p] \in Measured \ Stored /\ r.at \in 1..clock /\ r.mod \in GoMods
      /\ \A s \in rows : s.at # r.at
  <2>1. pc[p] \in Measured \ Stored /\ pc[p] \in InHand
    BY <1>2 DEF Measured, Stored, Deciding, InHand
  <2> QED BY <1>1, <2>1 DEF IInv, MeasurementsAreOwn, BytesAreHeld, Bytes
<1>5. RowsAreTimed'
  BY <1>2, <1>4 DEF IInv, RowsAreTimed
<1>6. TypeOK'
  <2>1. PICK c \in Nat, rs \in SUBSET Row : c = clock /\ rs = rows'
    BY <1>2, BoundAssumption DEF IInv, TypeOK
  <2>2. (\A s \in rs : s.at \in 1..c) /\ \A s, t \in rs : s.at = t.at => s = t
    BY <1>2, <1>5, <2>1 DEF RowsAreTimed
  <2>3. Cardinality(rs) <= c
    BY <2>2, RowsAreFinite
  <2>4. rows' \subseteq Row /\ Cardinality(rows') <= clock'
    BY <1>2, <2>1, <2>3
  <2> QED BY <1>2, <2>4 DEF IInv, TypeOK
<1>7. MeasurementsAreOwn'
  <2>1. \A q \in Procs : /\ m'[q] = m[q] /\ (pc'[q] \in Measured => pc[q] \in Measured)
                         /\ pc'[q] \in Measured \ Stored => pc[q] \in Measured \ Stored /\ q # p
                         /\ pc'[q] \in Stored => pc[q] \in Stored \/ q = p
    BY <1>2, <1>3, <1>4 DEF Alone, Stored
  <2> QED BY <1>1, <1>2, <1>4, <2>1 DEF IInv, MeasurementsAreOwn
<1>8. AnswerExists'
  <2>1. PICK rs \in SUBSET Row : rs = rows
    BY DEF IInv, TypeOK
  <2>2. rs # {} => HasAnswer(rs)
    BY <2>1 DEF IInv, AnswerExists, HasAnswer
  <2>3. HasAnswer(rs \cup {r})
    BY <1>4, <2>1, <2>2, AnswerAdded
  <2> QED BY <1>2, <2>1, <2>3 DEF AnswerExists, HasAnswer
<1>9. BytesAreHeld'
  <2>1. ASSUME NEW q \in Procs, q # p PROVE Bytes(q)'
    BY <1>2, <1>3, <2>1 DEF IInv, BytesAreHeld, Bytes, Alone
  <2>2. Bytes(p)'
    BY <1>2, <1>3 DEF IInv, BytesAreHeld, Bytes, InHand, Measured, Deciding, Stored
  <2> QED BY <2>1, <2>2 DEF BytesAreHeld
<1>10. DivergenceStays'
  BY <1>2 DEF IInv, DivergenceStays, Divergent
<1>11. AuditMatchesLedger'
  <2>1. \A q \in Procs : pc[q] = "mirror" => pc'[q] = "mirror"
    BY <1>2, <1>3 DEF Alone
  <2> QED BY <1>1, <1>2, <1>3, <2>1 DEF IInv, AuditMatchesLedger
<1>12. DowngradesAreExplained'
  <2>1. \A q \in Procs : Weakens(q)' <=> Weakens(q)
    BY <1>2 DEF Weakens
  <2> QED BY <1>2, <1>3, <2>1 DEF IInv, DowngradesAreExplained, Alone, Deciding
<1>13. DivergedLedgerIsClosed'
  <2>1. ~diverged[p]
    BY <1>2, NotDiverged
  <2> QED BY <1>2, <1>3, <2>1 DEF IInv, DivergedLedgerIsClosed, Alone
<1>14. ReturnedIsReadable'
  BY <1>2 DEF IInv, ReturnedIsReadable
<1> QED BY <1>5, <1>6, <1>7, <1>8, <1>9, <1>10, <1>11, <1>12, <1>13, <1>14 DEF IInv

(* The row gets its line in the audit log.                                 *)
LEMMA MirrorKeeps ==
    ASSUME IInv, NEW p \in Procs, MirrorToAudit(p)
    PROVE  IInv'
<1>1. /\ pc[p] = "mirror" /\ log' = log \cup {<<"written", m[p].at>>}
      /\ pc' = [pc EXCEPT ![p] = "reread"]
      /\ UNCHANGED <<rows, blobs, clock, req, m, existing, result, lost, diverged, torn>>
  BY DEF MirrorToAudit, Goto, history
<1>2. Alone(p) /\ pc'[p] = "reread"
  BY <1>1 DEF IInv, TypeOK, Alone
<1>3. m[p] \in rows /\ m[p].at \in 1..clock
  BY <1>1 DEF IInv, MeasurementsAreOwn, Measured, Stored
<1>4. TypeOK'
  <2>1. log' \subseteq {"written", "refused", "downgraded"} \X (1..clock)
    BY <1>1, <1>3 DEF IInv, TypeOK
  <2> QED BY <1>1, <2>1 DEF IInv, TypeOK
<1>5. RowsAreTimed' /\ AnswerExists'
  BY <1>1 DEF IInv, RowsAreTimed, AnswerExists
<1>6. MeasurementsAreOwn'
  <2>1. \A q \in Procs : /\ pc'[q] \in Measured <=> pc[q] \in Measured
                         /\ pc'[q] \in Stored <=> pc[q] \in Stored
    BY <1>1, <1>2 DEF Alone, Measured, Stored
  <2> QED BY <1>1, <2>1 DEF IInv, MeasurementsAreOwn
<1>7. BytesAreHeld'
  <2>1. ASSUME NEW q \in Procs, q # p PROVE Bytes(q)'
    BY <1>1, <1>2, <2>1 DEF IInv, BytesAreHeld, Bytes, Alone
  <2>2. Bytes(p)'
    BY <1>1, <1>2 DEF IInv, BytesAreHeld, Bytes, InHand, Measured, Deciding, Stored
  <2> QED BY <2>1, <2>2 DEF BytesAreHeld
<1>8. DivergenceStays'
  BY <1>1 DEF IInv, DivergenceStays, Divergent
<1>9. AuditMatchesLedger'
  BY <1>1, <1>2, <1>3 DEF IInv, AuditMatchesLedger, Alone
<1>10. DowngradesAreExplained'
  <2>1. \A q \in Procs : Weakens(q)' <=> Weakens(q)
    BY <1>1 DEF Weakens
  <2> QED BY <1>1, <1>2, <2>1 DEF IInv, DowngradesAreExplained, Alone
<1>11. DivergedLedgerIsClosed'
  <2>1. ~diverged[p]
    BY <1>1, NotDiverged DEF Stored
  <2> QED BY <1>1, <1>2, <2>1 DEF IInv, DivergedLedgerIsClosed, Alone
<1>12. ReturnedIsReadable'
  BY <1>1 DEF IInv, ReturnedIsReadable
<1> QED BY <1>4, <1>5, <1>6, <1>7, <1>8, <1>9, <1>10, <1>11, <1>12 DEF IInv

(* An artefact disappears, and whoever runs or holds a record knows it.    *)
LEMMA EvictKeeps ==
    ASSUME IInv, Evict
    PROVE  IInv'
<1>1. PICK b \in blobs :
        /\ blobs' = blobs \ {b}
        /\ lost' = [p \in Procs |-> IF pc[p] = "idle" /\ result[p] = NoRow THEN lost[p]
                                    ELSE lost[p] \cup {b}]
  BY DEF Evict
<1>2. UNCHANGED <<rows, log, clock, pc, req, m, existing, result, diverged, torn>>
  BY DEF Evict, ledger
<1>3. \A p \in Procs : \/ pc[p] = "idle" /\ result[p] = NoRow
                       \/ blobs \cup lost[p] \subseteq blobs' \cup lost'[p]
  BY <1>1 DEF IInv, TypeOK
<1>4. TypeOK'
  <2>1. /\ blobs' \subseteq {"zip", "gomod"} \X (Zips \cup GoMods)
        /\ lost' \in [Procs -> SUBSET ({"zip", "gomod"} \X (Zips \cup GoMods))]
    BY <1>1 DEF IInv, TypeOK
  <2> QED BY <1>2, <2>1 DEF IInv, TypeOK
<1>5. RowsAreTimed' /\ AnswerExists' /\ MeasurementsAreOwn'
  BY <1>2 DEF IInv, RowsAreTimed, AnswerExists, MeasurementsAreOwn
<1>6. BytesAreHeld'
  <2>1. ASSUME NEW p \in Procs PROVE Bytes(p)'
    <3>1. Bytes(p)
      BY DEF IInv, BytesAreHeld
    <3>2. CASE pc[p] = "idle"
      <4>1. pc'[p] = "idle" /\ "idle" \notin {"putZip", "putGoMod", "held"} \cup InHand
        BY <1>2, <3>2 DEF InHand, Measured, Deciding, Stored
      <4> QED BY <4>1 DEF Bytes
    <3>3. CASE pc[p] # "idle"
      BY <1>2, <1>3, <3>1, <3>3 DEF Bytes
    <3> QED BY <3>2, <3>3
  <2> QED BY <2>1 DEF BytesAreHeld
<1>7. DivergenceStays' /\ AuditMatchesLedger' /\ DivergedLedgerIsClosed'
  BY <1>2 DEF IInv, DivergenceStays, AuditMatchesLedger, DivergedLedgerIsClosed, Divergent
<1>8. DowngradesAreExplained'
  BY <1>2 DEF IInv, DowngradesAreExplained, Weakens
<1>9. ReturnedIsReadable'
  BY <1>2, <1>3 DEF IInv, ReturnedIsReadable
<1> QED BY <1>4, <1>5, <1>6, <1>7, <1>8, <1>9 DEF IInv

-----------------------------------------------------------------------------
(* The theorems.                                                           *)

(* The empty ledger satisfies the invariant.                               *)
LEMMA InitHolds == Init => IInv
<1> SUFFICES ASSUME Init PROVE IInv
  OBVIOUS
<1>1. /\ rows = {} /\ blobs = {} /\ log = {} /\ clock = 0 /\ torn = {}
      /\ \A p \in Procs : pc[p] = "idle" /\ result[p] = NoRow /\ diverged[p] = FALSE
  BY DEF Init
<1>2. TypeOK
  <2>1. Cardinality(rows) <= clock /\ clock \in 0..MaxMeasurements
    BY <1>1, FS_EmptySet, BoundAssumption
  <2>2. req \in [Procs -> Requests]
    BY RequestAssumption DEF Init
  <2>3. m \in [Procs -> Row] /\ existing \in [Procs -> Row] /\ result \in [Procs -> Row]
    BY RowFacts DEF Init
  <2> QED BY <1>1, <2>1, <2>2, <2>3 DEF Init, TypeOK
<1>3. RowsAreTimed /\ AnswerExists /\ AuditMatchesLedger
  BY <1>1 DEF RowsAreTimed, AnswerExists, AuditMatchesLedger
<1>4. MeasurementsAreOwn /\ BytesAreHeld /\ DowngradesAreExplained
  BY <1>1 DEF MeasurementsAreOwn, BytesAreHeld, Bytes, DowngradesAreExplained,
              InHand, Measured, Deciding, Stored
<1>5. DivergenceStays /\ DivergedLedgerIsClosed /\ ReturnedIsReadable
  BY <1>1 DEF DivergenceStays, DivergedLedgerIsClosed, ReturnedIsReadable
<1> QED BY <1>2, <1>3, <1>4, <1>5 DEF IInv

(* Every step keeps it.                                                    *)
LEMMA NextKeeps == IInv /\ [Next]_vars => IInv'
<1> SUFFICES ASSUME IInv, [Next]_vars PROVE IInv'
  OBVIOUS
<1>1. CASE Evict
  BY <1>1, EvictKeeps
<1>2. ASSUME NEW p \in Procs, Step(p) PROVE IInv'
  BY <1>2, ExecuteKeeps, ReadKeeps, CacheHitKeeps, CacheMissKeeps, RevalidateKeeps,
     DownloadKeeps, PutKeeps, MeasureKeeps, InheritKeeps, RefuseKeeps, DowngradeKeeps,
     AppendKeeps, MirrorKeeps, ReturnComposedKeeps, StopKeeps DEF Step
<1>3. CASE UNCHANGED vars
  <2>1. TypeOK' /\ RowsAreTimed' /\ MeasurementsAreOwn' /\ AnswerExists'
    BY <1>3 DEF IInv, vars, TypeOK, RowsAreTimed, MeasurementsAreOwn, AnswerExists
  <2>2. BytesAreHeld' /\ DivergenceStays' /\ AuditMatchesLedger'
    BY <1>3 DEF IInv, vars, BytesAreHeld, Bytes, DivergenceStays, Divergent, AuditMatchesLedger
  <2>3. DowngradesAreExplained' /\ DivergedLedgerIsClosed' /\ ReturnedIsReadable'
    BY <1>3 DEF IInv, vars, DowngradesAreExplained, Weakens, DivergedLedgerIsClosed,
                ReturnedIsReadable
  <2> QED BY <2>1, <2>2, <2>3 DEF IInv
<1> QED BY <1>1, <1>2, <1>3 DEF Next

(* The invariant holds of every reachable state.                           *)
THEOREM Invariance == Spec => []IInv
  BY InitHolds, NextKeeps, PTL DEF Spec

(* Whoever stops where, the rows and the audit log match, and a row weaker *)
(* than what its writer read was permitted before it was appended          *)
(* (persistRecord, the SQLite store's mirror to the log).                  *)
THEOREM AccountedFor == Spec => []LedgerIsAccountedFor
<1>1. IInv => LedgerIsAccountedFor
  BY DEF IInv, LedgerIsAccountedFor
<1> QED BY <1>1, Invariance, PTL

(* A run that starts on a diverged ledger serves nothing and adds nothing  *)
(* (FindDivergence, which every read of the composed record goes through). *)
THEOREM ClosedOnDivergence == Spec => []DivergedLedgerIsClosed
<1>1. IInv => DivergedLedgerIsClosed
  BY DEF IInv
<1> QED BY <1>1, Invariance, PTL

(* What a successful run hands back can be read, unless somebody removed   *)
(* it while the run was under way (cachedArtefactsReadable and the order   *)
(* of blob writes, row and composed answer).                               *)
THEOREM ReturnsReadable == Spec => []ReturnedIsReadable
<1>1. IInv => ReturnedIsReadable
  BY DEF IInv
<1> QED BY <1>1, Invariance, PTL

(* Only AppendRow changes the rows, by adding one of a new time.           *)
LEMMA RowsGrow ==
    ASSUME IInv, [Next]_vars, rows' # rows
    PROVE  \E r \in Row : rows' = rows \cup {r} /\ \A s \in rows : s.at # r.at
<1>1. PICK p \in Procs : AppendRow(p)
  BY DEF Next, Step, vars, Evict, Execute, ReadForReuse, CacheHit, CacheMiss, Revalidate, Download,
         PutZip, PutGoMod, Measure, ReadExisting, InheritLegs, RefuseWeaker, RecordDowngrade,
         MirrorToAudit, ReturnComposed, Stop, ledger
<1>2. pc[p] \in Measured \ Stored /\ rows' = rows \cup {m[p]} /\ m[p] \in Row
  BY <1>1 DEF AppendRow, Measured, Stored, Deciding, IInv, TypeOK
<1>3. \A s \in rows : s.at # m[p].at
  BY <1>2 DEF IInv, MeasurementsAreOwn
<1> QED BY <1>2, <1>3

(* An answer that rests on checks that ran is displaced by nothing weaker  *)
(* (servesBefore over an append-only ledger).                              *)
THEOREM AnswersNeverWeaken == Spec => ServedNeverWeakens
<1> DEFINE Kept ==
      rows # {} /\ rows' # rows /\ RecordIsCacheable(Served(rows)) =>
        LET old == Served(rows)
            new == Served(rows')
        IN  /\ RecordIsCacheable(new)
            /\ IsGoModOnly(new) => IsGoModOnly(old)
            /\ IsGoModOnly(new) = IsGoModOnly(old)
               => ~ReplacementWeakensAnchor(old, new)
<1>1. IInv /\ IInv' /\ [Next]_vars => Kept
  <2> SUFFICES ASSUME IInv, IInv', [Next]_vars, rows # {}, rows' # rows,
                      RecordIsCacheable(Served(rows))
               PROVE  LET old == Served(rows)
                          new == Served(rows')
                      IN  /\ RecordIsCacheable(new)
                          /\ IsGoModOnly(new) => IsGoModOnly(old)
                          /\ IsGoModOnly(new) = IsGoModOnly(old)
                             => ~ReplacementWeakensAnchor(old, new)
    OBVIOUS
  <2>1. PICK old \in rows : old = Served(rows)
    BY ServedFacts DEF IInv
  <2>2. rows \subseteq rows' /\ rows' \subseteq Row
    BY RowsGrow DEF IInv, TypeOK
  <2>3. PICK new \in rows' : new = Served(rows') /\ \A s \in rows' \ {new} : ServesBefore(new, s)
    <3>1. PICK r \in rows' : \A s \in rows' \ {r} : ServesBefore(r, s)
      BY <2>1, <2>2 DEF IInv, AnswerExists
    <3> QED BY <3>1 DEF Served
  <2>4. old \in Row /\ new \in Row /\ (new = old \/ ServesBefore(new, old))
    BY <2>1, <2>2, <2>3
  <2>5. verificationStrength[old.status] \in Nat /\ verificationStrength[new.status] \in Nat
    BY <2>4, StrengthFacts DEF Row
  <2>6. RecordIsCacheable(old)
    BY <2>1
  <2>7. /\ RecordIsCacheable(new)
        /\ IsGoModOnly(new) => IsGoModOnly(old)
        /\ IsGoModOnly(new) <=> IsGoModOnly(old) => ~ReplacementWeakensAnchor(old, new)
    <3>1. CASE new = old
      BY <2>5, <2>6, <3>1 DEF ReplacementWeakensAnchor
    <3>2. CASE ServesBefore(new, old)
      BY <2>4, <2>5, <2>6, <3>2, ServesMeans DEF ReplacementWeakensAnchor
    <3> QED BY <2>4, <3>1, <3>2
  <2> QED BY <2>1, <2>3, <2>7
<1>2. IInv /\ IInv' /\ [Next]_vars => [Kept]_vars
  BY <1>1
<1> QED BY <1>2, Invariance, PTL DEF Spec, ServedNeverWeakens

-----------------------------------------------------------------------------
(* Chains of copies.                                                       *)

(* A chain stays one when rows are added.                                  *)
LEMMA ChainGrows ==
    ASSUME NEW rs, NEW more, rs \subseteq more, NEW k, NEW h, NEW n \in Nat, Chain(rs, k, h, n)
    PROVE  Chain(more, k, h, n)
<1>1. PICK f \in [0..n -> {r.at : r \in rs}] :
        /\ f[0] = h
        /\ \A i \in 0..(n - 1) : \E r \in rs :
             r.at = f[i] /\ r.leg[k] = "inherited" /\ r.src[k] = f[i + 1]
        /\ \E r \in rs : r.at = f[n] /\ r.leg[k] \notin {"inherited", "absent"}
  BY DEF Chain
<1>2. f \in [0..n -> {r.at : r \in more}]
  BY <1>1
<1> QED BY <1>1, <1>2 DEF Chain

(* A row that carries a leg starts a chain one copy longer than its own.   *)
LEMMA ChainExtends ==
    ASSUME NEW rs, NEW s \in rs, NEW k, NEW size \in Nat,
           s.leg[k] # "absent", GroundedIn(rs, s, k, size)
    PROVE  \E n \in 0..size : Chain(rs, k, s.at, n)
<1>1. CASE s.leg[k] # "inherited"
  <2> DEFINE f == [i \in 0..0 |-> s.at]
  <2>1. f \in [0..0 -> {r.at : r \in rs}] /\ f[0] = s.at /\ 0..(0 - 1) = {}
    OBVIOUS
  <2>2. Chain(rs, k, s.at, 0)
    BY <1>1, <2>1 DEF Chain
  <2> QED BY <2>2
<1>2. CASE s.leg[k] = "inherited"
  <2>1. PICK n \in 0..(size - 1) : Chain(rs, k, s.src[k], n)
    BY <1>2 DEF GroundedIn
  <2>2. PICK f \in [0..n -> {r.at : r \in rs}] :
          /\ f[0] = s.src[k]
          /\ \A i \in 0..(n - 1) : \E r \in rs :
               r.at = f[i] /\ r.leg[k] = "inherited" /\ r.src[k] = f[i + 1]
          /\ \E r \in rs : r.at = f[n] /\ r.leg[k] \notin {"inherited", "absent"}
    BY <2>1 DEF Chain
  <2>3. PICK N \in Nat : N = n + 1
    BY <2>1
  <2>4. PICK g \in [0..N -> {r.at : r \in rs}] :
          g[0] = s.at /\ \A i \in 0..n : g[i + 1] = f[i]
    <3> DEFINE g == [i \in 0..N |-> IF i = 0 THEN s.at ELSE f[i - 1]]
    <3>1. g \in [0..N -> {r.at : r \in rs}]
      BY <2>2, <2>3
    <3>2. g[0] = s.at /\ \A i \in 0..n : g[i + 1] = f[i]
      BY <2>3
    <3> QED BY <3>1, <3>2
  <2>5. ASSUME NEW i \in 0..(N - 1)
        PROVE  \E r \in rs : r.at = g[i] /\ r.leg[k] = "inherited" /\ r.src[k] = g[i + 1]
    <3>1. CASE i = 0
      <4>1. g[i] = s.at /\ g[i + 1] = f[0]
        BY <2>3, <2>4, <3>1
      <4> QED BY <1>2, <2>2, <4>1
    <3>2. CASE i # 0
      <4>1. PICK j \in 0..(n - 1) : i = j + 1
        BY <2>3, <2>5, <3>2
      <4>2. g[i] = f[j] /\ g[i + 1] = f[j + 1]
        BY <2>3, <2>4, <4>1
      <4> QED BY <2>2, <4>2
    <3> QED BY <3>1, <3>2
  <2>6. \E r \in rs : r.at = g[N] /\ r.leg[k] \notin {"inherited", "absent"}
    <3>1. g[N] = f[n]
      BY <2>3, <2>4
    <3> QED BY <2>2, <3>1
  <2>7. Chain(rs, k, s.at, N)
    BY <2>4, <2>5, <2>6 DEF Chain
  <2>8. N \in 0..size
    BY <2>3
  <2> QED BY <2>7, <2>8
<1> QED BY <1>1, <1>2

(* A grounded leg stays grounded.                                          *)
LEMMA GroundedGrows ==
    ASSUME NEW rs, NEW more, rs \subseteq more, NEW r, NEW k, NEW size \in Nat,
           NEW larger \in Nat, size <= larger, GroundedIn(rs, r, k, size)
    PROVE  GroundedIn(more, r, k, larger)
<1>1. CASE r.leg[k] = "inherited"
  <2>1. PICK n \in 0..(size - 1) : Chain(rs, k, r.src[k], n)
    BY <1>1 DEF GroundedIn
  <2>2. n \in 0..(larger - 1) /\ Chain(more, k, r.src[k], n)
    BY <2>1, ChainGrows
  <2> QED BY <1>1, <2>2 DEF GroundedIn
<1>2. CASE r.leg[k] # "inherited"
  BY <1>2 DEF GroundedIn
<1> QED BY <1>1, <1>2

(* Steps that store no row: what is left to show.                          *)
LEMMA ChainsKept ==
    ASSUME ChainsEnd, NEW p \in Procs, rows' = rows,
           \A q \in Procs \ {p} : pc'[q] = pc[q] /\ m'[q] = m[q],
           SumDBAnswered(m'[p]),
           pc'[p] \notin Deciding \cup Stored => \A k \in Kinds : m'[p].leg[k] # "inherited",
           pc'[p] \in Deciding =>
             \A k \in Kinds : GroundedIn(rows, m'[p], k, Cardinality(rows) + 1)
    PROVE  ChainsEnd'
<1>1. \A r \in rows' : SumDBAnswered(r) /\ \A k \in Kinds : GroundedIn(rows', r, k, Cardinality(rows'))
  BY DEF ChainsEnd
<1>2. \A q \in Procs : SumDBAnswered(m'[q])
  BY DEF ChainsEnd
<1>3. \A q \in Procs : pc'[q] \notin Deciding \cup Stored =>
        \A k \in Kinds : m'[q].leg[k] # "inherited"
  BY DEF ChainsEnd
<1>4. \A q \in Procs : pc'[q] \in Deciding =>
        \A k \in Kinds : GroundedIn(rows', m'[q], k, Cardinality(rows') + 1)
  BY DEF ChainsEnd
<1> QED BY <1>1, <1>2, <1>3, <1>4 DEF ChainsEnd

\* No leg was performed or copied.
Bare(r) == \A k \in Kinds : r.leg[k] = "absent"

(* Bytes just taken in hand carry no leg.                                  *)
LEMMA BareFacts ==
    /\ Bare(NoRow)
    /\ \A zip \in Zips \cup {NoHash}, mod \in GoMods : Bare([NoRow EXCEPT !.zip = zip, !.mod = mod])
    /\ \A r : Bare(r) => SumDBAnswered(r) /\ \A k \in Kinds : r.leg[k] # "inherited"
<1>1. \A r : Bare(r) => SumDBAnswered(r) /\ \A k \in Kinds : r.leg[k] # "inherited"
  BY DEF Bare, SumDBAnswered, Kinds
<1>2. Bare(NoRow) /\ \A zip \in Zips \cup {NoHash}, mod \in GoMods :
        Bare([NoRow EXCEPT !.zip = zip, !.mod = mod])
  BY RowFacts DEF Bare
<1> QED BY <1>1, <1>2

(* A run ends or starts over with bytes that carry no leg.                 *)
LEMMA BareKeepsChains ==
    ASSUME IInv, ChainsEnd, NEW p \in Procs, rows' = rows, NEW r, Bare(r),
           m' = [m EXCEPT ![p] = r], NEW label, pc' = [pc EXCEPT ![p] = label],
           label \notin Deciding \cup Stored
    PROVE  ChainsEnd'
<1>1. m'[p] = r /\ pc'[p] = label /\ \A q \in Procs \ {p} : pc'[q] = pc[q] /\ m'[q] = m[q]
  BY DEF IInv, TypeOK
<1> QED BY <1>1, BareFacts, ChainsKept

(* A step that leaves the measurement as it is.                            *)
LEMMA PlainKeepsChains ==
    ASSUME IInv, ChainsEnd, NEW p \in Procs, rows' = rows, m' = m,
           NEW label, pc' = [pc EXCEPT ![p] = label],
           label \notin Deciding \cup Stored => pc[p] \notin Deciding \cup Stored,
           label \in Deciding => pc[p] \in Deciding
    PROVE  ChainsEnd'
<1>1. pc'[p] = label /\ \A q \in Procs \ {p} : pc'[q] = pc[q] /\ m'[q] = m[q]
  BY DEF IInv, TypeOK
<1>2. SumDBAnswered(m'[p])
  BY DEF ChainsEnd
<1>3. pc'[p] \notin Deciding \cup Stored => \A k \in Kinds : m'[p].leg[k] # "inherited"
  BY <1>1 DEF ChainsEnd
<1>4. pc'[p] \in Deciding => \A k \in Kinds : GroundedIn(rows, m'[p], k, Cardinality(rows) + 1)
  BY <1>1 DEF ChainsEnd
<1> QED BY <1>1, <1>2, <1>3, <1>4, ChainsKept

(* Verification performs legs and copies none.                             *)
LEMMA MeasureKeepsChains ==
    ASSUME IInv, ChainsEnd, NEW p \in Procs, Measure(p)
    PROVE  ChainsEnd'
<1>1. PICK q \in Requests, old \in Row, c \in Nat : q = req[p] /\ old = m[p] /\ c = clock
  BY BoundAssumption DEF IInv, TypeOK
<1>2. PICK bytes \in Row : bytes = [old EXCEPT !.at = c + 1] /\ bytes.leg = old.leg
  <2>1. [old EXCEPT !.at = c + 1] \in Row
    BY DEF Row
  <2> QED BY <2>1 DEF Row
<1>3. PICK e, new :
        /\ e \in Answers
        /\ new = IF q.route # "proxy" THEN VerifyFromCache(q, bytes)
                 ELSE IF q.goModOnly THEN VerifyGoModOnly(q, bytes, e)
                 ELSE Verify(q, bytes, e)
        /\ m' = [m EXCEPT ![p] = new]
  BY <1>1, <1>2 DEF Measure
<1>4. pc[p] = "verify" /\ pc' = [pc EXCEPT ![p] = "persist"] /\ rows' = rows
  BY DEF Measure, Goto, ledger
<1>5. /\ m'[p] = new /\ pc'[p] = "persist"
      /\ \A q1 \in Procs \ {p} : pc'[q1] = pc[q1] /\ m'[q1] = m[q1]
  BY <1>3, <1>4 DEF IInv, TypeOK
<1>6. VerifiedFrom(bytes, new)
  BY <1>3, MeasurementFacts
<1>7. SumDBAnswered(old) /\ \A k \in Kinds : old.leg[k] # "inherited"
  BY <1>1, <1>4 DEF ChainsEnd, Deciding, Stored
<1>8. SumDBAnswered(new) /\ \A k \in Kinds : new.leg[k] # "inherited"
  BY <1>2, <1>6, <1>7 DEF VerifiedFrom, SumDBAnswered
<1> QED BY <1>4, <1>5, <1>8, ChainsKept DEF Deciding

(* A copied leg starts a chain through the row it is copied from.          *)
LEMMA InheritKeepsChains ==
    ASSUME IInv, ChainsEnd, NEW p \in Procs, InheritLegs(p)
    PROVE  ChainsEnd'
<1>1. PICK old, new : old \in Row /\ old = m[p] /\ new = InheritAll(rows, old)
  BY DEF IInv, TypeOK
<1>2. PICK rs \in SUBSET Row : rs = rows /\ \A s \in rs : s.at \in 1..clock
  BY DEF IInv, TypeOK, RowsAreTimed
<1>3. PICK c \in Nat : c = clock
  BY BoundAssumption DEF IInv, TypeOK
<1>4. SameBytes(old, new) /\ \A k \in Kinds : CopiedLeg(rs, old, new, k)
  <2>1. new = InheritAll(rs, old)
    BY <1>1, <1>2
  <2> QED BY <1>1, <1>2, <1>3, <2>1, InheritAllFacts
<1>5. /\ pc[p] = "inherit" /\ m' = [m EXCEPT ![p] = new] /\ pc' = [pc EXCEPT ![p] = "decide"]
      /\ rows' = rows
  BY <1>1 DEF InheritLegs, Goto, ledger
<1>6. /\ m'[p] = new /\ pc'[p] = "decide"
      /\ \A q \in Procs \ {p} : pc'[q] = pc[q] /\ m'[q] = m[q]
  BY <1>5 DEF IInv, TypeOK
<1>7. SumDBAnswered(old) /\ \A k \in Kinds : old.leg[k] # "inherited"
  BY <1>1, <1>5 DEF ChainsEnd, Deciding, Stored
<1>8. SumDBAnswered(new)
  BY <1>4, <1>7 DEF SumDBAnswered, CopiedLeg, Kinds
<1>9. PICK size \in Nat : size = Cardinality(rows)
  BY <1>3, RowsAreFinite DEF IInv, RowsAreTimed
<1>10. ASSUME NEW k \in Kinds PROVE GroundedIn(rs, new, k, size + 1)
  <2>1. CASE new.leg[k] # "inherited"
    BY <2>1 DEF GroundedIn
  <2>2. CASE new.leg[k] = "inherited"
    <3>1. PICK s \in rs : s.at = new.src[k] /\ Identity(s) = Identity(old) /\ s.leg[k] # "absent"
      BY <1>4, <1>7, <2>2 DEF CopiedLeg
    <3>2. Identity(new) = Identity(old)
      BY <1>4 DEF SameBytes, Identity, IsGoModOnly
    <3>3. GroundedIn(rs, s, k, size)
      BY <1>2, <1>9, <1>10, <3>1 DEF ChainsEnd
    <3>4. PICK n \in 0..size : Chain(rs, k, s.at, n)
      BY <3>1, <3>3, ChainExtends
    <3>5. n \in 0..(size + 1 - 1)
      OBVIOUS
    <3> QED BY <3>1, <3>2, <3>4, <3>5 DEF GroundedIn
  <2> QED BY <2>1, <2>2
<1> QED BY <1>2, <1>5, <1>6, <1>8, <1>9, <1>10, ChainsKept DEF Deciding, Stored

(* A new row is one more than the copies its chain can need.               *)
LEMMA AppendKeepsChains ==
    ASSUME IInv, ChainsEnd, NEW p \in Procs, AppendRow(p)
    PROVE  ChainsEnd'
<1>1. /\ pc[p] \in Deciding /\ rows' = rows \cup {m[p]} /\ m' = m
      /\ pc' = [pc EXCEPT ![p] = "mirror"]
  BY DEF AppendRow, Goto, Deciding
<1>2. pc'[p] = "mirror" /\ \A q \in Procs \ {p} : pc'[q] = pc[q]
  BY <1>1 DEF IInv, TypeOK
<1>3. m[p] \notin rows
  <2>1. pc[p] \in Measured \ Stored
    BY <1>1 DEF Measured, Deciding, Stored
  <2> QED BY <2>1 DEF IInv, MeasurementsAreOwn
<1>4. PICK size \in Nat : size = Cardinality(rows) /\ Cardinality(rows') = size + 1
  <2>1. PICK c \in Nat : c = clock
    BY BoundAssumption DEF IInv, TypeOK
  <2>2. IsFiniteSet(rows)
    BY <2>1, RowsAreFinite DEF IInv, RowsAreTimed
  <2> QED BY <1>1, <1>3, <2>2, FS_AddElement, FS_CardinalityType
<1>5. PICK rs, more : rs = rows /\ more = rows' /\ rs \subseteq more
  BY <1>1
<1>6. ASSUME NEW r \in rows', NEW k \in Kinds
      PROVE  GroundedIn(more, r, k, size + 1)
  <2>1. CASE r \in rows
    <3>1. GroundedIn(rs, r, k, size)
      BY <1>4, <1>5, <2>1 DEF ChainsEnd
    <3> QED BY <1>5, <3>1, GroundedGrows
  <2>2. CASE r = m[p]
    <3>1. GroundedIn(rs, r, k, size + 1)
      BY <1>1, <1>4, <1>5, <2>2 DEF ChainsEnd
    <3> QED BY <1>5, <3>1, GroundedGrows
  <2> QED BY <1>1, <1>6, <2>1, <2>2
<1>7. ASSUME NEW q \in Procs, pc'[q] \in Deciding, NEW k \in Kinds
      PROVE  GroundedIn(more, m[q], k, size + 1 + 1)
  <2>1. pc[q] \in Deciding
    BY <1>1, <1>2, <1>7
  <2>2. GroundedIn(rs, m[q], k, size + 1)
    BY <1>4, <1>5, <2>1 DEF ChainsEnd
  <2> QED BY <1>5, <2>2, GroundedGrows
<1>8. \A r \in rows' : SumDBAnswered(r)
  BY <1>1 DEF ChainsEnd
<1>9. \A q \in Procs : pc'[q] \notin Deciding \cup Stored => pc[q] \notin Deciding \cup Stored
  BY <1>2 DEF Stored
<1> QED BY <1>1, <1>4, <1>5, <1>6, <1>7, <1>8, <1>9 DEF ChainsEnd

(* The chains end, initially and after every step.                         *)
LEMMA ChainsInit == Init => ChainsEnd
<1> SUFFICES ASSUME Init PROVE ChainsEnd
  OBVIOUS
<1>1. rows = {} /\ \A p \in Procs : m[p] = NoRow /\ pc[p] = "idle"
  BY DEF Init
<1>2. SumDBAnswered(NoRow) /\ \A k \in Kinds : NoRow.leg[k] # "inherited"
  BY BareFacts
<1> QED BY <1>1, <1>2 DEF ChainsEnd, Deciding

(* Every step keeps the chains.                                            *)
LEMMA ChainsNext == IInv /\ ChainsEnd /\ [Next]_vars => ChainsEnd'
<1> SUFFICES ASSUME IInv, ChainsEnd, [Next]_vars PROVE ChainsEnd'
  OBVIOUS
<1>1. CASE Evict \/ UNCHANGED vars
  <2>1. rows' = rows /\ m' = m /\ pc' = pc
    BY <1>1 DEF Evict, vars, ledger
  <2> QED BY <2>1 DEF ChainsEnd
<1>2. ASSUME NEW p \in Procs, Step(p) PROVE ChainsEnd'
  <2>1. CASE Execute(p) \/ ReadForReuse(p) \/ CacheMiss(p) \/ PutZip(p) \/ PutGoMod(p)
             \/ ReadExisting(p) \/ RecordDowngrade(p) \/ MirrorToAudit(p)
    <3>1. /\ rows' = rows /\ m' = m
          /\ \E label : /\ pc' = [pc EXCEPT ![p] = label]
                        /\ \/ label \notin Deciding \cup Stored /\ pc[p] \notin Deciding \cup Stored
                           \/ label \in Deciding /\ pc[p] \in Deciding
                           \/ label \in Stored /\ label \notin Deciding
      BY <2>1 DEF Execute, ReadForReuse, CacheMiss, PutZip, PutGoMod, ReadExisting, RecordDowngrade,
                  MirrorToAudit, Goto, ledger, Deciding, Stored
    <3> QED BY <3>1, PlainKeepsChains
  <2>2. CASE CacheHit(p) \/ RefuseWeaker(p) \/ ReturnComposed(p) \/ Stop(p)
    <3>1. rows' = rows /\ m' = [m EXCEPT ![p] = NoRow] /\ pc' = [pc EXCEPT ![p] = "idle"]
      BY <2>2 DEF CacheHit, RefuseWeaker, ReturnComposed, Stop, Return, Goto, ledger
    <3>2. "idle" \notin Deciding \cup Stored
      BY DEF Deciding, Stored
    <3> QED BY <3>1, <3>2, BareFacts, BareKeepsChains
  <2>3. CASE Revalidate(p)
    <3>1. /\ rows' = rows /\ pc[p] = "held" /\ pc' = [pc EXCEPT ![p] = "verify"]
          /\ m' = [m EXCEPT ![p] = [NoRow EXCEPT !.zip = existing[p].zip, !.mod = existing[p].mod]]
      BY <2>3 DEF Revalidate, Goto, ledger
    <3>2. existing[p].zip \in Zips \cup {NoHash} /\ existing[p].mod \in GoMods
      BY <3>1 DEF IInv, BytesAreHeld, Bytes, TypeOK, RowsAreTimed, Row
    <3>3. PICK r : Bare(r) /\ m' = [m EXCEPT ![p] = r]
      BY <3>1, <3>2, BareFacts
    <3>4. "verify" \notin Deciding \cup Stored
      BY DEF Deciding, Stored
    <3> QED BY <3>1, <3>3, <3>4, BareKeepsChains
  <2>4. CASE Download(p)
    <3>1. PICK zip \in Zips \cup {NoHash}, mod \in GoMods :
            m' = [m EXCEPT ![p] = [NoRow EXCEPT !.zip = zip, !.mod = mod]]
      BY <2>4 DEF Download
    <3>2. rows' = rows
      BY <2>4 DEF Download, ledger
    <3>3. PICK label \in {"putGoMod", "putZip"} : pc' = [pc EXCEPT ![p] = label]
      BY <2>4 DEF Download, Goto
    <3>4. PICK r : Bare(r) /\ m' = [m EXCEPT ![p] = r]
      BY <3>1, BareFacts
    <3>5. label \notin Deciding \cup Stored
      BY <3>3 DEF Deciding, Stored
    <3> QED BY <3>2, <3>3, <3>4, <3>5, BareKeepsChains
  <2> QED BY <1>2, <2>1, <2>2, <2>3, <2>4, MeasureKeepsChains, InheritKeepsChains,
             AppendKeepsChains DEF Step
<1> QED BY <1>1, <1>2 DEF Next

(* establishedAtOfSource finds the end of a chain no longer than the rows: *)
(* its loop walks the chain and then stays.                                *)
LEMMA EstablishedFacts ==
    ASSUME NEW rs, NEW k, NEW h, NEW size \in Nat, size = Cardinality(rs),
           \A r, s \in rs : r.at = s.at => r = s,
           NEW len \in 0..size, Chain(rs, k, h, len)
    PROVE  \E r \in rs : /\ r.leg[k] \notin {"inherited", "absent"}
                         /\ EstablishedAtOfSource(rs, k, h) = r.at
<1>1. PICK f \in [0..len -> {r.at : r \in rs}] :
        /\ f[0] = h
        /\ \A i \in 0..(len - 1) : \E r \in rs :
             r.at = f[i] /\ r.leg[k] = "inherited" /\ r.src[k] = f[i + 1]
        /\ \E r \in rs : r.at = f[len] /\ r.leg[k] \notin {"inherited", "absent"}
  BY DEF Chain
<1> DEFINE named(x) == CHOOSE r \in rs : r.at = x
           after(x) == IF (\E r \in rs : r.at = x) /\ named(x).leg[k] = "inherited"
                       THEN named(x).src[k] ELSE x
           walk(w) == [n \in 0..size |-> IF n = 0 THEN h ELSE after(w[n - 1])]
           hop == CHOOSE w : w = walk(w)
           g == [n \in 0..size |-> IF n <= len THEN f[n] ELSE f[len]]
<1>2. \A r \in rs : named(r.at) = r
  OBVIOUS
<1>3. ASSUME NEW i \in 0..(len - 1) PROVE after(f[i]) = f[i + 1]
  BY <1>1, <1>2, <1>3
<1>4. after(f[len]) = f[len]
  BY <1>1, <1>2
<1> HIDE DEF after
<1>5. ASSUME NEW n \in 1..size PROVE g[n] = after(g[n - 1])
  <2>1. CASE n <= len
    <3>1. n - 1 \in 0..(len - 1) /\ g[n] = f[n] /\ g[n - 1] = f[n - 1] /\ n - 1 + 1 = n
      BY <2>1
    <3> QED BY <1>3, <3>1
  <2>2. CASE n > len
    <3>1. g[n] = f[len] /\ g[n - 1] = f[len]
      BY <2>2
    <3> QED BY <1>4, <3>1
  <2> QED BY <2>1, <2>2
<1>6. g = walk(g)
  <2>1. ASSUME NEW n \in 0..size PROVE g[n] = IF n = 0 THEN h ELSE after(g[n - 1])
    <3>1. CASE n = 0
      BY <1>1, <3>1
    <3>2. CASE n # 0
      <4>1. n \in 1..size
        BY <3>2
      <4> QED BY <1>5, <3>2, <4>1
    <3> QED BY <3>1, <3>2
  <2>2. g = [n \in 0..size |-> g[n]]
    OBVIOUS
  <2> HIDE DEF g
  <2> QED BY <2>1, <2>2
<1>7. hop = walk(hop)
  BY <1>6
<1>8. hop[0] = h /\ \A n \in 1..size : hop[n] = after(hop[n - 1])
  <2> HIDE DEF hop
  <2> QED BY <1>7
<1>9. hop[size] = f[len]
  <2>1. \A n \in 0..size : hop[n] = g[n]
    <3> SUFFICES ASSUME {n \in 0..size : hop[n] # g[n]} # {} PROVE FALSE
      OBVIOUS
    <3> DEFINE S == {n \in 0..size : hop[n] # g[n]}
               rank == [n \in S |-> n]
    <3>1. rank \in [S -> Nat]
      OBVIOUS
    <3>2. PICK n \in S : \A o \in S : rank[n] <= rank[o]
      BY <3>1, LeastNumber
    <3>3. \A o \in S : n <= o
      BY <3>2
    <3>4. n # 0
      BY <1>1, <1>8
    <3>5. n \in 1..size /\ n - 1 \in 0..size /\ n - 1 \notin S
      BY <3>3, <3>4
    <3>6. hop[n - 1] = g[n - 1]
      BY <3>5
    <3> QED BY <1>5, <1>8, <3>5, <3>6
  <2>2. g[size] = f[len]
    OBVIOUS
  <2> QED BY <2>1, <2>2
<1>10. EstablishedAtOfSource(rs, k, h) =
         IF (\E r \in rs : r.at = hop[size]) /\ named(hop[size]).leg[k] # "inherited"
         THEN hop[size] ELSE 0
  BY DEF EstablishedAtOfSource, after
<1> HIDE DEF hop
<1> QED BY <1>1, <1>2, <1>9, <1>10

(* Every checksum-database leg bears the date of a measurement that asked  *)
(* the database, and one of the legs is not bettered by another.           *)
LEMMA SumDBLegs ==
    ASSUME IInv, ChainsEnd, LegsOf(rows, "sumdb") # {}
    PROVE  /\ \A l \in LegsOf(rows, "sumdb") :
                \E r \in rows : r.at = l.established /\ r.leg["sumdb"] = "rechecked"
           /\ ComposedLeg(rows, "sumdb") \in LegsOf(rows, "sumdb")
<1>1. PICK c \in Nat : c = clock
  BY BoundAssumption DEF IInv, TypeOK
<1>2. PICK size \in Nat : size = Cardinality(rows)
  BY <1>1, RowsAreFinite DEF IInv, RowsAreTimed
<1>3. PICK rs : rs = rows /\ \A r, s \in rs : r.at = s.at => r = s
  BY DEF IInv, RowsAreTimed
<1>4. PICK L : L = LegsOf(rs, "sumdb") /\ L # {}
  BY <1>3
<1>5. ASSUME NEW l \in L
      PROVE  /\ \E r \in rs : r.at = l.established /\ r.leg["sumdb"] = "rechecked"
             /\ l.established \in 1..c /\ l.provenance \in {"rechecked", "inherited"}
  <2>1. PICK r \in rs :
          /\ r.leg["sumdb"] # "absent"
          /\ l = [provenance |-> r.leg["sumdb"],
                  established |-> IF r.leg["sumdb"] = "inherited"
                                  THEN EstablishedAtOfSource(rs, "sumdb", r.src["sumdb"]) ELSE r.at]
    BY <1>4, <1>5 DEF LegsOf
  <2>2. r.leg["sumdb"] \in {"rechecked", "inherited"} /\ GroundedIn(rs, r, "sumdb", size)
    BY <1>2, <1>3, <2>1 DEF ChainsEnd, SumDBAnswered, Kinds
  <2>3. CASE r.leg["sumdb"] = "rechecked"
    BY <1>1, <1>3, <2>1, <2>3 DEF IInv, RowsAreTimed
  <2>4. CASE r.leg["sumdb"] = "inherited"
    <3>1. PICK n \in 0..(size - 1) : Chain(rs, "sumdb", r.src["sumdb"], n)
      BY <2>2, <2>4 DEF GroundedIn
    <3>2. n \in 0..size
      OBVIOUS
    <3>3. PICK s \in rs : /\ s.leg["sumdb"] \notin {"inherited", "absent"}
                          /\ EstablishedAtOfSource(rs, "sumdb", r.src["sumdb"]) = s.at
      BY <1>2, <1>3, <3>1, <3>2, EstablishedFacts
    <3>4. s.leg["sumdb"] = "rechecked" /\ s.at \in 1..c
      BY <1>1, <1>3, <3>3 DEF ChainsEnd, SumDBAnswered, IInv, RowsAreTimed
    <3> QED BY <2>1, <2>4, <3>3, <3>4
  <2> QED BY <2>2, <2>3, <2>4
<1> DEFINE merit(l) == 2 * l.established + (IF l.provenance = "rechecked" THEN 1 ELSE 0)
           rank == [l \in L |-> 2 * c + 1 - merit(l)]
<1>6. rank \in [L -> Nat]
  BY <1>5
<1>7. PICK best \in L : \A o \in L : rank[best] <= rank[o]
  BY <1>4, <1>6, LeastNumber
<1>8. ASSUME NEW o \in L PROVE ~LegIsBetter(o, best)
  <2>1. merit(o) <= merit(best)
    <3>1. /\ best.established \in 1..c /\ best.provenance \in {"rechecked", "inherited"}
          /\ o.established \in 1..c /\ o.provenance \in {"rechecked", "inherited"}
      BY <1>5
    <3>2. 2 * c + 1 - merit(best) <= 2 * c + 1 - merit(o)
      BY <1>7
    <3> QED BY <3>1, <3>2
  <2>2. ~EstablishedNothing(o) /\ ~EstablishedNothing(best)
    BY <1>5 DEF EstablishedNothing
  <2>3. /\ best.established \in Nat /\ o.established \in Nat
        /\ o.provenance \in {"rechecked", "inherited"}
        /\ best.provenance \in {"rechecked", "inherited"}
    BY <1>5
  <2> QED BY <2>1, <2>2, <2>3 DEF LegIsBetter
<1>9. ComposedLeg(rs, "sumdb") \in L
  BY <1>4, <1>8 DEF ComposedLeg
<1> QED BY <1>3, <1>4, <1>5, <1>9

(* What a row says it inherited was established by a stored measurement,   *)
(* and the composed checksum-database leg bears the date of a measurement  *)
(* that asked the database (inheritLegs, establishedAtOfSource).           *)
THEOREM Grounded == Spec => []ClaimsAreGrounded
<1>1. IInv /\ ChainsEnd => InheritanceIsGrounded
  <2> SUFFICES ASSUME IInv, ChainsEnd, NEW r \in rows, NEW k \in Kinds, r.leg[k] = "inherited"
               PROVE  /\ \E s \in rows : /\ s.at = r.src[k]
                                         /\ Identity(s) = Identity(r)
                                         /\ s.leg[k] # "absent"
                      /\ EstablishedAtOfSource(rows, k, r.src[k]) # 0
    BY DEF InheritanceIsGrounded
  <2>1. PICK c \in Nat : c = clock
    BY BoundAssumption DEF IInv, TypeOK
  <2>2. PICK size \in Nat : size = Cardinality(rows)
    BY <2>1, RowsAreFinite DEF IInv, RowsAreTimed
  <2>3. PICK rs : rs = rows /\ \A t, s \in rs : t.at = s.at => t = s
    BY DEF IInv, RowsAreTimed
  <2>4. GroundedIn(rs, r, k, size)
    BY <2>2, <2>3 DEF ChainsEnd
  <2>5. PICK n \in 0..(size - 1) : Chain(rs, k, r.src[k], n)
    BY <2>4 DEF GroundedIn
  <2>6. n \in 0..size
    OBVIOUS
  <2>7. PICK s \in rs : EstablishedAtOfSource(rs, k, r.src[k]) = s.at
    BY <2>2, <2>3, <2>5, <2>6, EstablishedFacts
  <2>8. s.at # 0
    BY <2>1, <2>3 DEF IInv, RowsAreTimed
  <2>9. \E s1 \in rs : s1.at = r.src[k] /\ Identity(s1) = Identity(r) /\ s1.leg[k] # "absent"
    BY <2>4 DEF GroundedIn
  <2> QED BY <2>3, <2>7, <2>8, <2>9
<1>2. IInv /\ ChainsEnd => SumDBEvidenceIsReal
  BY SumDBLegs DEF SumDBEvidenceIsReal, EvidenceIsReal
<1>3. IInv /\ ChainsEnd => ClaimsAreGrounded
  BY <1>1, <1>2 DEF ClaimsAreGrounded
<1>4. Spec => []ChainsEnd
  BY Invariance, ChainsInit, ChainsNext, PTL DEF Spec
<1> QED BY <1>3, <1>4, Invariance, PTL
=============================================================================
