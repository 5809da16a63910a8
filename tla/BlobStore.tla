------------------------------ MODULE BlobStore ------------------------------
(***************************************************************************)
(* The content-addressed blob store on the local filesystem                *)
(* (internal/adapters/blobstore/localfs), seen through one artefact        *)
(* identity: several processes put, read, adopt and sweep, while files are *)
(* damaged or removed from outside and processes are killed.               *)
(*                                                                         *)
(* A file is an inode; what a path names and what an open handle reads are *)
(* kept apart, because a rename or an unlink changes the first and not the *)
(* second.  Size and modification time, the two things a cached verdict is *)
(* compared by, are the inode's version: every write moves it.             *)
(***************************************************************************)
EXTENDS Naturals, FiniteSets

CONSTANTS
    Goroutines,   \* callers of the store
    Procs,        \* processes, each with its own Store value
    Placements,   \* which process each goroutine belongs to, in each instance
    MaxFiles,     \* bound on the files that ever exist
    MaxCalls,     \* bound on calls of the store
    MaxHarm       \* bound on outside edits and removals

NoFile == 0

\* The module-cache file a caller may hand to Put, and a file under the old
\* store-chosen address.  Both exist before anything runs.
CacheFile == 1
LegacyFile == 2
Files == 1..MaxFiles

ASSUME BlobAssumption ==
    /\ Placements \subseteq [Goroutines -> Procs]
    /\ MaxFiles \in Nat /\ MaxFiles >= 2
    /\ MaxHarm \in Nat /\ MaxCalls \in Nat

VARIABLES
    procOf,     \* the process a goroutine belongs to; never changes
    inode,      \* bytes and version of every file
    made,       \* number of files made so far
    blobPath,   \* the file the identity's path names, or NoFile
    cacheName,  \* whether the module cache still names CacheFile
    temps,      \* temp files still named in the blobs directory
    verdicts,   \* per process: the cached verdict of the identity
    refusals,   \* per process: a refusal stands in the invocation's log
    audited,    \* file versions a verification_failed event was logged for
    up,         \* processes running
    marker,     \* the one-time adoption is done
    calls,      \* calls made so far
    go,         \* per goroutine: the call in progress
    harm,       \* outside edits and removals so far
    promised    \* a Put said the artefact is held and nothing removed it since

vars == <<procOf, inode, made, blobPath, cacheName, temps, verdicts, refusals, audited,
          up, marker, calls, go, harm, promised>>

\* A refusal whose event could not be logged says so beside the refusal.
Refusals == {"refused", "unlogged"}
Answers == {"none", "ok", "absent", "failed"} \cup Refusals

NoVerdict == [file |-> NoFile, ver |-> 0, err |-> "ok"]

\* verdict: hash outcome of one held file at one size and modification time.
Verdicts == [file : Files \cup {NoFile}, ver : 0..(MaxHarm + 1),
             err : {"ok"} \cup Refusals]

Idle == [op |-> "none", at |-> "idle", file |-> NoFile, ver |-> 0, answer |-> "none",
         replacing |-> FALSE, linkable |-> FALSE]

Places == {"idle", "stat", "open", "hash", "observe", "store",
           "link", "temp", "copy", "rename", "forget", "withdraw",
           "adopt", "adoptLink", "adoptCopy", "done"}

Goes == [op : {"none", "put", "read", "adopt"}, at : Places,
         file : Files \cup {NoFile}, ver : 0..(MaxHarm + 1), answer : Answers,
         replacing : BOOLEAN, linkable : BOOLEAN]

Init ==
    /\ procOf \in Placements
    /\ inode = [f \in Files |-> [bytes |-> "good", ver |-> 0]]
    /\ made = 2
    /\ blobPath = NoFile
    /\ cacheName = TRUE
    /\ temps = {}
    /\ verdicts = [p \in Procs |-> NoVerdict]
    /\ refusals = [p \in Procs |-> FALSE]
    /\ audited = {}
    /\ up = Procs
    /\ marker = FALSE
    /\ calls = 0
    /\ go = [g \in Goroutines |-> Idle]
    /\ harm = 0
    /\ promised = FALSE

-----------------------------------------------------------------------------
\* One goroutine moves; the rest of its record is kept.
At(g, place) == go[g].at = place
Goto(g, place) == go' = [go EXCEPT ![g].at = place]

\* A call ends with an answer, kept until the caller has it.
Return(g, answer) ==
    go' = [go EXCEPT ![g] = [Idle EXCEPT !.op = go[g].op, !.at = "done", !.answer = answer]]

disk == <<inode, made, blobPath, cacheName, temps>>
memory == <<verdicts, refusals>>
world == <<procOf, up, marker, calls, harm>>

\* A goroutine of a running process makes a call.
Begins(g, call) ==
    /\ At(g, "idle") /\ procOf[g] \in up
    /\ calls < MaxCalls /\ calls' = calls + 1
    /\ go' = [go EXCEPT ![g] = call]
    /\ UNCHANGED <<disk, memory, audited, procOf, up, marker, harm, promised>>

\* The caller has its answer.
Finish(g) ==
    /\ At(g, "done")
    /\ go' = [go EXCEPT ![g] = Idle]
    /\ UNCHANGED <<disk, memory, audited, world, promised>>

\* Put: with an open module-cache file or with a stream.
BeginPut(g, linkable) ==
    /\ linkable => cacheName
    /\ Begins(g, [Idle EXCEPT !.op = "put", !.at = "stat", !.linkable = linkable])

\* Get and GetPath: both open the path and verify what they opened.
BeginRead(g) == Begins(g, [Idle EXCEPT !.op = "read", !.at = "open"])

\* Mutant: a file that exists is taken for the artefact.
HeldStat_Exists(g) ==
    /\ At(g, "stat")
    /\ IF blobPath = NoFile
       THEN Goto(g, "link") /\ UNCHANGED promised
       ELSE Return(g, "ok") /\ promised' = TRUE
    /\ UNCHANGED <<disk, memory, audited, world>>

\* heldIntact: a path that names nothing is written, anything else verified.
HeldStat(g) ==
    /\ At(g, "stat")
    /\ Goto(g, IF blobPath = NoFile THEN "link" ELSE "open")
    /\ UNCHANGED <<disk, memory, audited, world, promised>>

\* Mutant: files are told apart by their time alone.
VerdictStands_ByTime(v, file) == v.file # NoFile /\ v.ver = inode[file].ver

\* A verdict stands while the file keeps its size and modification time.
VerdictStands(v, file) == v.file = file /\ v.ver = inode[file].ver

\* What the caller of verify does with the outcome: a read returns it, a Put
\* drains its input when the bytes verify and replaces them when they do not.
Verified(g, file, ver, err) ==
    IF go[g].op = "put" /\ err \in Refusals
    THEN go' = [go EXCEPT ![g] = [Idle EXCEPT !.op = "put", !.at = "temp", !.replacing = TRUE,
                                              !.linkable = go[g].linkable]]
    ELSE go' = [go EXCEPT ![g] = [Idle EXCEPT !.op = go[g].op, !.at = "done", !.file = file,
                                              !.ver = ver, !.answer = err]]

\* The file that verified is still the one held when Put answers: had a failed
\* adoption removed it and another begun since, the path would name that one's
\* half-written file, which nobody vouched for.
PromiseIfHeld(g, file, err) ==
    promised' = (promised \/ (go[g].op = "put" /\ err = "ok" /\ blobPath = file))

\* os.Open, f.Stat and the cached verdict.  A path gone by now is
\* ErrBlobNotFound, which ends Put too.
Open(g) ==
    LET v == verdicts[procOf[g]] IN
    /\ At(g, "open")
    /\ \/ /\ blobPath = NoFile
          /\ Return(g, "absent") /\ UNCHANGED promised
       \/ /\ blobPath # NoFile /\ VerdictStands(v, blobPath)
          /\ Verified(g, blobPath, inode[blobPath].ver, v.err) /\ PromiseIfHeld(g, blobPath, v.err)
       \/ /\ blobPath # NoFile /\ ~VerdictStands(v, blobPath)
          /\ go' = [go EXCEPT ![g].file = blobPath, ![g].ver = inode[blobPath].ver,
                              ![g].at = "hash"]
          /\ UNCHANGED promised
    /\ UNCHANGED <<disk, memory, audited, world>>

\* errors.Join(tampered, recordTamper(tampered)).
RefusalOf(logged) == IF logged THEN "refused" ELSE "unlogged"

\* The open file is hashed; a mismatch is appended to the assurance log before
\* anyone is told.  logged is FALSE when the append fails.
VerifyHash(g, logged) ==
    LET ok == inode[go[g].file].bytes = "good" IN
    /\ At(g, "hash")
    /\ go' = [go EXCEPT ![g].answer = IF ok THEN "ok" ELSE RefusalOf(logged),
                        ![g].at = IF ok THEN "store" ELSE "observe"]
    /\ audited' = IF ~ok /\ logged
                  THEN audited \cup {<<go[g].file, go[g].ver>>} ELSE audited
    /\ UNCHANGED <<disk, memory, world, promised>>

Observe(g) ==
    /\ At(g, "observe")
    /\ refusals' = [refusals EXCEPT ![procOf[g]] = TRUE]
    /\ Goto(g, "store")
    /\ UNCHANGED <<disk, verdicts, audited, world, promised>>

\* The verdict is kept under the size and time read before hashing.
StoreVerdict(g) ==
    /\ At(g, "store")
    /\ verdicts' = [verdicts EXCEPT ![procOf[g]] =
                      [file |-> go[g].file, ver |-> go[g].ver, err |-> go[g].answer]]
    /\ Verified(g, go[g].file, go[g].ver, go[g].answer)
    /\ PromiseIfHeld(g, go[g].file, go[g].answer)
    /\ UNCHANGED <<disk, refusals, audited, world>>

-----------------------------------------------------------------------------
\* os.Link, tried for an open file when nothing is being replaced.  It links
\* what the name means now, and fails on a name that exists, a source that is
\* gone or a filesystem that cannot.
TakeLink(g) ==
    /\ At(g, "link") /\ go[g].linkable
    /\ blobPath = NoFile /\ cacheName
    /\ blobPath' = CacheFile
    /\ promised' = TRUE
    /\ Return(g, "ok")
    /\ UNCHANGED <<inode, made, cacheName, temps, memory, audited, world>>

NoLink(g) ==
    /\ At(g, "link")
    /\ Goto(g, "temp")
    /\ UNCHANGED <<disk, memory, audited, world, promised>>

\* os.CreateTemp in the blobs directory.
CreateTemp(g) ==
    /\ At(g, "temp") /\ made < MaxFiles
    /\ made' = made + 1
    /\ inode' = [inode EXCEPT ![made + 1].bytes = "bad"]
    /\ temps' = temps \cup {made + 1}
    /\ go' = [go EXCEPT ![g].file = made + 1, ![g].at = "copy"]
    /\ UNCHANGED <<blobPath, cacheName, memory, audited, world, promised>>

CreateTempFails(g) ==
    /\ At(g, "temp")
    /\ Return(g, "failed")
    /\ UNCHANGED <<disk, memory, audited, world, promised>>

\* The content the caller measured: a stream's bytes, or the bytes the
\* module-cache file holds by now.
Content(g) == IF go[g].linkable THEN inode[CacheFile].bytes ELSE "good"

CopyTemp(g) ==
    /\ At(g, "copy")
    /\ inode' = [inode EXCEPT ![go[g].file].bytes = Content(g)]
    /\ Goto(g, "rename")
    /\ UNCHANGED <<made, blobPath, cacheName, temps, memory, audited, world, promised>>

\* Mutant: the temp file of a failed copy is left.
CopyFails_Leaves(g) ==
    /\ At(g, "copy")
    /\ Return(g, "failed")
    /\ UNCHANGED <<disk, memory, audited, world, promised>>

\* A failed copy removes its temp file.
CopyFails(g) ==
    /\ At(g, "copy")
    /\ temps' = temps \ {go[g].file}
    /\ Return(g, "failed")
    /\ UNCHANGED <<inode, made, blobPath, cacheName, memory, audited, world, promised>>

\* os.Rename publishes the file whole; a temp file swept meanwhile is an error.
Rename(g) ==
    /\ At(g, "rename")
    /\ IF go[g].file \in temps
       THEN /\ blobPath' = go[g].file
            /\ promised' = TRUE
            /\ IF go[g].replacing THEN Goto(g, "forget") ELSE Return(g, "ok")
       ELSE Return(g, "failed") /\ UNCHANGED <<blobPath, promised>>
    /\ temps' = temps \ {go[g].file}
    /\ UNCHANGED <<inode, made, cacheName, memory, audited, world>>

\* replaced: drop the refused verdict, then withdraw the standing refusal.
Forget(g) ==
    /\ At(g, "forget")
    /\ verdicts' = [verdicts EXCEPT ![procOf[g]] = NoVerdict]
    /\ Goto(g, "withdraw")
    /\ UNCHANGED <<disk, refusals, audited, world, promised>>

Withdraw(g) ==
    /\ At(g, "withdraw")
    /\ refusals' = [refusals EXCEPT ![procOf[g]] = FALSE]
    /\ Return(g, "ok")
    /\ UNCHANGED <<disk, verdicts, audited, world, promised>>

-----------------------------------------------------------------------------
\* AdoptLegacyBlob, at every open until the marker file exists.
BeginAdopt(g) ==
    /\ ~marker
    /\ Begins(g, [Idle EXCEPT !.op = "adopt", !.at = "adopt"])

\* Skipped when the new path is live already.
AdoptStat(g) ==
    /\ At(g, "adopt")
    /\ IF blobPath # NoFile
       THEN Return(g, "ok") /\ marker' = TRUE
       ELSE Goto(g, "adoptLink") /\ UNCHANGED marker
    /\ UNCHANGED <<disk, memory, audited, procOf, up, calls, harm, promised>>

AdoptLink(g) ==
    /\ At(g, "adoptLink") /\ blobPath = NoFile
    /\ blobPath' = LegacyFile
    /\ marker' = TRUE
    /\ Return(g, "ok")
    /\ UNCHANGED <<inode, made, cacheName, temps, memory, audited, procOf, up, calls, harm, promised>>

\* copyFile: no link support, so the path itself is created and filled.
AdoptCreate(g) ==
    /\ At(g, "adoptLink") /\ blobPath = NoFile /\ made < MaxFiles
    /\ made' = made + 1
    /\ inode' = [inode EXCEPT ![made + 1].bytes = "bad"]
    /\ blobPath' = made + 1
    /\ go' = [go EXCEPT ![g].file = made + 1, ![g].at = "adoptCopy"]
    /\ UNCHANGED <<cacheName, temps, memory, audited, world, promised>>

\* O_EXCL: somebody else's file is left alone, reported and skipped.
AdoptGivesUp(g) ==
    /\ At(g, "adoptLink")
    /\ marker' = TRUE
    /\ Return(g, "failed")
    /\ UNCHANGED <<disk, memory, audited, procOf, up, calls, harm, promised>>

AdoptCopy(g) ==
    /\ At(g, "adoptCopy")
    /\ inode' = [inode EXCEPT ![go[g].file].bytes = inode[LegacyFile].bytes,
                              ![go[g].file].ver = @ + 1]
    /\ marker' = TRUE
    /\ Return(g, "ok")
    /\ UNCHANGED <<made, blobPath, cacheName, temps, memory, audited, procOf, up, calls, harm, promised>>

\* A failed copy removes whatever the path names by now.
AdoptCopyFails(g) ==
    /\ At(g, "adoptCopy")
    /\ blobPath' = NoFile
    /\ promised' = FALSE
    /\ marker' = TRUE
    /\ Return(g, "failed")
    /\ UNCHANGED <<inode, made, cacheName, temps, memory, audited, procOf, up, calls, harm>>

-----------------------------------------------------------------------------
\* A process is killed: temp and half-adopted files stay, its memory is gone.
Kill(p) ==
    /\ p \in up
    /\ up' = up \ {p}
    /\ go' = [g \in Goroutines |-> IF procOf[g] = p THEN Idle ELSE go[g]]
    /\ verdicts' = [verdicts EXCEPT ![p] = NoVerdict]
    /\ refusals' = [refusals EXCEPT ![p] = FALSE]
    /\ UNCHANGED <<disk, audited, procOf, marker, calls, harm, promised>>

\* Every open for writing sweeps the temp files it finds.
CleanOrphanedTemps(p) ==
    /\ p \notin up
    /\ up' = up \cup {p}
    /\ temps' = {}
    /\ UNCHANGED <<inode, made, blobPath, cacheName, memory, audited, procOf, marker, calls, go, harm, promised>>

\* A file some path names is changed in place.
Damage(f) ==
    /\ harm < MaxHarm
    /\ f = blobPath \/ (f = CacheFile /\ cacheName) \/ f = LegacyFile
    /\ inode' = [inode EXCEPT ![f] = [bytes |-> "bad", ver |-> @.ver + 1]]
    /\ harm' = harm + 1
    /\ UNCHANGED <<made, blobPath, cacheName, temps, memory, audited, procOf, up, marker, calls, go, promised>>

\* The held file is deleted, or the module cache is cleaned.
Remove ==
    /\ harm < MaxHarm /\ blobPath # NoFile
    /\ blobPath' = NoFile
    /\ promised' = FALSE
    /\ harm' = harm + 1
    /\ UNCHANGED <<inode, made, cacheName, temps, memory, audited, procOf, up, marker, calls, go>>

CleanModcache ==
    /\ harm < MaxHarm /\ cacheName
    /\ cacheName' = FALSE
    /\ harm' = harm + 1
    /\ UNCHANGED <<inode, made, blobPath, temps, memory, audited, procOf, up, marker, calls, go, promised>>

Call(g) ==
    \/ \E l \in BOOLEAN : BeginPut(g, l)
    \/ BeginRead(g) \/ BeginAdopt(g) \/ Finish(g)

Verify(g) ==
    \/ HeldStat(g) \/ Open(g)
    \/ \E logged \in BOOLEAN : VerifyHash(g, logged)
    \/ Observe(g) \/ StoreVerdict(g)

Write(g) ==
    \/ TakeLink(g) \/ NoLink(g) \/ CreateTemp(g) \/ CreateTempFails(g)
    \/ CopyTemp(g) \/ CopyFails(g) \/ Rename(g) \/ Forget(g) \/ Withdraw(g)

Adopt(g) ==
    \/ AdoptStat(g) \/ AdoptLink(g) \/ AdoptCreate(g) \/ AdoptGivesUp(g)
    \/ AdoptCopy(g) \/ AdoptCopyFails(g)

Next ==
    \/ \E g \in Goroutines : Call(g) \/ Verify(g) \/ Write(g) \/ Adopt(g)
    \/ \E p \in Procs : Kill(p) \/ CleanOrphanedTemps(p)
    \/ \E f \in Files : Damage(f)
    \/ Remove \/ CleanModcache

Spec == Init /\ [][Next]_vars

-----------------------------------------------------------------------------
\* Every variable has its type.
TypeOK ==
    /\ inode \in [Files -> [bytes : {"good", "bad"}, ver : 0..(MaxHarm + 1)]]
    /\ procOf \in Placements
    /\ made \in 2..MaxFiles
    /\ blobPath \in 0..made
    /\ cacheName \in BOOLEAN /\ marker \in BOOLEAN /\ promised \in BOOLEAN
    /\ temps \subseteq 3..made
    /\ verdicts \in [Procs -> Verdicts]
    /\ refusals \in [Procs -> BOOLEAN]
    /\ audited \subseteq Files \X (0..(MaxHarm + 1))
    /\ up \subseteq Procs
    /\ go \in [Goroutines -> Goes]
    /\ harm \in 0..MaxHarm /\ calls \in 0..MaxCalls

\* The file a call answered about is as it was when the call measured it.
Unmoved(g) == go[g].file # NoFile /\ inode[go[g].file].ver = go[g].ver

\* Get and GetPath never vouch for a file that does not hash to its identity,
\* whoever replaced, half-wrote or damaged it and whatever verdict was cached
\* (localfs.verify and its verdict map).
ReadsAreIntact ==
    \A g \in Goroutines :
        At(g, "done") /\ go[g].op = "read" /\ go[g].answer = "ok" /\ Unmoved(g)
            => inode[go[g].file].bytes = "good"

\* A read is refused only for bytes that are wrong: a verdict outlives neither
\* the repair by Put nor the completion of the file it was computed on.
RefusalsAreTrue ==
    \A g \in Goroutines :
        At(g, "done") /\ go[g].answer \in Refusals /\ Unmoved(g)
            => inode[go[g].file].bytes = "bad"

\* A refusal, cached or fresh, that does not itself report a lost event has its
\* event in the assurance log (recordTamper joined to the refusal).
RefusalsAreAudited ==
    \A g \in Goroutines :
        At(g, "done") /\ go[g].answer = "refused"
            => <<go[g].file, go[g].ver>> \in audited

\* After a Put that succeeded the artefact is held until someone outside, or a
\* failed adoption, removes it; without outside damage what is held is whole.
PutMeansHeld ==
    promised => /\ blobPath # NoFile
                /\ harm = 0 => inode[blobPath].bytes = "good"

\* Once every process is running again, each temp file belongs to a Put in
\* progress: no failure path and no killed process leaves one behind an open.
TempsAreOwned ==
    up = Procs => \A t \in temps : \E g \in Goroutines :
                      go[g].file = t /\ go[g].at \in {"copy", "rename"}

\* No verdict outlives the bytes it was computed on, whichever way it falls, and
\* no refusal is silent (verify, forget, recordTamper).
VerdictsAreTrue == TypeOK /\ ReadsAreIntact /\ RefusalsAreTrue /\ RefusalsAreAudited
==============================================================================
