--------------------------- MODULE BlobStoreProofs ---------------------------
(***************************************************************************)
(* Proofs about BlobStore: for any number of processes, goroutines, files, *)
(* calls and outside edits, no verdict outlives the bytes it was computed  *)
(* on, a Put that succeeded is held, and no temp file is left behind.      *)
(***************************************************************************)
EXTENDS BlobStore, TLAPS

-----------------------------------------------------------------------------
(* The inductive invariant.                                                *)

Writing == {"copy", "rename", "adoptCopy"}

\* A writer's file is its own, and a temp file being filled is not yet held.
FilesAreOwned ==
    /\ \A g \in Goroutines : go[g].at \in Writing => go[g].file \in 3..made
    /\ \A g, h \in Goroutines :
         go[g].at \in Writing /\ go[h].at \in Writing /\ go[g].file = go[h].file => g = h
    /\ \A g \in Goroutines : At(g, "copy") => go[g].file # blobPath

\* Versions move with outside edits, and once more when an adoption completes.
VersionsAreBounded ==
    /\ \A f \in Files : inode[f].ver <= harm + 1
    /\ \A f \in Files : f > made => inode[f].ver = 0
    /\ \A g \in Goroutines : At(g, "adoptCopy") => inode[go[g].file].ver <= harm

\* A file somebody has measured: nobody is filling it, and its version only moves on.
Seen(f, v) ==
    /\ f \in 1..made /\ v <= inode[f].ver
    /\ \A g \in Goroutines : At(g, "copy") => go[g].file # f

\* What was said of a file at a version is so while it has that version.
Told(f, v, err) ==
    /\ inode[f].ver = v => /\ err = "ok" => inode[f].bytes = "good"
                           /\ err \in Refusals => inode[f].bytes = "bad"
    /\ err = "refused" => <<f, v>> \in audited

Reader(c) ==
    /\ c.at \in {"hash", "observe", "store"} => Seen(c.file, c.ver)
    /\ c.at \in {"observe", "store"} =>
         c.answer \in {"ok"} \cup Refusals /\ Told(c.file, c.ver, c.answer)
    /\ c.at = "done" => \/ c.file = NoFile /\ c.answer \notin Refusals
                        \/ Seen(c.file, c.ver) /\ Told(c.file, c.ver, c.answer)

ReadersAreRight == \A g \in Goroutines : Reader(go[g])

VerdictIsRight(v) == v.file = NoFile \/ (Seen(v.file, v.ver) /\ Told(v.file, v.ver, v.err))

VerdictsAreRight == \A p \in Procs : VerdictIsRight(verdicts[p])

\* Without outside edits only an unfinished file is not the artefact.
UntouchedIsWhole ==
    harm = 0 => /\ inode[CacheFile].bytes = "good" /\ inode[LegacyFile].bytes = "good"
                /\ \A f \in Files : inode[f].ver # 0 => inode[f].bytes = "good"
                /\ \A g \in Goroutines : At(g, "rename") => inode[go[g].file].bytes = "good"

IInv ==
    /\ TypeOK /\ FilesAreOwned /\ VersionsAreBounded /\ ReadersAreRight /\ VerdictsAreRight
    /\ UntouchedIsWhole /\ PutMeansHeld /\ TempsAreOwned

-----------------------------------------------------------------------------
(* What every step does to files already measured.                         *)

DiskMoves ==
    /\ made' \in Nat /\ made <= made'
    /\ audited \subseteq audited'
    /\ \A f \in 1..made :
         /\ inode'[f].ver \in Nat
         /\ \/ inode'[f] = inode[f]
            \/ inode'[f].ver > inode[f].ver
            \/ inode'[f].ver = inode[f].ver /\ \E g \in Goroutines : At(g, "copy") /\ go[g].file = f
    /\ \A g \in Goroutines :
         go'[g].at = "copy" => \/ At(g, "copy") /\ go'[g].file = go[g].file
                               \/ go'[g].file > made

(* Bounds of the state.                                                    *)
LEMMA Bounds ==
    ASSUME TypeOK
    PROVE  /\ MaxFiles \in Nat /\ MaxHarm \in Nat /\ MaxCalls \in Nat /\ harm \in Nat /\ made \in Nat
           /\ 2 <= made /\ made <= MaxFiles /\ Files = 1..MaxFiles
           /\ \A f \in Files : inode[f].ver \in Nat /\ inode[f].bytes \in {"good", "bad"}
           /\ blobPath \in 0..made
  BY BlobAssumption DEF TypeOK, Files

(* What was seen and told of a file stays seen and told.                   *)
LEMMA Kept ==
    ASSUME IInv, DiskMoves, NEW f, NEW v \in Nat, NEW err, Seen(f, v)
    PROVE  Seen(f, v)' /\ (Told(f, v, err) => Told(f, v, err)')
<1>1. /\ f \in 1..made /\ v <= inode[f].ver /\ f \in 1..made' /\ f \in Files
      /\ inode[f].ver \in Nat /\ made \in Nat
  <2>1. f \in 1..made /\ v <= inode[f].ver
    BY DEF Seen
  <2>2. /\ made \in Nat /\ MaxFiles \in Nat /\ made <= MaxFiles /\ Files = 1..MaxFiles
        /\ \A x \in Files : inode[x].ver \in Nat
    BY Bounds DEF IInv
  <2>3. made' \in Nat /\ made <= made'
    BY DEF DiskMoves
  <2>4. f \in 1..made' /\ f \in Files
    BY <2>1, <2>2, <2>3
  <2> QED BY <2>1, <2>2, <2>4
<1>2. \/ inode'[f] = inode[f]
      \/ inode'[f].ver \in Nat /\ inode'[f].ver > inode[f].ver
  BY <1>1 DEF DiskMoves, Seen
<1>3. Seen(f, v)'
  <2>1. v <= inode'[f].ver
    BY <1>1, <1>2
  <2>2. \A g \in Goroutines : go'[g].at = "copy" => go'[g].file # f
    BY <1>1 DEF DiskMoves, Seen
  <2> QED BY <1>1, <2>1, <2>2 DEF Seen, At
<1>4. ASSUME Told(f, v, err) PROVE Told(f, v, err)'
  BY <1>1, <1>2, <1>4 DEF Told, DiskMoves
<1> QED BY <1>3, <1>4

(* A step that moves one goroutine keeps what the others were told.        *)
LEMMA ReadersKept ==
    ASSUME IInv, DiskMoves, NEW g \in Goroutines,
           \A h \in Goroutines \ {g} : go'[h] = go[h], Reader(go[g])'
    PROVE  ReadersAreRight'
<1> SUFFICES ASSUME NEW h \in Goroutines, h # g PROVE Reader(go[h])'
  BY DEF ReadersAreRight
<1>1. PICK c : c = go[h] /\ go'[h] = c /\ c.ver \in Nat
  BY DEF IInv, TypeOK, Goes
<1>2. Reader(c)
  BY <1>1 DEF IInv, ReadersAreRight
<1>3. Seen(c.file, c.ver) =>
        /\ Seen(c.file, c.ver)'
        /\ Told(c.file, c.ver, c.answer) => Told(c.file, c.ver, c.answer)'
  BY <1>1, Kept
<1>4. Reader(c)'
  BY <1>2, <1>3 DEF Reader
<1> QED BY <1>1, <1>4 DEF Reader, Seen, Told, At

(* A verdict that is kept stays right.                                     *)
LEMMA VerdictsKept ==
    ASSUME IInv, DiskMoves,
           \A p \in Procs : verdicts'[p] = verdicts[p] \/ VerdictIsRight(verdicts[p])'
    PROVE  VerdictsAreRight'
<1> SUFFICES ASSUME NEW p \in Procs, verdicts'[p] = verdicts[p]
             PROVE  VerdictIsRight(verdicts[p])'
  BY DEF VerdictsAreRight
<1>1. PICK c : c = verdicts[p] /\ verdicts'[p] = c /\ c.ver \in Nat
  BY DEF IInv, TypeOK, Verdicts
<1>2. VerdictIsRight(c)
  BY <1>1 DEF IInv, VerdictsAreRight
<1>3. VerdictIsRight(c)'
  BY <1>1, <1>2, Kept DEF VerdictIsRight
<1> QED BY <1>1, <1>3 DEF VerdictIsRight, Seen, Told, At

-----------------------------------------------------------------------------
(* Steps that leave the disk alone.                                        *)

(* A goroutine moves to a place where it writes no file: the rest of the   *)
(* invariant follows from what it was told, what the step stored as a      *)
(* verdict and what it promised.                                           *)
LEMMA Moved ==
    ASSUME IInv, NEW g \in Goroutines, NEW new \in Goes, go' = [go EXCEPT ![g] = new],
           new.at \notin Writing, go[g].at \notin {"copy", "rename"}, Reader(new)',
           UNCHANGED <<procOf, disk, up, harm>>, audited \subseteq audited',
           audited' \subseteq Files \X (0..(MaxHarm + 1)),
           calls' \in 0..MaxCalls, marker' \in BOOLEAN, refusals' \in [Procs -> BOOLEAN],
           verdicts' \in [Procs -> Verdicts],
           \A p \in Procs : verdicts'[p] = verdicts[p] \/ VerdictIsRight(verdicts[p])',
           promised' \in BOOLEAN, PutMeansHeld'
    PROVE  IInv'
<1>1. /\ \A h \in Goroutines \ {g} : go'[h] = go[h]
      /\ go'[g] = new /\ go' \in [Goroutines -> Goes]
  BY DEF IInv, TypeOK
<1>2. UNCHANGED <<procOf, inode, made, blobPath, cacheName, temps, up, harm>>
  BY DEF disk
<1>3. TypeOK'
  BY <1>1, <1>2 DEF IInv, TypeOK
<1>4. DiskMoves
  <2>1. /\ made \in Nat
        /\ \A f \in 1..made : inode[f].ver \in Nat
    BY Bounds DEF IInv
  <2> QED BY <1>1, <1>2, <2>1 DEF DiskMoves, Writing, At
<1>5. FilesAreOwned'
  BY <1>1, <1>2 DEF IInv, FilesAreOwned, At, Writing
<1>6. VersionsAreBounded'
  BY <1>1, <1>2 DEF IInv, VersionsAreBounded, At, Writing
<1>7. UntouchedIsWhole'
  BY <1>1, <1>2 DEF IInv, UntouchedIsWhole, At, Writing
<1>8. TempsAreOwned'
  BY <1>1, <1>2 DEF IInv, TempsAreOwned
<1>9. ReadersAreRight'
  <2>1. Reader(go[g])'
    BY <1>1 DEF Reader, Seen, Told, At
  <2> QED BY <1>1, <1>4, <2>1, ReadersKept
<1>10. VerdictsAreRight'
  BY <1>4, VerdictsKept
<1> QED BY <1>3, <1>5, <1>6, <1>7, <1>8, <1>9, <1>10 DEF IInv

(* The same when the step stores no verdict, logs and promises nothing.    *)
LEMMA MovedQuietly ==
    ASSUME IInv, NEW g \in Goroutines, NEW new \in Goes, go' = [go EXCEPT ![g] = new],
           new.at \notin Writing, go[g].at \notin {"copy", "rename"}, Reader(new)',
           UNCHANGED <<procOf, disk, up, harm, verdicts, audited, promised>>,
           refusals' \in [Procs -> BOOLEAN], calls' \in 0..MaxCalls, marker' \in BOOLEAN
    PROVE  IInv'
<1>1. /\ audited' = audited /\ audited \subseteq Files \X (0..(MaxHarm + 1))
      /\ verdicts' = verdicts /\ verdicts \in [Procs -> Verdicts]
      /\ promised' = promised /\ promised \in BOOLEAN
  BY DEF IInv, TypeOK
<1>2. PutMeansHeld'
  BY DEF IInv, PutMeansHeld, disk
<1> QED BY <1>1, <1>2, Moved

(* A place where nothing is being written, read or answered.               *)
LEMMA PlainReader ==
    ASSUME NEW c, \/ c.at \notin {"hash", "observe", "store", "done"}
                  \/ c.at = "done" /\ c.file = NoFile /\ c.answer \notin Refusals
    PROVE  Reader(c)'
  BY DEF Reader

(* The idle record and a returned answer.                                  *)
LEMMA IdleFacts ==
    /\ Idle \in Goes /\ Idle.at = "idle" /\ Idle.file = NoFile /\ Idle.answer = "none"
    /\ Idle.op = "none" /\ Idle.ver = 0
  BY BlobAssumption DEF Idle, Goes, Places, Answers, Refusals

(* The record a returning call leaves.                                     *)
LEMMA ReturnFacts ==
    ASSUME IInv, NEW g \in Goroutines, NEW answer \in {"ok", "absent", "failed"}, Return(g, answer)
    PROVE  \E new \in Goes : /\ go' = [go EXCEPT ![g] = new] /\ new.at = "done"
                             /\ new.file = NoFile /\ new.answer = answer
<1> DEFINE new == [Idle EXCEPT !.op = go[g].op, !.at = "done", !.answer = answer]
<1>1. go[g].op \in {"none", "put", "read", "adopt"}
  BY DEF IInv, TypeOK, Goes
<1>2. new \in Goes /\ new.at = "done" /\ new.file = NoFile /\ new.answer = answer
  BY <1>1, IdleFacts DEF Goes, Places, Answers, Refusals, Idle
<1> QED BY <1>2 DEF Return

(* A call begins, and a call's answer is taken.                            *)
LEMMA CallKeeps ==
    ASSUME IInv, NEW g \in Goroutines, Call(g)
    PROVE  IInv'
<1>1. ASSUME NEW call \in Goes, call.at \in {"stat", "open", "adopt"}, Begins(g, call)
      PROVE  IInv'
  <2>1. /\ go' = [go EXCEPT ![g] = call] /\ go[g].at = "idle"
        /\ UNCHANGED <<procOf, disk, up, harm, verdicts, refusals, audited, promised, marker>>
        /\ calls' = calls + 1 /\ calls < MaxCalls
    BY <1>1 DEF Begins, memory, At
  <2>2. refusals' \in [Procs -> BOOLEAN] /\ marker' \in BOOLEAN /\ calls' \in 0..MaxCalls
    BY <2>1, BlobAssumption DEF IInv, TypeOK
  <2>3. Reader(call)'
    BY <1>1, PlainReader
  <2> QED BY <1>1, <2>1, <2>2, <2>3, MovedQuietly DEF Writing
<1>2. ASSUME NEW l \in BOOLEAN, BeginPut(g, l) PROVE IInv'
  <2>1. PICK call : call = [Idle EXCEPT !.op = "put", !.at = "stat", !.linkable = l]
    OBVIOUS
  <2>2. call \in Goes /\ call.at = "stat"
    BY <2>1, IdleFacts DEF Goes, Places, Idle
  <2> QED BY <1>1, <1>2, <2>1, <2>2 DEF BeginPut
<1>3. CASE BeginRead(g)
  <2>1. PICK call : call = [Idle EXCEPT !.op = "read", !.at = "open"]
    OBVIOUS
  <2>2. call \in Goes /\ call.at = "open"
    BY <2>1, IdleFacts DEF Goes, Places, Idle
  <2> QED BY <1>1, <1>3, <2>1, <2>2 DEF BeginRead
<1>4. CASE BeginAdopt(g)
  <2>1. PICK call : call = [Idle EXCEPT !.op = "adopt", !.at = "adopt"]
    OBVIOUS
  <2>2. call \in Goes /\ call.at = "adopt"
    BY <2>1, IdleFacts DEF Goes, Places, Idle
  <2> QED BY <1>1, <1>4, <2>1, <2>2 DEF BeginAdopt
<1>5. CASE Finish(g)
  <2>1. /\ go' = [go EXCEPT ![g] = Idle] /\ go[g].at = "done"
        /\ UNCHANGED <<procOf, disk, up, harm, verdicts, refusals, audited, promised, marker, calls>>
    BY <1>5 DEF Finish, memory, world, At
  <2>2. refusals' \in [Procs -> BOOLEAN] /\ marker' \in BOOLEAN /\ calls' \in 0..MaxCalls
    BY <2>1 DEF IInv, TypeOK
  <2>3. PICK c : c = Idle
    OBVIOUS
  <2>4. Reader(c)'
    BY <2>3, IdleFacts, PlainReader
  <2> QED BY <2>1, <2>2, <2>3, <2>4, IdleFacts, MovedQuietly DEF Writing
<1> QED BY <1>2, <1>3, <1>4, <1>5 DEF Call

(* A call returns without having touched the disk.                         *)
LEMMA ReturnedQuietly ==
    ASSUME IInv, NEW g \in Goroutines, NEW answer \in {"ok", "absent", "failed"}, Return(g, answer),
           go[g].at \notin {"copy", "rename"},
           UNCHANGED <<procOf, disk, up, harm, verdicts, audited, promised>>,
           refusals' \in [Procs -> BOOLEAN], calls' \in 0..MaxCalls, marker' \in BOOLEAN
    PROVE  IInv'
<1>1. PICK new \in Goes : /\ go' = [go EXCEPT ![g] = new] /\ new.at = "done"
                          /\ new.file = NoFile /\ new.answer = answer
  BY ReturnFacts
<1>2. Reader(new)'
  BY <1>1, PlainReader DEF Refusals
<1> QED BY <1>1, <1>2, MovedQuietly DEF Writing

(* A goroutine goes on to another place of its call.                       *)
LEMMA WentQuietly ==
    ASSUME IInv, NEW g \in Goroutines, NEW place \in {"link", "open", "temp", "adoptLink", "store"},
           Goto(g, place), go[g].at \notin {"copy", "rename"},
           place = "store" => go[g].at = "observe",
           UNCHANGED <<procOf, disk, up, harm, verdicts, audited, promised>>,
           refusals' \in [Procs -> BOOLEAN], calls' \in 0..MaxCalls, marker' \in BOOLEAN
    PROVE  IInv'
<1>1. go[g] \in Goes
  BY DEF IInv, TypeOK
<1>2. PICK new : new = [go[g] EXCEPT !.at = place]
  OBVIOUS
<1>3. /\ new \in Goes /\ new.at = place /\ new.file = go[g].file /\ new.ver = go[g].ver
      /\ new.answer = go[g].answer
  BY <1>1, <1>2 DEF Goes, Places
<1>4. go' = [go EXCEPT ![g] = new]
  BY <1>2 DEF Goto, IInv, TypeOK
<1>5. Reader(new)'
  <2>1. CASE place # "store"
    BY <1>3, <2>1, PlainReader
  <2>2. CASE place = "store"
    <3>1. /\ Seen(new.file, new.ver) /\ new.answer \in {"ok"} \cup Refusals
          /\ Told(new.file, new.ver, new.answer)
      BY <1>3, <2>2 DEF IInv, ReadersAreRight, Reader
    <3>2. Seen(new.file, new.ver)' /\ Told(new.file, new.ver, new.answer)'
      <4>1. \A h \in Goroutines : go'[h].at = "copy" => go[h].at = "copy" /\ go'[h].file = go[h].file
        BY <1>3, <1>4, <2>2 DEF IInv, TypeOK
      <4> QED BY <3>1, <4>1 DEF Seen, Told, disk, At
    <3> QED BY <1>3, <2>2, <3>1, <3>2 DEF Reader
  <2> QED BY <2>1, <2>2
<1> QED BY <1>3, <1>4, <1>5, MovedQuietly DEF Writing

(* The steps that only look, decide or give up.                            *)
LEMMA QuietKeeps ==
    ASSUME IInv, NEW g \in Goroutines,
           \/ HeldStat(g) \/ NoLink(g) \/ CreateTempFails(g) \/ Observe(g) \/ Withdraw(g)
           \/ AdoptStat(g) \/ AdoptGivesUp(g)
    PROVE  IInv'
<1>1. /\ UNCHANGED <<procOf, disk, up, harm, verdicts, audited, promised>>
      /\ calls' = calls
      /\ refusals' = refusals \/ \E b \in BOOLEAN : refusals' = [refusals EXCEPT ![procOf[g]] = b]
      /\ marker' = marker \/ marker' = TRUE
  BY DEF HeldStat, NoLink, CreateTempFails, Observe, Withdraw, AdoptStat, AdoptGivesUp, memory, world
<1>2. refusals' \in [Procs -> BOOLEAN] /\ marker' \in BOOLEAN /\ calls' \in 0..MaxCalls
  BY <1>1 DEF IInv, TypeOK
<1>3. CASE HeldStat(g) \/ NoLink(g) \/ Observe(g) \/ (AdoptStat(g) /\ blobPath = NoFile)
  <2>1. \E place \in {"link", "open", "temp", "adoptLink", "store"} :
          /\ Goto(g, place) /\ go[g].at \notin {"copy", "rename"}
          /\ place = "store" => go[g].at = "observe"
    BY <1>3 DEF HeldStat, NoLink, Observe, AdoptStat, At
  <2> QED BY <1>1, <1>2, <2>1, WentQuietly
<1>4. CASE CreateTempFails(g) \/ Withdraw(g) \/ (AdoptStat(g) /\ blobPath # NoFile) \/ AdoptGivesUp(g)
  <2>1. \E answer \in {"ok", "failed"} : Return(g, answer) /\ go[g].at \notin {"copy", "rename"}
    BY <1>4 DEF CreateTempFails, Withdraw, AdoptStat, AdoptGivesUp, At
  <2> QED BY <1>1, <1>2, <2>1, ReturnedQuietly
<1> QED BY <1>3, <1>4

-----------------------------------------------------------------------------
(* Verification.                                                           *)

(* What a caller does with a verdict that is right.                        *)
LEMMA VerifiedFacts ==
    ASSUME IInv, NEW g \in Goroutines, NEW file \in Files, NEW ver \in 0..(MaxHarm + 1),
           NEW err \in {"ok"} \cup Refusals, Verified(g, file, ver, err), go[g].at # "copy",
           Seen(file, ver), Told(file, ver, err), UNCHANGED <<disk, audited>>
    PROVE  \E new \in Goes : /\ go' = [go EXCEPT ![g] = new] /\ new.at \in {"temp", "done"}
                             /\ Reader(new)' /\ Seen(file, ver)' /\ Told(file, ver, err)'
<1>1. go[g] \in Goes
  BY DEF IInv, TypeOK
<1>2. CASE go[g].op = "put" /\ err \in Refusals
  <2>1. PICK new : new = [Idle EXCEPT !.op = "put", !.at = "temp", !.replacing = TRUE,
                                      !.linkable = go[g].linkable]
    OBVIOUS
  <2>2. new \in Goes /\ new.at = "temp"
    BY <1>1, <2>1, IdleFacts DEF Goes, Places, Idle
  <2>3. go' = [go EXCEPT ![g] = new]
    BY <1>2, <2>1 DEF Verified
  <2>4. Reader(new)'
    BY <2>2, PlainReader
  <2>5. \A h \in Goroutines : go'[h].at = "copy" => go[h].at = "copy" /\ go'[h].file = go[h].file
    BY <2>2, <2>3 DEF IInv, TypeOK
  <2>6. Seen(file, ver)' /\ Told(file, ver, err)'
    BY <2>5 DEF Seen, Told, disk, At
  <2> QED BY <2>2, <2>3, <2>4, <2>6
<1>3. CASE ~(go[g].op = "put" /\ err \in Refusals)
  <2>1. PICK new : new = [Idle EXCEPT !.op = go[g].op, !.at = "done", !.file = file,
                                      !.ver = ver, !.answer = err]
    OBVIOUS
  <2>2. /\ new \in Goes /\ new.at = "done" /\ new.file = file /\ new.ver = ver /\ new.answer = err
    BY <1>1, <2>1, IdleFacts DEF Goes, Places, Idle, Answers
  <2>3. go' = [go EXCEPT ![g] = new]
    BY <1>3, <2>1 DEF Verified
  <2>4. \A h \in Goroutines : go'[h].at = "copy" => go[h].at = "copy" /\ go'[h].file = go[h].file
    BY <2>2, <2>3 DEF IInv, TypeOK
  <2>5. Seen(file, ver)' /\ Told(file, ver, err)'
    BY <2>4 DEF Seen, Told, disk, At
  <2>6. Reader(new)'
    BY <2>2, <2>5 DEF Reader
  <2> QED BY <2>2, <2>3, <2>5, <2>6
<1> QED BY <1>2, <1>3

(* os.Open and the cached verdict.                                         *)
LEMMA OpenKeeps ==
    ASSUME IInv, NEW g \in Goroutines, Open(g)
    PROVE  IInv'
<1> DEFINE v == verdicts[procOf[g]]
<1>1. /\ go[g].at = "open"
      /\ UNCHANGED <<procOf, disk, up, harm, verdicts, refusals, audited, marker, calls>>
  BY DEF Open, memory, world, At
<1>2. /\ refusals' \in [Procs -> BOOLEAN] /\ marker' \in BOOLEAN /\ calls' \in 0..MaxCalls
      /\ verdicts' \in [Procs -> Verdicts] /\ audited' \subseteq Files \X (0..(MaxHarm + 1))
      /\ procOf[g] \in Procs /\ v \in Verdicts /\ VerdictIsRight(v)
  BY <1>1, BlobAssumption DEF IInv, TypeOK, VerdictsAreRight
<1>3. CASE blobPath = NoFile /\ Return(g, "absent") /\ UNCHANGED promised
  BY <1>1, <1>2, <1>3, ReturnedQuietly
<1>4. CASE /\ blobPath # NoFile /\ VerdictStands(v, blobPath)
           /\ Verified(g, blobPath, inode[blobPath].ver, v.err)
           /\ PromiseIfHeld(g, blobPath, v.err)
  <2>1. PICK file, ver, err : file = blobPath /\ ver = inode[blobPath].ver /\ err = v.err
    OBVIOUS
  <2>2. /\ file \in Files /\ ver \in 0..(MaxHarm + 1) /\ err \in {"ok"} \cup Refusals
        /\ v.file = file /\ v.ver = ver
    BY <1>2, <1>4, <2>1, Bounds DEF VerdictStands, Verdicts, IInv, NoFile
  <2>3. Seen(file, ver) /\ Told(file, ver, err)
    BY <1>2, <1>4, <2>1, <2>2 DEF VerdictIsRight, VerdictStands
  <2>4. PICK new \in Goes : /\ go' = [go EXCEPT ![g] = new] /\ new.at \in {"temp", "done"}
                            /\ Reader(new)' /\ Seen(file, ver)' /\ Told(file, ver, err)'
    BY <1>1, <1>4, <2>1, <2>2, <2>3, VerifiedFacts
  <2>5. promised' = (promised \/ (go[g].op = "put" /\ err = "ok" /\ blobPath = file))
    BY <1>4, <2>1 DEF PromiseIfHeld
  <2>6. promised' \in BOOLEAN
    BY <2>5 DEF IInv, TypeOK
  <2>7. PutMeansHeld'
    BY <1>1, <1>4, <2>1, <2>3, <2>5 DEF IInv, PutMeansHeld, Told, disk
  <2> QED BY <1>1, <1>2, <2>4, <2>6, <2>7, Moved DEF Writing
<1>5. CASE /\ blobPath # NoFile
           /\ go' = [go EXCEPT ![g].file = blobPath, ![g].ver = inode[blobPath].ver, ![g].at = "hash"]
           /\ UNCHANGED promised
  <2>1. PICK new : new = [go[g] EXCEPT !.file = blobPath, !.ver = inode[blobPath].ver, !.at = "hash"]
    OBVIOUS
  <2>2. blobPath \in 1..made /\ blobPath \in Files /\ inode[blobPath].ver \in 0..(MaxHarm + 1)
    BY <1>5, Bounds DEF IInv, TypeOK, NoFile
  <2>3. /\ new \in Goes /\ new.at = "hash" /\ new.file = blobPath /\ new.ver = inode[blobPath].ver
    <3>1. PICK old \in Goes : old = go[g]
      BY DEF IInv, TypeOK
    <3>2. new = [old EXCEPT !.file = blobPath, !.ver = inode[blobPath].ver, !.at = "hash"]
      BY <2>1, <3>1
    <3> QED BY <2>2, <3>2 DEF Goes, Places
  <2>4. go' = [go EXCEPT ![g] = new]
    BY <1>5, <2>1 DEF IInv, TypeOK
  <2>5. \A h \in Goroutines : go'[h].at = "copy" => go[h].at = "copy" /\ go'[h].file = go[h].file
    BY <2>3, <2>4 DEF IInv, TypeOK
  <2>6. Seen(new.file, new.ver)'
    BY <1>1, <2>2, <2>3, <2>5, Bounds DEF Seen, disk, IInv, FilesAreOwned, At
  <2>7. Reader(new)'
    BY <2>3, <2>6 DEF Reader
  <2> QED BY <1>1, <1>2, <1>5, <2>3, <2>4, <2>7, MovedQuietly DEF Writing
<1> QED BY <1>3, <1>4, <1>5 DEF Open

(* The open file is hashed.                                                *)
LEMMA HashKeeps ==
    ASSUME IInv, NEW g \in Goroutines, NEW logged \in BOOLEAN, VerifyHash(g, logged)
    PROVE  IInv'
<1> DEFINE ok == inode[go[g].file].bytes = "good"
<1>1. /\ go[g].at = "hash" /\ go[g] \in Goes /\ Seen(go[g].file, go[g].ver)
      /\ UNCHANGED <<procOf, disk, up, harm, verdicts, refusals, promised, marker, calls>>
  BY DEF VerifyHash, memory, world, At, IInv, TypeOK, ReadersAreRight, Reader
<1>2. go[g].file \in Files /\ inode[go[g].file].bytes \in {"good", "bad"}
  BY <1>1, Bounds DEF Seen, IInv
<1>3. PICK new : new = [go[g] EXCEPT !.answer = IF ok THEN "ok" ELSE RefusalOf(logged),
                                     !.at = IF ok THEN "store" ELSE "observe"]
  OBVIOUS
<1>4. /\ new \in Goes /\ new.file = go[g].file /\ new.ver = go[g].ver
      /\ new.at \in {"store", "observe"} /\ new.answer \in {"ok"} \cup Refusals
      /\ ok => new.answer = "ok"
      /\ ~ok => new.answer = RefusalOf(logged) /\ new.answer \in Refusals
  BY <1>1, <1>3 DEF Goes, Places, Answers, Refusals, RefusalOf
<1>5. go' = [go EXCEPT ![g] = new]
  BY <1>3 DEF VerifyHash, IInv, TypeOK
<1>6. /\ audited \subseteq audited' /\ audited' \subseteq Files \X (0..(MaxHarm + 1))
      /\ ~ok /\ logged => <<new.file, new.ver>> \in audited'
  BY <1>1, <1>2, <1>4 DEF VerifyHash, IInv, TypeOK, Goes
<1>7. \A h \in Goroutines : go'[h].at = "copy" => go[h].at = "copy" /\ go'[h].file = go[h].file
  BY <1>4, <1>5 DEF IInv, TypeOK
<1>8. Seen(new.file, new.ver)'
  BY <1>1, <1>4, <1>7 DEF Seen, disk, At
<1>9. Told(new.file, new.ver, new.answer)'
  BY <1>1, <1>2, <1>4, <1>6 DEF Told, disk, Refusals, RefusalOf
<1>10. Reader(new)'
  BY <1>4, <1>8, <1>9 DEF Reader
<1>11. PutMeansHeld'
  BY <1>1 DEF IInv, PutMeansHeld, disk
<1>12. /\ refusals' \in [Procs -> BOOLEAN] /\ marker' \in BOOLEAN /\ calls' \in 0..MaxCalls
       /\ verdicts' \in [Procs -> Verdicts] /\ promised' \in BOOLEAN
       /\ \A p \in Procs : verdicts'[p] = verdicts[p]
  BY <1>1 DEF IInv, TypeOK
<1> QED BY <1>1, <1>4, <1>5, <1>6, <1>10, <1>11, <1>12, Moved DEF Writing

(* The verdict is kept under the size and time read before hashing.        *)
LEMMA StoreKeeps ==
    ASSUME IInv, NEW g \in Goroutines, StoreVerdict(g)
    PROVE  IInv'
<1>1. /\ go[g].at = "store" /\ go[g] \in Goes
      /\ UNCHANGED <<procOf, disk, up, harm, refusals, audited, marker, calls>>
  BY DEF StoreVerdict, world, At, IInv, TypeOK
<1>2. PICK file, ver, err : file = go[g].file /\ ver = go[g].ver /\ err = go[g].answer
  OBVIOUS
<1>3. Seen(file, ver) /\ err \in {"ok"} \cup Refusals /\ Told(file, ver, err)
  BY <1>1, <1>2 DEF IInv, ReadersAreRight, Reader
<1>4. file \in Files /\ ver \in 0..(MaxHarm + 1) /\ file # NoFile
  BY <1>1, <1>2, <1>3, Bounds DEF Seen, IInv, Goes, NoFile
<1>5. PICK new \in Goes : /\ go' = [go EXCEPT ![g] = new] /\ new.at \in {"temp", "done"}
                          /\ Reader(new)' /\ Seen(file, ver)' /\ Told(file, ver, err)'
  BY <1>1, <1>2, <1>3, <1>4, VerifiedFacts DEF StoreVerdict
<1>6. PICK c : c = [file |-> file, ver |-> ver, err |-> err]
  OBVIOUS
<1>7. c \in Verdicts /\ c.file = file /\ c.ver = ver /\ c.err = err /\ VerdictIsRight(c)'
  BY <1>3, <1>4, <1>5, <1>6 DEF Verdicts, VerdictIsRight
<1>8. procOf[g] \in Procs /\ verdicts' = [verdicts EXCEPT ![procOf[g]] = c]
  BY <1>2, <1>6, BlobAssumption DEF StoreVerdict, IInv, TypeOK
<1>9. verdicts' \in [Procs -> Verdicts]
  BY <1>7, <1>8 DEF IInv, TypeOK
<1>10. ASSUME NEW p \in Procs PROVE verdicts'[p] = verdicts[p] \/ VerdictIsRight(verdicts[p])'
  <2>1. verdicts'[p] = verdicts[p] \/ verdicts'[p] = c
    BY <1>8 DEF IInv, TypeOK
  <2> QED BY <1>7, <2>1 DEF VerdictIsRight, Seen, Told, At
<1>11. promised' = (promised \/ (go[g].op = "put" /\ err = "ok" /\ blobPath = file))
  BY <1>2 DEF StoreVerdict, PromiseIfHeld
<1>12. promised' \in BOOLEAN
  BY <1>11 DEF IInv, TypeOK
<1>13. PutMeansHeld'
  <2>1. CASE promised
    BY <1>1, <2>1 DEF IInv, PutMeansHeld, disk
  <2>2. CASE promised' /\ ~promised
    <3>1. err = "ok" /\ blobPath = file
      BY <1>11, <2>2
    <3>2. inode[file].ver = ver \/ inode[file].ver # 0
      BY <1>3, <1>4, Bounds DEF Seen, IInv
    <3>3. harm = 0 => inode[file].bytes = "good"
      BY <1>3, <1>4, <3>1, <3>2 DEF Told, IInv, UntouchedIsWhole
    <3> QED BY <1>1, <1>4, <3>1, <3>3 DEF PutMeansHeld, disk
  <2> QED BY <2>1, <2>2 DEF PutMeansHeld
<1>14. /\ refusals' \in [Procs -> BOOLEAN] /\ marker' \in BOOLEAN /\ calls' \in 0..MaxCalls
       /\ audited' = audited /\ audited' \subseteq Files \X (0..(MaxHarm + 1))
  BY <1>1 DEF IInv, TypeOK
<1> QED BY <1>1, <1>5, <1>9, <1>10, <1>12, <1>13, <1>14, Moved DEF Writing

(* A replaced file's verdict is dropped.                                   *)
LEMMA ForgetKeeps ==
    ASSUME IInv, NEW g \in Goroutines, Forget(g)
    PROVE  IInv'
<1>1. /\ go[g].at = "forget" /\ go[g] \in Goes
      /\ UNCHANGED <<procOf, disk, up, harm, refusals, audited, marker, calls, promised>>
      /\ verdicts' = [verdicts EXCEPT ![procOf[g]] = NoVerdict]
  BY DEF Forget, world, At, IInv, TypeOK
<1>2. PICK new : new = [go[g] EXCEPT !.at = "withdraw"]
  OBVIOUS
<1>3. new \in Goes /\ new.at = "withdraw" /\ go' = [go EXCEPT ![g] = new]
  BY <1>1, <1>2 DEF Goes, Places, Forget, Goto, IInv, TypeOK
<1>4. Reader(new)'
  BY <1>3, PlainReader
<1>5. NoVerdict \in Verdicts /\ NoVerdict.file = NoFile
  BY BlobAssumption DEF NoVerdict, Verdicts
<1>6. /\ verdicts' \in [Procs -> Verdicts]
      /\ \A p \in Procs : verdicts'[p] = verdicts[p] \/ verdicts'[p] = NoVerdict
  BY <1>1, <1>5 DEF IInv, TypeOK
<1>7. ASSUME NEW p \in Procs PROVE verdicts'[p] = verdicts[p] \/ VerdictIsRight(verdicts[p])'
  BY <1>5, <1>6 DEF VerdictIsRight
<1>8. PutMeansHeld'
  BY <1>1 DEF IInv, PutMeansHeld, disk
<1>9. /\ refusals' \in [Procs -> BOOLEAN] /\ marker' \in BOOLEAN /\ calls' \in 0..MaxCalls
      /\ audited' = audited /\ audited' \subseteq Files \X (0..(MaxHarm + 1)) /\ promised' \in BOOLEAN
  BY <1>1 DEF IInv, TypeOK
<1> QED BY <1>1, <1>3, <1>4, <1>6, <1>7, <1>8, <1>9, Moved DEF Writing

-----------------------------------------------------------------------------
(* Steps that change the disk.                                             *)

(* What is left to show of a step of one goroutine, or of none.            *)
LEMMA Stepped ==
    ASSUME IInv, DiskMoves, TypeOK', FilesAreOwned', VersionsAreBounded', UntouchedIsWhole',
           PutMeansHeld', TempsAreOwned', UNCHANGED verdicts,
           \/ UNCHANGED go
           \/ \E g \in Goroutines : /\ \A h \in Goroutines \ {g} : go'[h] = go[h]
                                    /\ \/ go'[g].at \notin {"hash", "observe", "store", "done"}
                                       \/ /\ go'[g].at = "done" /\ go'[g].file = NoFile
                                          /\ go'[g].answer \notin Refusals
    PROVE  IInv'
<1>1. VerdictsAreRight'
  BY VerdictsKept
<1>2. ReadersAreRight'
  <2>1. CASE UNCHANGED go
    <3> SUFFICES ASSUME NEW g \in Goroutines PROVE Reader(go[g])'
      BY DEF ReadersAreRight
    <3>1. PICK c : c = go[g] /\ go'[g] = c /\ c.ver \in Nat
      BY <2>1 DEF IInv, TypeOK, Goes
    <3>2. Reader(c)
      BY <3>1 DEF IInv, ReadersAreRight
    <3>3. Reader(c)'
      BY <3>1, <3>2, Kept DEF Reader
    <3> QED BY <3>1, <3>3 DEF Reader, Seen, Told, At
  <2>2. ASSUME NEW g \in Goroutines, \A h \in Goroutines \ {g} : go'[h] = go[h],
               \/ go'[g].at \notin {"hash", "observe", "store", "done"}
               \/ go'[g].at = "done" /\ go'[g].file = NoFile /\ go'[g].answer \notin Refusals
        PROVE  ReadersAreRight'
    <3>1. Reader(go[g])'
      BY <2>2 DEF Reader
    <3> QED BY <2>2, <3>1, ReadersKept
  <2> QED BY <2>1, <2>2
<1> QED BY <1>1, <1>2 DEF IInv

(* The module-cache file or the legacy file is linked into place.          *)
LEMMA LinkKeeps ==
    ASSUME IInv, NEW g \in Goroutines, TakeLink(g) \/ AdoptLink(g)
    PROVE  IInv'
<1>1. /\ go[g].at \in {"link", "adoptLink"} /\ Return(g, "ok") /\ blobPath = NoFile
      /\ blobPath' \in {1, 2}
      /\ UNCHANGED <<inode, made, cacheName, temps, verdicts, refusals, audited, procOf, up, calls, harm>>
      /\ marker' = marker \/ marker' = TRUE
      /\ (promised' = TRUE /\ blobPath' = CacheFile) \/ promised' = promised
  BY DEF TakeLink, AdoptLink, memory, world, At, CacheFile, LegacyFile
<1>2. PICK new \in Goes : /\ go' = [go EXCEPT ![g] = new] /\ new.at = "done"
                          /\ new.file = NoFile /\ new.answer = "ok"
  BY <1>1, ReturnFacts
<1>3. /\ go' \in [Goroutines -> Goes] /\ go'[g] = new
      /\ \A h \in Goroutines \ {g} : go'[h] = go[h]
  BY <1>2 DEF IInv, TypeOK
<1>4. TypeOK'
  <2>1. marker' \in BOOLEAN /\ promised' \in BOOLEAN
    BY <1>1 DEF IInv, TypeOK
  <2>2. blobPath' \in 0..made'
    BY <1>1, Bounds DEF IInv
  <2> QED BY <1>1, <1>3, <2>1, <2>2 DEF IInv, TypeOK
<1>5. DiskMoves
  BY <1>1, <1>2, <1>3, Bounds DEF DiskMoves, IInv, At
<1>6. FilesAreOwned'
  <2>1. \A h \in Goroutines : go[h].at \in Writing => go[h].file \notin {1, 2}
    BY Bounds DEF IInv, FilesAreOwned
  <2> QED BY <1>1, <1>2, <1>3, <2>1 DEF IInv, FilesAreOwned, Writing, At
<1>7. VersionsAreBounded' /\ UntouchedIsWhole'
  BY <1>1, <1>2, <1>3 DEF IInv, VersionsAreBounded, UntouchedIsWhole, At
<1>8. TempsAreOwned'
  BY <1>1, <1>2, <1>3 DEF IInv, TempsAreOwned
<1>9. PutMeansHeld'
  <2>1. promised' => blobPath' = CacheFile
    BY <1>1 DEF IInv, PutMeansHeld
  <2> QED BY <1>1, <2>1 DEF IInv, PutMeansHeld, UntouchedIsWhole, NoFile, CacheFile
<1> QED BY <1>1, <1>2, <1>3, <1>4, <1>5, <1>6, <1>7, <1>8, <1>9, Stepped DEF Refusals

(* A file is made: a temp file, or the held path itself in an adoption.    *)
LEMMA CreateKeeps ==
    ASSUME IInv, NEW g \in Goroutines, CreateTemp(g) \/ AdoptCreate(g)
    PROVE  IInv'
<1> DEFINE f == made + 1
<1>1. /\ made < MaxFiles /\ made' = f /\ inode' = [inode EXCEPT ![f].bytes = "bad"]
      /\ UNCHANGED <<cacheName, verdicts, refusals, audited, procOf, up, marker, calls, harm, promised>>
  BY DEF CreateTemp, AdoptCreate, memory, world
<1>2. /\ go[g].at \in {"temp", "adoptLink"}
      /\ \/ /\ go' = [go EXCEPT ![g].file = f, ![g].at = "copy"]
            /\ temps' = temps \cup {f} /\ blobPath' = blobPath
         \/ /\ go' = [go EXCEPT ![g].file = f, ![g].at = "adoptCopy"]
            /\ temps' = temps /\ blobPath' = f /\ blobPath = NoFile
  BY DEF CreateTemp, AdoptCreate, At
<1>3. /\ f \in Files /\ f \in 3..f /\ f \in Nat /\ made \in Nat /\ MaxFiles \in Nat /\ harm \in Nat
      /\ 1 \in Files /\ 2 \in Files /\ f # 1 /\ f # 2 /\ blobPath \in 0..made /\ f <= MaxFiles
      /\ \A h \in 0..made : h # f
  BY <1>1, Bounds DEF IInv
<1> HIDE DEF f
<1>4. /\ go[g] \in Goes /\ go'[g].file = f
      /\ go'[g].at \in {"copy", "adoptCopy"} /\ go'[g] \in Goes
      /\ go'[g].at = "copy" => temps' = temps \cup {f} /\ blobPath' = blobPath
      /\ go'[g].at = "adoptCopy" => temps' = temps /\ blobPath' = f /\ blobPath = NoFile
      /\ \A h \in Goroutines \ {g} : go'[h] = go[h]
      /\ go' \in [Goroutines -> Goes]
  BY <1>2, <1>3 DEF IInv, TypeOK, Goes, Places
<1>5. /\ inode' \in [Files -> [bytes : {"good", "bad"}, ver : 0..(MaxHarm + 1)]]
      /\ inode'[f].bytes = "bad" /\ inode'[f].ver = inode[f].ver /\ inode[f].ver = 0
      /\ \A x \in Files \ {f} : inode'[x] = inode[x]
  <2>1. f > made
    BY <1>3 DEF f
  <2> QED BY <1>1, <1>3, <2>1 DEF IInv, TypeOK, VersionsAreBounded
<1>6. TypeOK'
  <2>1. /\ made' \in 2..MaxFiles /\ blobPath' \in 0..made'
        /\ temps' \subseteq 3..made'
    <3>1. /\ made \in Nat /\ 2 <= made /\ blobPath \in 0..made /\ temps \subseteq 3..made
      BY Bounds DEF IInv, TypeOK
    <3>2. made' \in 2..MaxFiles /\ made' = made + 1 /\ f \in 3..made'
      BY <1>1, <1>3, <3>1, Bounds DEF IInv, f
    <3>3. blobPath' \in {blobPath, f} /\ temps' \subseteq temps \cup {f}
      BY <1>4
    <3> QED BY <3>1, <3>2, <3>3
  <2> QED BY <1>1, <1>4, <1>5, <2>1 DEF IInv, TypeOK
<1>7. DiskMoves
  <2>1. \A x \in 1..made : x \in Files \ {f} /\ inode[x].ver \in Nat
    BY <1>3, Bounds DEF IInv, f
  <2>2. made' \in Nat /\ made <= made' /\ f > made
    BY <1>1, <1>3 DEF f
  <2> QED BY <1>1, <1>3, <1>4, <1>5, <2>1, <2>2 DEF DiskMoves, At
<1>8. FilesAreOwned'
  <2>1. \A h \in Goroutines \ {g} : go'[h].at \in Writing => go'[h].file \in 3..made /\ go'[h].file # f
    BY <1>3, <1>4, Bounds DEF IInv, FilesAreOwned
  <2>2. \A h \in Goroutines : go'[h].at \in Writing => go'[h].file \in 3..made'
    BY <1>1, <1>3, <1>4, <2>1 DEF f
  <2>3. \A h \in Goroutines : go'[h].at = "copy" => go'[h].file # blobPath'
    BY <1>2, <1>3, <1>4, <2>1 DEF IInv, FilesAreOwned, At, Writing
  <2> QED BY <1>4, <2>1, <2>2, <2>3 DEF IInv, FilesAreOwned, At
<1>9. VersionsAreBounded'
  <2>1. \A h \in Goroutines \ {g} : go'[h].at = "adoptCopy" => go[h].file \in Files \ {f}
    BY <1>3, <1>4, Bounds DEF IInv, FilesAreOwned, Writing
  <2>2. \A x \in Files : x > f => x > made /\ x # f
    BY <1>3, Bounds DEF IInv, f
  <2> QED BY <1>1, <1>3, <1>4, <1>5, <2>1, <2>2 DEF IInv, VersionsAreBounded, At
<1>10. UntouchedIsWhole'
  <2>1. \A h \in Goroutines \ {g} : go'[h].at = "rename" => go[h].file \in Files \ {f}
    BY <1>3, <1>4, Bounds DEF IInv, FilesAreOwned, Writing
  <2> QED BY <1>1, <1>3, <1>4, <1>5, <2>1 DEF IInv, UntouchedIsWhole, At, CacheFile, LegacyFile
<1>11. PutMeansHeld'
  <2>1. promised => blobPath' = blobPath /\ blobPath \in Files \ {f}
    BY <1>2, <1>3, Bounds DEF IInv, PutMeansHeld, NoFile
  <2> QED BY <1>1, <1>5, <2>1 DEF IInv, PutMeansHeld
<1>12. TempsAreOwned'
  <2>1. \A t \in temps : t # f
    BY <1>3 DEF IInv, TypeOK
  <2>2. \A h \in Goroutines : go[h].at \in {"copy", "rename"} => h # g
    BY <1>2
  <2> QED BY <1>1, <1>4, <2>1, <2>2 DEF IInv, TempsAreOwned
<1> QED BY <1>1, <1>4, <1>6, <1>7, <1>8, <1>9, <1>10, <1>11, <1>12, Stepped

(* A writer's file gets its bytes: a temp file unseen by anyone, or the    *)
(* held path in an adoption, whose version moves.                          *)
LEMMA CopyKeeps ==
    ASSUME IInv, NEW g \in Goroutines, CopyTemp(g)
    PROVE  IInv'
<1> DEFINE f == go[g].file
<1>1. /\ go[g].at = "copy" /\ inode' = [inode EXCEPT ![f].bytes = Content(g)]
      /\ go' = [go EXCEPT ![g].at = "rename"]
      /\ UNCHANGED <<made, blobPath, cacheName, temps, verdicts, refusals, audited, procOf, up, marker,
                     calls, harm, promised>>
  BY DEF CopyTemp, Goto, memory, world, At
<1>2. f \in 3..made /\ f \in Files /\ f # 1 /\ f # 2 /\ f # blobPath /\ 1 \in Files /\ 2 \in Files
  BY <1>1, Bounds DEF IInv, FilesAreOwned, Writing, At
<1>3. /\ Content(g) \in {"good", "bad"} /\ (harm = 0 => Content(g) = "good")
  BY <1>2, Bounds DEF Content, IInv, UntouchedIsWhole, CacheFile
<1> HIDE DEF f
<1>4. /\ go' \in [Goroutines -> Goes] /\ go'[g].at = "rename" /\ go'[g].file = f
      /\ \A h \in Goroutines \ {g} : go'[h] = go[h]
  <2>1. PICK old \in Goes : old = go[g] /\ old.file = f
    BY DEF IInv, TypeOK, f
  <2>2. PICK new : new = [old EXCEPT !.at = "rename"]
    OBVIOUS
  <2>3. new \in Goes /\ new.at = "rename" /\ new.file = f
    BY <2>1, <2>2 DEF Goes, Places
  <2>4. go \in [Goroutines -> Goes] /\ go' = [go EXCEPT ![g] = new]
    BY <1>1, <2>1, <2>2 DEF IInv, TypeOK
  <2> QED BY <2>3, <2>4
<1>5. /\ inode' \in [Files -> [bytes : {"good", "bad"}, ver : 0..(MaxHarm + 1)]]
      /\ inode'[f].bytes = Content(g) /\ inode'[f].ver = inode[f].ver
      /\ \A x \in Files \ {f} : inode'[x] = inode[x]
  BY <1>1, <1>2, <1>3 DEF IInv, TypeOK
<1>6. TypeOK'
  BY <1>1, <1>4, <1>5 DEF IInv, TypeOK
<1>7. \A h \in Goroutines \ {g} : go[h].at \in Writing => go[h].file \in Files \ {f}
  BY <1>1, Bounds DEF IInv, FilesAreOwned, Writing, f
<1>8. DiskMoves
  <2>1. \A x \in 1..made : x \in Files /\ inode[x].ver \in Nat /\ inode'[x].ver = inode[x].ver
    BY <1>5, Bounds DEF IInv
  <2>2. made \in Nat
    BY Bounds DEF IInv
  <2>3. go[g].at = "copy" /\ go[g].file = f
    BY <1>1 DEF f
  <2> QED BY <1>1, <1>4, <1>5, <2>1, <2>2, <2>3 DEF DiskMoves, At
<1>9. FilesAreOwned'
  BY <1>1, <1>2, <1>4 DEF IInv, FilesAreOwned, Writing, At, f
<1>10. VersionsAreBounded'
  <2>1. \A x \in Files : inode'[x].ver = inode[x].ver
    BY <1>5
  <2>2. \A h \in Goroutines : go'[h].at = "adoptCopy" =>
          go[h].at = "adoptCopy" /\ go'[h].file = go[h].file /\ go[h].file \in Files
    BY <1>4, <1>7 DEF Writing
  <2> QED BY <1>1, <2>1, <2>2 DEF IInv, VersionsAreBounded, At
<1>11. UntouchedIsWhole'
  <2> SUFFICES ASSUME harm = 0 PROVE UntouchedIsWhole'
    BY <1>1 DEF UntouchedIsWhole
  <2>1. \A h \in Goroutines : go'[h].at = "rename" => inode'[go'[h].file].bytes = "good"
    BY <1>3, <1>4, <1>5, <1>7 DEF IInv, UntouchedIsWhole, At, Writing
  <2> QED BY <1>2, <1>3, <1>5, <2>1 DEF IInv, UntouchedIsWhole, CacheFile, LegacyFile, At
<1>12. PutMeansHeld'
  <2>1. promised => blobPath \in Files \ {f}
    BY <1>2, Bounds DEF IInv, PutMeansHeld, NoFile
  <2> QED BY <1>1, <1>5, <2>1 DEF IInv, PutMeansHeld
<1>13. TempsAreOwned'
  BY <1>1, <1>4 DEF IInv, TempsAreOwned, f
<1> QED BY <1>1, <1>4, <1>6, <1>8, <1>9, <1>10, <1>11, <1>12, <1>13, Stepped

(* A failed copy removes its temp file.                                    *)
LEMMA CopyFailsKeeps ==
    ASSUME IInv, NEW g \in Goroutines, CopyFails(g)
    PROVE  IInv'
<1>1. /\ go[g].at = "copy" /\ Return(g, "failed") /\ temps' = temps \ {go[g].file}
      /\ UNCHANGED <<inode, made, blobPath, cacheName, verdicts, refusals, audited, procOf, up, marker,
                     calls, harm, promised>>
  BY DEF CopyFails, memory, world, At
<1>2. PICK new \in Goes : /\ go' = [go EXCEPT ![g] = new] /\ new.at = "done"
                          /\ new.file = NoFile /\ new.answer = "failed"
  BY <1>1, ReturnFacts
<1>3. /\ go' \in [Goroutines -> Goes] /\ go'[g] = new
      /\ \A h \in Goroutines \ {g} : go'[h] = go[h]
  BY <1>2 DEF IInv, TypeOK
<1>4. TypeOK'
  BY <1>1, <1>3 DEF IInv, TypeOK
<1>5. DiskMoves
  BY <1>1, <1>2, <1>3, Bounds DEF DiskMoves, IInv, At
<1>6. FilesAreOwned' /\ VersionsAreBounded' /\ UntouchedIsWhole' /\ PutMeansHeld'
  BY <1>1, <1>2, <1>3
     DEF IInv, FilesAreOwned, VersionsAreBounded, UntouchedIsWhole, PutMeansHeld, Writing, At
<1>7. TempsAreOwned'
  BY <1>1, <1>3 DEF IInv, TempsAreOwned
<1> QED BY <1>1, <1>2, <1>3, <1>4, <1>5, <1>6, <1>7, Stepped DEF Refusals

(* The rename publishes a temp file whole, unless it was swept.            *)
LEMMA RenameKeeps ==
    ASSUME IInv, NEW g \in Goroutines, Rename(g)
    PROVE  IInv'
<1> DEFINE f == go[g].file
<1>1. /\ go[g].at = "rename" /\ temps' = temps \ {f}
      /\ UNCHANGED <<inode, made, cacheName, verdicts, refusals, audited, procOf, up, marker, calls, harm>>
      /\ \/ blobPath' = f /\ promised' = TRUE
         \/ blobPath' = blobPath /\ promised' = promised
      /\ Goto(g, "forget") \/ Return(g, "ok") \/ Return(g, "failed")
  BY DEF Rename, memory, world, At
<1>2. f \in 3..made /\ f \in Files /\ f # NoFile /\ f \in 0..made
  BY <1>1, Bounds DEF IInv, FilesAreOwned, Writing, NoFile
<1>3. \E new \in Goes : /\ go' = [go EXCEPT ![g] = new]
                        /\ \/ new.at = "forget"
                           \/ new.at = "done" /\ new.file = NoFile /\ new.answer \notin Refusals
  <2>1. CASE Goto(g, "forget")
    <3>1. PICK new : new = [go[g] EXCEPT !.at = "forget"]
      OBVIOUS
    <3>2. new \in Goes /\ new.at = "forget"
      BY <3>1 DEF IInv, TypeOK, Goes, Places
    <3>3. go' = [go EXCEPT ![g] = new]
      BY <2>1, <3>1 DEF Goto, IInv, TypeOK
    <3> QED BY <3>2, <3>3
  <2>2. CASE Return(g, "ok") \/ Return(g, "failed")
    BY <2>2, ReturnFacts DEF Refusals
  <2> QED BY <1>1, <2>1, <2>2
<1>4. PICK new \in Goes : /\ go' = [go EXCEPT ![g] = new]
                          /\ \/ new.at = "forget"
                             \/ new.at = "done" /\ new.file = NoFile /\ new.answer \notin Refusals
  BY <1>3
<1> HIDE DEF f
<1>5. /\ go' \in [Goroutines -> Goes] /\ go'[g] = new /\ go'[g].at \in {"forget", "done"}
      /\ \A h \in Goroutines \ {g} : go'[h] = go[h]
  BY <1>4 DEF IInv, TypeOK
<1>6. TypeOK'
  <2>1. promised' \in BOOLEAN
    BY <1>1 DEF IInv, TypeOK
  <2>2. blobPath' \in 0..made'
    BY <1>1, <1>2 DEF IInv, TypeOK
  <2> QED BY <1>1, <1>5, <2>1, <2>2 DEF IInv, TypeOK
<1>7. DiskMoves
  BY <1>1, <1>5, Bounds DEF DiskMoves, IInv, At
<1>8. FilesAreOwned'
  <2>1. \A h \in Goroutines \ {g} : go[h].at \in Writing => go[h].file # f
    BY <1>1 DEF IInv, FilesAreOwned, Writing, f
  <2> QED BY <1>1, <1>5, <2>1 DEF IInv, FilesAreOwned, Writing, At
<1>9. VersionsAreBounded' /\ UntouchedIsWhole'
  BY <1>1, <1>5 DEF IInv, VersionsAreBounded, UntouchedIsWhole, At
<1>10. PutMeansHeld'
  <2>1. harm = 0 => inode[f].bytes = "good"
    BY <1>1 DEF IInv, UntouchedIsWhole, At, f
  <2> QED BY <1>1, <1>2, <2>1 DEF IInv, PutMeansHeld
<1>11. TempsAreOwned'
  <2>1. \A t \in temps' : t # go[g].file
    BY <1>1 DEF f
  <2> QED BY <1>1, <1>5, <2>1 DEF IInv, TempsAreOwned
<1> QED BY <1>1, <1>4, <1>5, <1>6, <1>7, <1>8, <1>9, <1>10, <1>11, Stepped

(* An adoption completes the file it made at the held path.                *)
LEMMA AdoptCopyKeeps ==
    ASSUME IInv, NEW g \in Goroutines, AdoptCopy(g)
    PROVE  IInv'
<1> DEFINE f == go[g].file
<1>1. /\ go[g].at = "adoptCopy" /\ Return(g, "ok") /\ marker' = TRUE
      /\ inode' = [inode EXCEPT ![f].bytes = inode[LegacyFile].bytes, ![f].ver = @ + 1]
      /\ UNCHANGED <<made, blobPath, cacheName, temps, verdicts, refusals, audited, procOf, up,
                     calls, harm, promised>>
  BY DEF AdoptCopy, memory, At
<1>2. f \in 3..made /\ f \in Files /\ f # 1 /\ f # 2 /\ 1 \in Files /\ 2 \in Files
  BY <1>1, Bounds DEF IInv, FilesAreOwned, Writing
<1>3. /\ inode[f].ver \in Nat /\ inode[f].ver <= harm /\ harm \in 0..MaxHarm /\ MaxHarm \in Nat
      /\ inode[2].bytes \in {"good", "bad"} /\ made \in Nat
  BY <1>1, <1>2, Bounds DEF IInv, TypeOK, VersionsAreBounded, At
<1>4. PICK new \in Goes : /\ go' = [go EXCEPT ![g] = new] /\ new.at = "done"
                          /\ new.file = NoFile /\ new.answer = "ok"
  BY <1>1, ReturnFacts
<1> HIDE DEF f
<1>5. /\ go' \in [Goroutines -> Goes] /\ go'[g] = new
      /\ \A h \in Goroutines \ {g} : go'[h] = go[h]
  BY <1>4 DEF IInv, TypeOK
<1>6. /\ inode' \in [Files -> [bytes : {"good", "bad"}, ver : 0..(MaxHarm + 1)]]
      /\ inode'[f].bytes = inode[2].bytes /\ inode'[f].ver = inode[f].ver + 1
      /\ \A x \in Files \ {f} : inode'[x] = inode[x]
  BY <1>1, <1>2, <1>3 DEF IInv, TypeOK, LegacyFile
<1>7. TypeOK'
  BY <1>1, <1>5, <1>6 DEF IInv, TypeOK
<1>8. \A h \in Goroutines \ {g} : go[h].at \in Writing => go[h].file \in Files \ {f}
  BY <1>1, Bounds DEF IInv, FilesAreOwned, Writing, f
<1>9. DiskMoves
  <2>1. \A x \in 1..made : x \in Files /\ inode[x].ver \in Nat
    BY Bounds DEF IInv
  <2> QED BY <1>1, <1>3, <1>4, <1>5, <1>6, <2>1 DEF DiskMoves, At
<1>10. FilesAreOwned'
  BY <1>1, <1>4, <1>5 DEF IInv, FilesAreOwned, Writing, At
<1>11. VersionsAreBounded'
  <2>1. \A x \in Files : inode'[x].ver <= harm + 1
    BY <1>3, <1>6 DEF IInv, VersionsAreBounded
  <2>2. \A x \in Files : x > made => x # f
    BY <1>2, <1>3 DEF Files
  <2> QED BY <1>1, <1>4, <1>5, <1>6, <1>8, <2>1, <2>2 DEF IInv, VersionsAreBounded, Writing, At
<1>12. UntouchedIsWhole'
  BY <1>1, <1>2, <1>4, <1>5, <1>6, <1>8
     DEF IInv, UntouchedIsWhole, Writing, At, CacheFile, LegacyFile
<1>13. PutMeansHeld'
  <2>1. promised => blobPath \in Files
    BY Bounds DEF IInv, PutMeansHeld, NoFile
  <2> QED BY <1>1, <1>6, <2>1 DEF IInv, PutMeansHeld, UntouchedIsWhole, LegacyFile
<1>14. TempsAreOwned'
  BY <1>1, <1>5 DEF IInv, TempsAreOwned
<1> QED BY <1>1, <1>4, <1>5, <1>7, <1>9, <1>10, <1>11, <1>12, <1>13, <1>14, Stepped DEF Refusals

(* A failed adoption removes whatever the path names by now.               *)
LEMMA AdoptCopyFailsKeeps ==
    ASSUME IInv, NEW g \in Goroutines, AdoptCopyFails(g)
    PROVE  IInv'
<1>1. /\ go[g].at = "adoptCopy" /\ Return(g, "failed") /\ marker' = TRUE /\ blobPath' = NoFile
      /\ promised' = FALSE
      /\ UNCHANGED <<inode, made, cacheName, temps, verdicts, refusals, audited, procOf, up, calls, harm>>
  BY DEF AdoptCopyFails, memory, At
<1>2. PICK new \in Goes : /\ go' = [go EXCEPT ![g] = new] /\ new.at = "done"
                          /\ new.file = NoFile /\ new.answer = "failed"
  BY <1>1, ReturnFacts
<1>3. /\ go' \in [Goroutines -> Goes] /\ go'[g] = new
      /\ \A h \in Goroutines \ {g} : go'[h] = go[h]
  BY <1>2 DEF IInv, TypeOK
<1>4. TypeOK'
  <2>1. blobPath' \in 0..made'
    BY <1>1, Bounds DEF IInv, NoFile
  <2>2. marker' \in BOOLEAN /\ promised' \in BOOLEAN
    BY <1>1
  <2> QED BY <1>1, <1>3, <2>1, <2>2 DEF IInv, TypeOK
<1>5. DiskMoves
  BY <1>1, <1>2, <1>3, Bounds DEF DiskMoves, IInv, At
<1>6. FilesAreOwned' /\ PutMeansHeld'
  <2>1. \A h \in Goroutines : go'[h].at \in Writing => go'[h].file # NoFile
    BY <1>2, <1>3 DEF IInv, FilesAreOwned, Writing, NoFile
  <2> QED BY <1>1, <1>2, <1>3, <2>1 DEF IInv, FilesAreOwned, PutMeansHeld, Writing, At
<1>7. VersionsAreBounded' /\ UntouchedIsWhole' /\ TempsAreOwned'
  BY <1>1, <1>2, <1>3 DEF IInv, VersionsAreBounded, UntouchedIsWhole, TempsAreOwned, At
<1> QED BY <1>1, <1>2, <1>3, <1>4, <1>5, <1>6, <1>7, Stepped DEF Refusals

-----------------------------------------------------------------------------
(* Processes end and start; files are changed from outside.                *)

(* A process is killed: its goroutines and its memory are gone.            *)
LEMMA KillKeeps ==
    ASSUME IInv, NEW p \in Procs, Kill(p)
    PROVE  IInv'
<1>1. /\ p \in up /\ up' = up \ {p}
      /\ go' = [g \in Goroutines |-> IF procOf[g] = p THEN Idle ELSE go[g]]
      /\ verdicts' = [verdicts EXCEPT ![p] = NoVerdict]
      /\ refusals' = [refusals EXCEPT ![p] = FALSE]
      /\ UNCHANGED <<inode, made, blobPath, cacheName, temps, audited, procOf, marker, calls, harm,
                     promised>>
  BY DEF Kill, disk
<1>2. /\ go' \in [Goroutines -> Goes]
      /\ \A g \in Goroutines : go'[g] = go[g] \/ go'[g] = Idle
  BY <1>1, IdleFacts DEF IInv, TypeOK
<1>3. NoVerdict \in Verdicts /\ NoVerdict.file = NoFile
  BY BlobAssumption DEF NoVerdict, Verdicts
<1>4. TypeOK'
  <2>1. verdicts' \in [Procs -> Verdicts]
    BY <1>1, <1>3 DEF IInv, TypeOK
  <2>2. refusals' \in [Procs -> BOOLEAN]
    BY <1>1 DEF IInv, TypeOK
  <2>3. up' \subseteq Procs
    BY <1>1 DEF IInv, TypeOK
  <2> QED BY <1>1, <1>2, <2>1, <2>2, <2>3 DEF IInv, TypeOK
<1>5. DiskMoves
  BY <1>1, <1>2, Bounds, IdleFacts DEF DiskMoves, IInv, At
<1>6. FilesAreOwned' /\ VersionsAreBounded' /\ UntouchedIsWhole' /\ PutMeansHeld'
  BY <1>1, <1>2, IdleFacts
     DEF IInv, FilesAreOwned, VersionsAreBounded, UntouchedIsWhole, PutMeansHeld, Writing, At
<1>7. TempsAreOwned'
  BY <1>1 DEF TempsAreOwned
<1>8. VerdictsAreRight'
  <2>1. \A q \in Procs : verdicts'[q] = verdicts[q] \/ verdicts'[q] = NoVerdict
    BY <1>1 DEF IInv, TypeOK
  <2>2. ASSUME NEW q \in Procs PROVE verdicts'[q] = verdicts[q] \/ VerdictIsRight(verdicts[q])'
    BY <1>3, <2>1 DEF VerdictIsRight
  <2> QED BY <1>5, <2>2, VerdictsKept
<1>9. ReadersAreRight'
  <2> SUFFICES ASSUME NEW g \in Goroutines PROVE Reader(go[g])'
    BY DEF ReadersAreRight
  <2>1. CASE go'[g] = Idle
    BY <2>1, IdleFacts DEF Reader
  <2>2. CASE go'[g] = go[g]
    <3>1. PICK c : c = go[g] /\ go'[g] = c /\ c.ver \in Nat
      BY <2>2 DEF IInv, TypeOK, Goes
    <3>2. Reader(c)
      BY <3>1 DEF IInv, ReadersAreRight
    <3>3. Reader(c)'
      BY <1>5, <3>1, <3>2, Kept DEF Reader
    <3> QED BY <3>1, <3>3 DEF Reader, Seen, Told, At
  <2> QED BY <1>2, <2>1, <2>2
<1> QED BY <1>4, <1>6, <1>7, <1>8, <1>9 DEF IInv

(* A process starts and sweeps; the path or the module cache loses a name. *)
LEMMA NameKeeps ==
    ASSUME IInv, (\E p \in Procs : CleanOrphanedTemps(p)) \/ Remove \/ CleanModcache
    PROVE  IInv'
<1>1. /\ UNCHANGED <<procOf, inode, made, verdicts, refusals, audited, marker, calls, go>>
      /\ temps' = temps \/ temps' = {}
      /\ blobPath' = blobPath \/ (blobPath' = NoFile /\ promised' = FALSE)
      /\ promised' = promised \/ promised' = FALSE
      /\ cacheName' = cacheName \/ cacheName' = FALSE
      /\ harm' = harm \/ (harm < MaxHarm /\ harm' = harm + 1)
      /\ (up' = up /\ temps' = temps) \/ temps' = {}
      /\ up' = up \/ \E p \in Procs : up' = up \cup {p}
  BY DEF CleanOrphanedTemps, Remove, CleanModcache, memory
<1>2. harm \in Nat /\ harm' \in Nat /\ harm' \in 0..MaxHarm /\ harm <= harm' /\ (harm' = 0 => harm = 0)
  BY <1>1, Bounds DEF IInv, TypeOK
<1>3. TypeOK'
  <2>1. cacheName' \in BOOLEAN /\ promised' \in BOOLEAN
    BY <1>1 DEF IInv, TypeOK
  <2>2. blobPath' \in 0..made'
    BY <1>1, Bounds DEF IInv, NoFile
  <2>3. temps' \subseteq 3..made'
    BY <1>1 DEF IInv, TypeOK
  <2>4. up' \subseteq Procs
    BY <1>1 DEF IInv, TypeOK
  <2> QED BY <1>1, <1>2, <2>1, <2>2, <2>3, <2>4 DEF IInv, TypeOK
<1>4. DiskMoves
  BY <1>1, Bounds DEF DiskMoves, IInv, At
<1>5. FilesAreOwned'
  <2>1. \A h \in Goroutines : go[h].at \in Writing => go[h].file # NoFile
    BY DEF IInv, FilesAreOwned, NoFile
  <2> QED BY <1>1, <2>1 DEF IInv, FilesAreOwned, Writing, At
<1>6. VersionsAreBounded'
  <2>1. /\ \A f \in Files : inode[f].ver \in Nat
        /\ \A g \in Goroutines : go[g].at \in Writing => go[g].file \in Files
    BY Bounds DEF IInv, FilesAreOwned
  <2> QED BY <1>1, <1>2, <2>1 DEF IInv, VersionsAreBounded, Writing, At
<1>7. UntouchedIsWhole' /\ PutMeansHeld'
  BY <1>1, <1>2 DEF IInv, UntouchedIsWhole, PutMeansHeld, At
<1>8. TempsAreOwned'
  BY <1>1 DEF IInv, TempsAreOwned
<1> QED BY <1>1, <1>3, <1>4, <1>5, <1>6, <1>7, <1>8, Stepped

(* A named file is changed in place: its version moves.                    *)
LEMMA DamageKeeps ==
    ASSUME IInv, NEW f \in Files, Damage(f)
    PROVE  IInv'
<1>1. /\ harm < MaxHarm /\ harm' = harm + 1
      /\ f = blobPath \/ f = 1 \/ f = 2
      /\ inode' = [inode EXCEPT ![f] = [bytes |-> "bad", ver |-> inode[f].ver + 1]]
      /\ UNCHANGED <<procOf, made, blobPath, cacheName, temps, verdicts, refusals, audited, up, marker,
                     calls, go, promised>>
  BY DEF Damage, memory, CacheFile, LegacyFile
<1>2. harm \in Nat /\ harm' \in Nat /\ harm' \in 0..MaxHarm /\ harm' # 0 /\ MaxHarm \in Nat /\ made \in Nat
  BY <1>1, Bounds DEF IInv, TypeOK
<1>3. inode[f].ver \in Nat /\ inode[f].ver <= harm + 1 /\ f <= made
  BY <1>1, Bounds DEF IInv, VersionsAreBounded
<1>4. /\ inode' \in [Files -> [bytes : {"good", "bad"}, ver : 0..(MaxHarm + 1)]]
      /\ inode'[f].ver = inode[f].ver + 1
      /\ \A x \in Files \ {f} : inode'[x] = inode[x]
  BY <1>1, <1>2, <1>3 DEF IInv, TypeOK
<1>5. TypeOK'
  BY <1>1, <1>2, <1>4 DEF IInv, TypeOK
<1>6. DiskMoves
  <2>1. \A x \in 1..made : x \in Files /\ inode[x].ver \in Nat
    BY Bounds DEF IInv
  <2> QED BY <1>1, <1>2, <1>3, <1>4, <2>1 DEF DiskMoves, At
<1>7. FilesAreOwned' /\ TempsAreOwned'
  BY <1>1 DEF IInv, FilesAreOwned, TempsAreOwned, At
<1>8. VersionsAreBounded'
  <2>1. /\ \A x \in Files : inode[x].ver \in Nat
        /\ \A g \in Goroutines : go[g].at \in Writing => go[g].file \in Files
        /\ \A x \in Files : x > made => x # f
    BY <1>2, <1>3, Bounds DEF IInv, FilesAreOwned
  <2>2. \A x \in Files : inode'[x].ver <= inode[x].ver + 1
    BY <1>4, <2>1
  <2>3. \A x \in Files : inode'[x].ver \in Nat
    BY <1>3, <1>4, <2>1
  <2>4. \A x \in Files : inode'[x].ver <= harm' + 1
    BY <1>1, <1>2, <1>3, <1>4, <2>1, <2>3 DEF IInv, VersionsAreBounded
  <2>5. \A g \in Goroutines : go[g].at = "adoptCopy" => inode'[go[g].file].ver <= harm'
    BY <1>1, <1>2, <2>1, <2>2, <2>3 DEF IInv, VersionsAreBounded, At, Writing
  <2> QED BY <1>1, <1>4, <2>1, <2>4, <2>5 DEF IInv, VersionsAreBounded, At
<1>9. UntouchedIsWhole' /\ PutMeansHeld'
  BY <1>1, <1>2 DEF IInv, UntouchedIsWhole, PutMeansHeld
<1> QED BY <1>1, <1>5, <1>6, <1>7, <1>8, <1>9, Stepped

-----------------------------------------------------------------------------
(* The invariant.                                                          *)

(* It holds at the start.                                                  *)
LEMMA IInvInit == Init => IInv
<1> SUFFICES ASSUME Init PROVE IInv
  OBVIOUS
<1>1. NoVerdict \in Verdicts /\ NoVerdict.file = NoFile
  BY BlobAssumption DEF NoVerdict, Verdicts
<1>2. /\ \A g \in Goroutines : go[g] = Idle
      /\ \A p \in Procs : verdicts[p] = NoVerdict
      /\ \A f \in Files : inode[f].bytes = "good" /\ inode[f].ver = 0
      /\ harm = 0 /\ temps = {} /\ promised = FALSE /\ 1 \in Files /\ 2 \in Files
  BY BlobAssumption DEF Init, Files
<1>3. TypeOK
  <2>1. inode \in [Files -> [bytes : {"good", "bad"}, ver : 0..(MaxHarm + 1)]]
    BY BlobAssumption DEF Init
  <2>2. made \in 2..MaxFiles /\ blobPath \in 0..made /\ harm \in 0..MaxHarm /\ calls \in 0..MaxCalls
    BY BlobAssumption DEF Init, NoFile
  <2>3. go \in [Goroutines -> Goes] /\ verdicts \in [Procs -> Verdicts] /\ refusals \in [Procs -> BOOLEAN]
    BY <1>1, IdleFacts DEF Init
  <2> QED BY <2>1, <2>2, <2>3 DEF Init, TypeOK
<1>4. FilesAreOwned /\ VersionsAreBounded /\ UntouchedIsWhole
  BY <1>2, IdleFacts
     DEF FilesAreOwned, VersionsAreBounded, UntouchedIsWhole, Writing, At, CacheFile, LegacyFile
<1>5. ReadersAreRight /\ VerdictsAreRight
  BY <1>1, <1>2, IdleFacts DEF ReadersAreRight, Reader, VerdictsAreRight, VerdictIsRight
<1>6. PutMeansHeld /\ TempsAreOwned
  BY <1>2 DEF PutMeansHeld, TempsAreOwned
<1> QED BY <1>3, <1>4, <1>5, <1>6 DEF IInv

(* Every step keeps it.                                                    *)
LEMMA IInvStep == IInv /\ [Next]_vars => IInv'
<1> SUFFICES ASSUME IInv, [Next]_vars PROVE IInv'
  OBVIOUS
<1>1. ASSUME NEW g \in Goroutines, Call(g) \/ Verify(g) \/ Write(g) \/ Adopt(g) PROVE IInv'
  BY <1>1, CallKeeps, QuietKeeps, OpenKeeps, HashKeeps, StoreKeeps, ForgetKeeps, LinkKeeps,
     CreateKeeps, CopyKeeps, CopyFailsKeeps, RenameKeeps, AdoptCopyKeeps, AdoptCopyFailsKeeps
     DEF Verify, Write, Adopt
<1>2. CASE UNCHANGED vars
  <2>1. /\ TypeOK' /\ FilesAreOwned' /\ VersionsAreBounded' /\ UntouchedIsWhole'
        /\ PutMeansHeld' /\ TempsAreOwned'
    BY <1>2 DEF IInv, TypeOK, FilesAreOwned, VersionsAreBounded, UntouchedIsWhole, PutMeansHeld,
       TempsAreOwned, vars, At
  <2>2. DiskMoves
    BY <1>2, Bounds DEF DiskMoves, IInv, vars, At
  <2> QED BY <1>2, <2>1, <2>2, Stepped DEF vars
<1> QED BY <1>1, <1>2, KillKeeps, NameKeeps, DamageKeeps DEF Next

(* The invariant holds in every run.                                       *)
THEOREM Invariance == Spec => []IInv
  BY IInvInit, IInvStep, PTL DEF Spec

-----------------------------------------------------------------------------
(* The properties.                                                         *)

(* Whoever replaced, half-wrote or damaged the held file and whatever      *)
(* verdict was cached, a read vouches only for intact bytes, refuses only  *)
(* altered ones, and refuses none silently (verify, forget, recordTamper). *)
THEOREM TrueVerdicts == Spec => []VerdictsAreTrue
<1>1. IInv => VerdictsAreTrue
  <2> SUFFICES ASSUME IInv, NEW g \in Goroutines, At(g, "done")
               PROVE  /\ go[g].answer = "ok" /\ Unmoved(g) => inode[go[g].file].bytes = "good"
                      /\ go[g].answer \in Refusals /\ Unmoved(g) => inode[go[g].file].bytes = "bad"
                      /\ go[g].answer = "refused" => <<go[g].file, go[g].ver>> \in audited
    BY DEF VerdictsAreTrue, ReadsAreIntact, RefusalsAreTrue, RefusalsAreAudited, IInv
  <2>1. \/ go[g].file = NoFile /\ go[g].answer \notin Refusals
        \/ Told(go[g].file, go[g].ver, go[g].answer)
    BY DEF IInv, ReadersAreRight, Reader, At
  <2> QED BY <2>1 DEF Told, Unmoved, Refusals
<1> QED BY <1>1, Invariance, PTL

(* A Put that succeeded is held until someone outside, or a failed         *)
(* adoption, removes it, and without outside damage what is held is whole. *)
THEOREM PutIsHeld == Spec => []PutMeansHeld
<1>1. IInv => PutMeansHeld
  BY DEF IInv
<1> QED BY <1>1, Invariance, PTL

(* No failure path and no killed process leaves a temp file behind the     *)
(* next open of the store (CopyFails, CleanOrphanedTemps).                 *)
THEOREM TempsOwned == Spec => []TempsAreOwned
<1>1. IInv => TempsAreOwned
  BY DEF IInv
<1> QED BY <1>1, Invariance, PTL
==============================================================================
