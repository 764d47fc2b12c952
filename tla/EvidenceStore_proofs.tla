------------------------- MODULE EvidenceStore_proofs -------------------------
(***************************************************************************)
(* Proofs about EvidenceStore, for any number of runs, process ids,        *)
(* contents, attempts and leftovers, with kills and power losses.          *)
(***************************************************************************)
EXTENDS EvidenceStore, TLAPS

-----------------------------------------------------------------------------
(* The inductive invariant.                                                *)

BlobSteps == {"look", "link", "recheck", "compare", "remove"}
JsonSteps == {"write", "sync", "publish", "cleanup", "discard"}
Json == {"receipt", "out"}

\* r has made its temporary file for k and has not removed it.
Held(r, k) ==
  \/ k = "stdout" /\ pc[r] = "create" /\ kind[r] = "stderr"
  \/ k \in Logs /\ pc[r] = "capture"
  \/ k = "stdout" /\ pc[r] \in BlobSteps /\ kind[r] = "stdout"
  \/ k = "stderr" /\ pc[r] \in BlobSteps
  \/ k = kind[r] /\ pc[r] \in JsonSteps

\* r writes no more to its file for k.
Settled(r, k) ==
  \/ k \in Logs /\ digest[r][k] # Empty
  \/ k = "receipt" /\ (kind[r] = "out" \/ (kind[r] = "receipt" /\ pc[r] \in {"cleanup", "ended"}))
  \/ k = "out" /\ kind[r] = "out" /\ pc[r] \in {"cleanup", "ended"}

\* Where r is and what it has agree.
Place(r) ==
  /\ pc[r] = "idle" => kind[r] = "stdout"
  /\ pc[r] \in {"capture", "build"} => kind[r] = "stderr"
  /\ pc[r] \in BlobSteps => kind[r] \in Logs
  /\ pc[r] = "exists" => kind[r] = "receipt"
  /\ pc[r] \in JsonSteps \cup {"preflight"} => kind[r] \in Json
  /\ pc[r] = "idle" => \A k \in Kinds : temporary[r][k] = NoName
  /\ pc[r] \in BlobSteps => \A s \in Logs : digest[r][s] # Empty
  /\ pc[r] = "build" \/ kind[r] \in Json => digest[r] \in References
  /\ kind[r] \in Json => document[r] \in Documents /\ document[r].logs = digest[r]
  /\ pc[r] # "ended" => result[r] = "none"
InvPlace == \A r \in Runs : Place(r)

\* The names r has tried are counted: a file takes at most MaxAttempts.
Count(r) ==
  /\ pc[r] \notin {"create", "ended"} => tries[r] = 0
  /\ kind[r] \in Logs => sequence[r].json = 0
  /\ pc[r] \in {"idle", "create"} /\ kind[r] = "stdout" => sequence[r].log <= tries[r]
  /\ pc[r] = "create" /\ kind[r] = "stderr" => sequence[r].log <= MaxAttempts + tries[r]
  /\ pc[r] \in {"exists", "preflight", "create"} /\ kind[r] = "receipt" =>
       sequence[r].json <= tries[r]
  /\ kind[r] = "receipt" => sequence[r].json <= MaxAttempts
  /\ pc[r] \in {"preflight", "create"} /\ kind[r] = "out" =>
       sequence[r].json <= MaxAttempts + tries[r]
InvCount == \A r \in Runs : Count(r)

\* A temporary name that is held is bound to the file it was made for.
InvHeld ==
  \A r \in Runs : \A k \in Kinds : Held(r, k) =>
    /\ temporary[r][k] \in Temporaries
    /\ open[r][k] = File(r, k)
    /\ entry[temporary[r][k]] = File(r, k)

\* What has been hashed, written or synced is in the files, and a log nobody
\* hashed is empty, unless its run failed.
Datum(r) ==
  /\ \A s \in Logs : digest[r][s] # Empty =>
       data[File(r, s)] = digest[r][s] /\ File(r, s) \in synced
  /\ pc[r] # "ended" \/ kind[r] \in Json =>
       \A s \in Logs : digest[r][s] = Empty => data[File(r, s)] = Empty
  /\ pc[r] \in {"sync", "publish", "cleanup"} => data[File(r, kind[r])] = document[r]
  /\ pc[r] \in {"publish", "cleanup"} => File(r, kind[r]) \in synced
InvData == (\A n \in Existing : OldFile(n) \in synced) /\ \A r \in Runs : Datum(r)

\* A final name bound to a run's file is bound to something settled that fits.
InvLinked ==
  \A n \in FinalNames : \A r \in Runs : \A k \in Kinds : entry[n] = File(r, k) =>
    Settled(r, k) /\ <<n, data[File(r, k)]>> \in Fits /\ File(r, k) \in synced

HasBlob(r, s) == BoundTo(BlobName(digest[r][s].content), digest[r][s])

\* The blobs r goes on from are there.
Blobs(r) ==
  /\ pc[r] = "compare" => entry[Target(r)] # NoFile
  /\ pc[r] = "remove" => HasBlob(r, kind[r])
  /\ pc[r] \in BlobSteps /\ kind[r] = "stderr" => HasBlob(r, "stdout")
  /\ Active(r) /\ (pc[r] = "build" \/ kind[r] \in Json) =>
       \A s \in Logs : digest[r][s] # Empty => HasBlob(r, s)
InvBlobs == \A r \in Runs : Blobs(r)

\* The receipt is there once r goes on from it or has reported it, and so is
\* the copy.
HasReceipt(r) == BoundTo(ReceiptName(document[r]), document[r])
HasCopy(r) == entry[OutName] = File(r, "out") /\ data[File(r, "out")] = document[r]
Kept(r) ==
  /\ \/ kind[r] = "receipt" /\ pc[r] = "cleanup"
     \/ kind[r] = "out" /\ Active(r)
     \/ ~lost /\ result[r] \in {"stored", "recovery"}
     => HasReceipt(r)
  /\ \/ kind[r] = "out" /\ pc[r] = "cleanup"
     \/ ~lost /\ result[r] = "stored" /\ r \in Publishers
     => HasCopy(r)
  /\ result[r] \in {"stored", "recovery"} => kind[r] \in Json
InvStored == \A r \in Runs : Kept(r)

\* r's command could not be spawned, and r goes on or went on.
Unspawned(r) == digest[r] = NoLogs /\ (pc[r] = "build" \/ kind[r] \in Json)

\* A temporary log is one that is held, was when the run failed, was not removed
\* after a failed spawn, or is back after a power loss.
Left(r, s) ==
  \/ Held(r, s)
  \/ Unspawned(r)
  \/ result[r] \in {"error", "killed"}
  \/ lost /\ pc[r] = "ended"
InvTemporary ==
  \A n \in LogTemporaries : \A r \in Runs : \A s \in Logs : entry[n] = File(r, s) =>
    n = temporary[r][s] /\ Left(r, s)

IInv ==
  /\ TypeOK /\ InvPlace /\ InvCount /\ InvHeld /\ InvData /\ InvLinked
  /\ InvBlobs /\ InvStored /\ InvTemporary /\ ReceiptsHaveLogs

-----------------------------------------------------------------------------
(* Names, files and contents.                                              *)

LEMMA FileFacts ==
  /\ \A r, q \in Runs : \A k, j \in Kinds : File(r, k) = File(q, j) => r = q /\ k = j
  /\ \A r \in Runs : \A k \in Kinds : File(r, k) # NoFile /\ File(r, k) \in Files
  /\ \A n \in Existing : OldFile(n) # NoFile /\ OldFile(n) \in Files
  /\ \A n \in Existing : \A r \in Runs : \A k \in Kinds : OldFile(n) # File(r, k)
  /\ \A f \in Files : (\E r \in Runs : \E k \in Kinds : f = File(r, k))
                        \/ (\E n \in Existing : f = OldFile(n))
  BY DEF File, OldFile, NoFile, Files, Kinds, Logs

LEMMA ContentFacts ==
  /\ \A c \in Contents : Log(c) # Empty /\ Log(c).content = c /\ Log(c) \in Data
  /\ \A d \in Documents : d # Empty /\ d \in Data /\ d.logs \in References
  /\ Empty \in Data /\ Partial \in Data /\ Damaged \in Data
<1>1. ASSUME NEW c \in Contents PROVE Log(c) # Empty /\ Log(c).content = c /\ Log(c) \in Data
  <2>1. Log(c).is = "log" /\ Empty.is = "empty"
    BY DEF Log, Empty
  <2> QED
    BY <2>1 DEF Log, Data
<1>2. ASSUME NEW d \in Documents
      PROVE d # Empty /\ d \in Data /\ d.logs \in References
  <2>1. d.is = "receipt" /\ Empty.is = "empty"
    BY DEF Documents, Empty
  <2> QED
    BY <2>1 DEF Documents, Data
<1>3. Empty \in Data /\ Partial \in Data /\ Damaged \in Data
  BY DEF Data
<1> QED
  BY <1>1, <1>2, <1>3

LEMMA ReferenceFacts ==
  /\ \A g \in References : \A s \in Logs : g[s] # Empty =>
       \E c \in Contents : g[s] = Log(c) /\ g[s].content = c
  /\ NoLogs \in References /\ \A s \in Logs : NoLogs[s] = Empty
  /\ \A g \in [Logs -> {Log(c) : c \in Contents} \cup {Empty}] :
       (\A s \in Logs : g[s] # Empty) => g \in References
<1>1. ASSUME NEW g \in References, NEW s \in Logs, g[s] # Empty
      PROVE  \E c \in Contents : g[s] = Log(c) /\ g[s].content = c
  <2>1. g \in [Logs -> {Log(c) : c \in Contents}]
    BY <1>1 DEF References, NoLogs
  <2>2. PICK c \in Contents : g[s] = Log(c)
    BY <2>1
  <2> QED
    BY <2>2, ContentFacts
<1>2. NoLogs \in References /\ \A s \in Logs : NoLogs[s] = Empty
  BY DEF References, NoLogs
<1>3. ASSUME NEW g \in [Logs -> {Log(c) : c \in Contents} \cup {Empty}], \A s \in Logs : g[s] # Empty
      PROVE  g \in References
  <2>1. \A s \in Logs : g[s] \in {Log(c) : c \in Contents}
    BY <1>3
  <2>2. g = [s \in Logs |-> g[s]]
    OBVIOUS
  <2>3. g \in [Logs -> {Log(c) : c \in Contents}]
    BY <2>1, <2>2
  <2> QED
    BY <2>3 DEF References
<1> QED
  BY <1>1, <1>2, <1>3

LEMMA NameFacts ==
  /\ \A c \in Contents : BlobName(c) \in FinalNames /\ BlobName(c) \notin JsonTargets
  /\ \A d \in Documents : ReceiptName(d) \in FinalNames /\ ReceiptName(d) \in JsonTargets
  /\ OutName \in FinalNames /\ OutName \in JsonTargets
  /\ FinalNames \subseteq Names /\ Temporaries \subseteq Names
  /\ FinalNames \cap Temporaries = {}
  /\ \A n \in Names : n # NoName
<1>1. /\ \A c \in Contents : BlobName(c) \in FinalNames
      /\ \A d \in Documents : ReceiptName(d) \in FinalNames /\ ReceiptName(d) \in JsonTargets
      /\ OutName \in FinalNames /\ OutName \in JsonTargets
      /\ FinalNames \subseteq Names /\ Temporaries \subseteq Names
  BY DEF FinalNames, JsonTargets, Names
<1>2. \A c \in Contents : BlobName(c) \notin JsonTargets
  BY DEF BlobName, JsonTargets, ReceiptName, OutName
<1>3. \A n \in Temporaries : n[1] \in {"tmp", "json"}
  BY DEF Temporaries, LogTemporaries, JsonTemporaries
<1>4. \A n \in FinalNames : n[1] \in {"blob", "receipt", "out"}
  BY DEF FinalNames, JsonTargets, BlobName, ReceiptName, OutName
<1>5. FinalNames \cap Temporaries = {}
  BY <1>3, <1>4
<1>6. \A n \in Names : n # NoName
  BY <1>3, <1>4 DEF Names, NoName
<1> QED
  BY <1>1, <1>2, <1>5, <1>6

LEMMA FitFacts ==
  /\ \A c \in Contents : <<BlobName(c), Log(c)>> \in Fits
  /\ \A d \in Documents : <<ReceiptName(d), d>> \in Fits /\ <<OutName, d>> \in Fits
  /\ \A n \in JsonTargets : \A x : <<n, x>> \in Fits => x \in Documents
<1>1. /\ \A c \in Contents : <<BlobName(c), Log(c)>> \in Fits
      /\ \A d \in Documents : <<ReceiptName(d), d>> \in Fits /\ <<OutName, d>> \in Fits
  BY DEF Fits
<1>2. ASSUME NEW n \in JsonTargets, NEW x, <<n, x>> \in Fits PROVE x \in Documents
  <2>1. CASE \E c \in Contents : <<n, x>> = <<BlobName(c), Log(c)>>
    BY <2>1, <1>2, NameFacts
  <2>2. CASE \E d \in Documents : <<n, x>> = <<ReceiptName(d), d>> \/ <<n, x>> = <<OutName, d>>
    BY <2>2
  <2> QED
    BY <1>2, <2>1, <2>2 DEF Fits
<1> QED
  BY <1>1, <1>2

-----------------------------------------------------------------------------
(* What a step leaves alone.                                               *)

\* The steps of a run and what is done to it.
Moved(r) == Run(r) \/ Kill(r)

LEMMA MovedFacts ==
  ASSUME NEW r \in Runs, Moved(r)
  PROVE  pc[r] # "ended" /\ lost' = lost
  BY DEF Moved, Run, Active, disk, memory, Start, Create, CreateAgain, CreateFails, CaptureLog,
     CaptureFails, SpawnFails, Look, LinkBlob, Recheck, Compare, RemoveLog, Build, Exists, Preflight,
     WriteJson, SyncJson, PublishJson, Cleanup, Discard, Kill

\* A name that is bound before the link is bound by create_new.
LEMMA CreatedBy ==
  ASSUME TypeOK, NEW r \in Runs, Moved(r), pc[r] = "create",
         NEW n \in Names, entry'[n] # entry[n], entry'[n] # NoFile
  PROVE  Create(r)
<1>1. ~CreateFails(r)
  BY DEF CreateFails, TypeOK
<1> QED
  BY <1>1 DEF Moved, Run, disk, Start, CreateAgain, CaptureLog, CaptureFails, SpawnFails, Look, LinkBlob,
     Recheck, Compare, RemoveLog, Build, Exists, Preflight, WriteJson, SyncJson, PublishJson, Cleanup, Discard,
     Kill

\* The other runs stay as they are.
LEMMA OthersStay ==
  ASSUME TypeOK, NEW r \in Runs, Moved(r), NEW q \in Runs, q # r
  PROVE  /\ pc'[q] = pc[q] /\ kind'[q] = kind[q] /\ result'[q] = result[q]
         /\ sequence'[q] = sequence[q] /\ tries'[q] = tries[q]
         /\ temporary'[q] = temporary[q] /\ open'[q] = open[q]
         /\ digest'[q] = digest[q] /\ document'[q] = document[q]
         /\ lost' = lost /\ pid' = pid
<1> USE DEF TypeOK, Go, Turn, End, Fail, CountUp, AfterReceipt, memory, disk
<1>1. CASE Start(r)
  BY <1>1 DEF Start
<1>2. CASE Create(r)
  BY <1>2 DEF Create
<1>3. CASE CreateAgain(r)
  BY <1>3 DEF CreateAgain
<1>4. CASE CreateFails(r)
  BY <1>4 DEF CreateFails
<1>5. CASE \E s \in Logs : CaptureLog(r, s)
  BY <1>5 DEF CaptureLog
<1>6. CASE CaptureFails(r)
  BY <1>6 DEF CaptureFails
<1>7. CASE Look(r)
  BY <1>7 DEF Look
<1>8. CASE LinkBlob(r)
  BY <1>8 DEF LinkBlob
<1>9. CASE Recheck(r)
  BY <1>9 DEF Recheck
<1>10. CASE Compare(r)
  BY <1>10 DEF Compare
<1>11. CASE RemoveLog(r)
  BY <1>11 DEF RemoveLog
<1>12. CASE Build(r)
  BY <1>12 DEF Build
<1>13. CASE Exists(r)
  BY <1>13 DEF Exists
<1>14. CASE Preflight(r)
  BY <1>14 DEF Preflight
<1>15. CASE WriteJson(r)
  BY <1>15 DEF WriteJson
<1>16. CASE SyncJson(r)
  BY <1>16 DEF SyncJson
<1>17. CASE PublishJson(r)
  BY <1>17 DEF PublishJson
<1>18. CASE Cleanup(r)
  BY <1>18 DEF Cleanup
<1>19. CASE Discard(r)
  BY <1>19 DEF Discard
<1>20. CASE Kill(r)
  BY <1>20 DEF Kill
<1>21. CASE SpawnFails(r)
  BY <1>21 DEF SpawnFails
<1> QED
  BY <1>21, <1>1, <1>2, <1>3, <1>4, <1>5, <1>6, <1>7, <1>8, <1>9, <1>10, <1>11, <1>12, <1>13, <1>14, <1>15, <1>16, <1>17, <1>18, <1>19, <1>20 DEF Moved, Run

\* The names and targets a run uses.
LEMMA TargetIn ==
  ASSUME TypeOK, InvPlace, NEW r \in Runs
  PROVE  /\ kind[r] \in Json => Target(r) \in JsonTargets /\ Target(r) \in FinalNames
         /\ \A s \in Logs : digest[r][s] # Empty =>
              \E c \in Contents : digest[r][s] = Log(c) /\ digest[r][s].content = c
         /\ kind[r] \in Logs /\ digest[r][kind[r]] # Empty =>
              /\ Target(r) = BlobName(digest[r][kind[r]].content)
              /\ Target(r) \in FinalNames /\ Target(r) \notin JsonTargets
              /\ <<Target(r), digest[r][kind[r]]>> \in Fits
         /\ kind[r] \in Json => <<Target(r), document[r]>> \in Fits
<1>1. kind[r] \in Json => /\ Target(r) \in JsonTargets /\ Target(r) \in FinalNames
                          /\ <<Target(r), document[r]>> \in Fits
  BY NameFacts, FitFacts DEF InvPlace, Place, Target, Json, Logs
<1>2. ASSUME NEW s \in Logs, digest[r][s] # Empty
      PROVE  \E c \in Contents : digest[r][s] = Log(c) /\ digest[r][s].content = c
  <2>1. digest[r][s] \in {Log(c) : c \in Contents}
    BY <1>2 DEF TypeOK
  <2>2. PICK c \in Contents : digest[r][s] = Log(c)
    BY <2>1
  <2> QED
    BY <2>2, ContentFacts
<1>3. ASSUME kind[r] \in Logs, digest[r][kind[r]] # Empty
      PROVE  /\ Target(r) = BlobName(digest[r][kind[r]].content)
             /\ Target(r) \in FinalNames /\ Target(r) \notin JsonTargets
             /\ <<Target(r), digest[r][kind[r]]>> \in Fits
  <2>1. PICK c \in Contents : digest[r][kind[r]] = Log(c) /\ digest[r][kind[r]].content = c
    BY <1>2, <1>3
  <2>2. Target(r) = BlobName(c)
    BY <1>3, <2>1 DEF Target
  <2> QED
    BY <2>1, <2>2, NameFacts, FitFacts
<1> QED
  BY <1>1, <1>2, <1>3

LEMMA TemporaryIn ==
  ASSUME TypeOK, InvPlace, InvCount, NEW r \in Runs, pc[r] = "create"
  PROVE  /\ TemporaryName(r) \in Temporaries
         /\ kind[r] \in Logs => TemporaryName(r) \in LogTemporaries
         /\ kind[r] \in Json => TemporaryName(r) \notin LogTemporaries
<1>1. sequence[r].log \in Sequence /\ sequence[r].json \in Sequence /\ pid[r] \in Pids
  BY DEF TypeOK
<1>2. CASE kind[r] \in Logs
  <2>1. TemporaryName(r) = <<"tmp", pid[r], sequence[r].log, kind[r]>>
    BY <1>2 DEF TemporaryName
  <2> QED
    BY <1>1, <1>2, <2>1 DEF LogTemporaries, Temporaries, Json, Logs
<1>3. CASE kind[r] \in Json
  <2>1. TemporaryName(r) = <<"json", Target(r), pid[r], sequence[r].json>>
    BY <1>3 DEF TemporaryName, Json, Logs
  <2>2. TemporaryName(r) \in JsonTemporaries
    <3>1. PICK t \in JsonTargets : t = Target(r)
      BY <1>3, TargetIn
    <3>2. TemporaryName(r) = <<"json", t, pid[r], sequence[r].json>>
      BY <2>1, <3>1
    <3> QED
      BY <1>1, <3>2 DEF JsonTemporaries
  <2>3. TemporaryName(r) \notin LogTemporaries
    BY <2>1 DEF LogTemporaries
  <2> QED
    BY <1>3, <2>2, <2>3 DEF Temporaries, Json, Logs
<1> QED
  BY <1>2, <1>3 DEF TypeOK, Kinds, Json

\* What a step does to names and files.
Bound(r, n) ==
  \/ /\ pc[r] = "create" /\ n = TemporaryName(r)
     /\ entry[n] = NoFile /\ entry'[n] = File(r, kind[r])
  \/ \E k \in Kinds : Held(r, k) /\ n = temporary[r][k] /\ entry'[n] = NoFile
  \/ /\ pc[r] \in {"link", "publish"} /\ n = Target(r)
     /\ entry[n] = NoFile /\ entry'[n] = File(r, kind[r])
Written(r, f) == \E k \in Kinds : f = File(r, k) /\ ~Settled(r, k) /\ Held(r, k)

DiskChange(r) ==
  /\ \A n \in Names : entry'[n] = entry[n] \/ Bound(r, n)
  /\ \A f \in Files : data'[f] = data[f] \/ Written(r, f)
  /\ synced \subseteq synced'

LEMMA DiskStep ==
  ASSUME TypeOK, InvPlace, InvHeld, NEW r \in Runs, Moved(r)
  PROVE  DiskChange(r)
<1> USE DEF DiskChange
<1>a. /\ entry \in [Names -> Files \cup {NoFile}] /\ data \in [Files -> Data]
      /\ kind[r] \in Kinds /\ Logs \subseteq Kinds
  BY DEF TypeOK, Kinds
<1>1. CASE UNCHANGED disk
  BY <1>1 DEF disk
<1>2. CASE \/ Start(r) \/ CreateAgain(r) \/ Look(r) \/ Recheck(r) \/ Compare(r) \/ Build(r)
           \/ Exists(r) \/ Preflight(r) \/ Kill(r)
  BY <1>1, <1>2 DEF Start, CreateAgain, Look, Recheck, Compare, Build, Exists, Preflight, Kill
<1>3. CASE Create(r)
  BY <1>a, <1>3 DEF Create, Bind, Bound
<1>4. CASE CreateFails(r)
  <2>1. kind[r] = "stderr" => Held(r, "stdout") /\ "stdout" \in Kinds
    BY <1>4 DEF CreateFails, Held, Kinds, Logs
  <2> QED
    BY <1>a, <1>4, <2>1 DEF CreateFails, Bound
<1>5. CASE \E s \in Logs : CaptureLog(r, s)
  <2>1. PICK s \in Logs : CaptureLog(r, s)
    BY <1>5
  <2>2. s \in Kinds /\ Held(r, s) /\ ~Settled(r, s)
    BY <1>a, <2>1 DEF CaptureLog, Held, Settled, Logs
  <2>3. open[r][s] = File(r, s)
    BY <2>2 DEF InvHeld
  <2> QED
    BY <1>a, <2>1, <2>2, <2>3 DEF CaptureLog, Written
<1>6. CASE CaptureFails(r)
  <2>1. PICK s \in Logs : digest[r][s] = Empty /\ data' = [data EXCEPT ![open[r][s]] = Partial]
    BY <1>6 DEF CaptureFails
  <2>2. s \in Kinds /\ Held(r, s) /\ ~Settled(r, s)
    BY <1>a, <1>6, <2>1 DEF CaptureFails, Held, Settled, Logs
  <2>3. open[r][s] = File(r, s)
    BY <2>2 DEF InvHeld
  <2> QED
    BY <1>a, <1>6, <2>1, <2>2, <2>3 DEF CaptureFails, Written
<1>7. CASE LinkBlob(r)
  <2>1. Held(r, kind[r])
    BY <1>7 DEF LinkBlob, Held, BlobSteps, InvPlace, Place, Logs
  <2>2. entry[temporary[r][kind[r]]] = File(r, kind[r])
    BY <1>a, <2>1 DEF InvHeld
  <2> QED
    BY <1>a, <1>7, <2>2 DEF LinkBlob, Bind, Bound
<1>8. CASE RemoveLog(r)
  <2>1. Held(r, kind[r])
    BY <1>8 DEF RemoveLog, Held, BlobSteps, InvPlace, Place, Logs
  <2> QED
    BY <1>a, <1>8, <2>1 DEF RemoveLog, RemoveTemporary, Bind, Bound
<1>9. CASE WriteJson(r)
  <2>1. Held(r, kind[r]) /\ ~Settled(r, kind[r])
    BY <1>9 DEF WriteJson, Held, JsonSteps, Settled, InvPlace, Place, Json, Logs
  <2>2. open[r][kind[r]] = File(r, kind[r])
    BY <1>a, <2>1 DEF InvHeld
  <2> QED
    BY <1>a, <1>9, <2>1, <2>2 DEF WriteJson, Written
<1>10. CASE SyncJson(r)
  BY <1>10 DEF SyncJson
<1>11. CASE PublishJson(r)
  <2>1. Held(r, kind[r])
    BY <1>11 DEF PublishJson, Held, JsonSteps
  <2>2. entry[temporary[r][kind[r]]] = File(r, kind[r])
    BY <1>a, <2>1 DEF InvHeld
  <2> QED
    BY <1>a, <1>11, <2>2 DEF PublishJson, Bind, Bound
<1>12. CASE Cleanup(r) \/ Discard(r)
  <2>1. Held(r, kind[r])
    BY <1>12 DEF Cleanup, Discard, Held, JsonSteps
  <2> QED
    BY <1>a, <1>12, <2>1 DEF Cleanup, Discard, RemoveTemporary, Bind, Bound
<1>13. CASE SpawnFails(r)
  <2>1. pc[r] = "capture" /\ data' = data /\ synced' = synced
    BY <1>13 DEF SpawnFails
  <2>2. PICK removed \in SUBSET Logs :
          entry' = [n \in Names |-> IF \E s \in removed : n = temporary[r][s] THEN NoFile
                                   ELSE entry[n]]
    BY <1>13 DEF SpawnFails
  <2>3. ASSUME NEW n \in Names, entry'[n] # entry[n] PROVE Bound(r, n)
    <3>1. PICK s \in removed : n = temporary[r][s] /\ entry'[n] = NoFile
      BY <2>2, <2>3
    <3>2. s \in Kinds /\ Held(r, s)
      BY <1>a, <2>1 DEF Held
    <3> QED
      BY <3>1, <3>2 DEF Bound
  <2> QED
    BY <2>1, <2>3
<1> QED
  BY <1>2, <1>3, <1>4, <1>5, <1>6, <1>7, <1>8, <1>9, <1>10, <1>11, <1>12, <1>13 DEF Moved, Run

\* Consequences for what is there already: a bound final name stays bound to the
\* same file, and what is in the file stays too.
FinalsStay ==
  \A n \in FinalNames : entry[n] # NoFile =>
    entry'[n] = entry[n] /\ data'[entry[n]] = data[entry[n]]

LEMMA FinalStep ==
  ASSUME TypeOK, InvPlace, InvCount, InvHeld, InvLinked, NEW r \in Runs, Moved(r)
  PROVE  FinalsStay
<1> SUFFICES ASSUME NEW n \in FinalNames, entry[n] # NoFile
             PROVE  entry'[n] = entry[n] /\ data'[entry[n]] = data[entry[n]]
  BY DEF FinalsStay
<1>1. n \in Names /\ n \notin Temporaries
  BY NameFacts
<1>2. ~Bound(r, n)
  <2>1. ~(pc[r] = "create" /\ n = TemporaryName(r))
    BY <1>1, TemporaryIn
  <2>2. ~\E k \in Kinds : Held(r, k) /\ n = temporary[r][k]
    BY <1>1 DEF InvHeld
  <2> QED
    BY <2>1, <2>2 DEF Bound
<1>3. entry'[n] = entry[n]
  BY <1>1, <1>2, DiskStep DEF DiskChange
<1>4. entry[n] \in Files
  BY <1>1 DEF TypeOK
<1>5. ~Written(r, entry[n])
  BY DEF Written, InvLinked
<1> QED
  BY <1>3, <1>4, <1>5, DiskStep DEF DiskChange

LEMMA HeldStep ==
  ASSUME TypeOK, InvPlace, InvCount, InvHeld, NEW r \in Runs, Moved(r),
         NEW q \in Runs, q # r, NEW k \in Kinds, Held(q, k)
  PROVE  entry'[temporary[q][k]] = File(q, k)
<1> DEFINE n == temporary[q][k]
<1>1. n \in Temporaries /\ n \in Names /\ n \notin FinalNames /\ entry[n] = File(q, k)
  BY NameFacts DEF InvHeld
<1>2. entry[n] # NoFile
  BY <1>1, FileFacts
<1>3. ~\E j \in Kinds : Held(r, j) /\ n = temporary[r][j]
  BY <1>1, FileFacts DEF InvHeld
<1>4. ~Bound(r, n)
  BY <1>2, <1>3 DEF Bound
<1> QED
  BY <1>1, <1>4, DiskStep DEF DiskChange

-----------------------------------------------------------------------------
(* Steps of a run and each part of the invariant.                          *)

\* r has a name left to try.
LEMMA CountFacts ==
  ASSUME TypeOK, InvPlace, InvCount, NEW r \in Runs, pc[r] = "create"
  PROVE  /\ kind[r] \in Logs => sequence[r].log + 1 \in Sequence
         /\ kind[r] \in Json => sequence[r].json + 1 \in Sequence
<1>1. /\ sequence[r].log \in Nat /\ sequence[r].json \in Nat /\ tries[r] \in Nat
      /\ tries[r] <= MaxAttempts - 1 /\ MaxAttempts \in Nat
  BY AttemptsAssumption DEF TypeOK, Sequence
<1>2. kind[r] = "stdout" => sequence[r].log <= tries[r]
  BY DEF InvCount, Count
<1>3. kind[r] = "stderr" => sequence[r].log <= MaxAttempts + tries[r]
  BY DEF InvCount, Count
<1>4. kind[r] = "receipt" => sequence[r].json <= tries[r]
  BY DEF InvCount, Count
<1>5. kind[r] = "out" => sequence[r].json <= MaxAttempts + tries[r]
  BY DEF InvCount, Count
<1> QED
  BY <1>1, <1>2, <1>3, <1>4, <1>5 DEF Sequence, Logs, Json

\* The types of the disk, of where the runs are and of what they have.
TypeDisk ==
  /\ entry \in [Names -> Files \cup {NoFile}] /\ data \in [Files -> Data]
  /\ synced \in SUBSET Files
TypeRun ==
  /\ pc \in [Runs -> Steps] /\ kind \in [Runs -> Kinds] /\ pid \in [Runs -> Pids]
  /\ result \in [Runs -> {"none", "stored", "recovery", "error", "killed"}]
  /\ lost \in BOOLEAN
TypeMemory ==
  /\ sequence \in [Runs -> [log : Sequence, json : Sequence]]
  /\ tries \in [Runs -> 0..(MaxAttempts - 1)]
  /\ temporary \in [Runs -> [Kinds -> Temporaries \cup {NoName}]]
  /\ open \in [Runs -> [Kinds -> Files \cup {NoFile}]]
  /\ digest \in [Runs -> [Logs -> {Log(c) : c \in Contents} \cup {Empty}]]
  /\ document \in [Runs -> Documents \cup {NoDocument}]

LEMMA TypeParts == TypeOK <=> TypeDisk /\ TypeRun /\ TypeMemory
  BY DEF TypeOK, TypeDisk, TypeRun, TypeMemory

LEMMA TypeRunStep ==
  ASSUME TypeRun, NEW r \in Runs, Moved(r)
  PROVE  TypeRun'
<1> USE DEF TypeRun, Go, Turn, End, Fail, AfterReceipt, memory, disk, Steps, Kinds, Logs
<1>1. CASE Start(r)
  BY <1>1 DEF Start
<1>2. CASE Create(r)
  BY <1>2 DEF Create
<1>3. CASE CreateAgain(r)
  BY <1>3 DEF CreateAgain
<1>4. CASE CreateFails(r)
  BY <1>4 DEF CreateFails
<1>5. CASE \E s \in Logs : CaptureLog(r, s)
  BY <1>5 DEF CaptureLog
<1>6. CASE CaptureFails(r)
  BY <1>6 DEF CaptureFails
<1>7. CASE Look(r)
  BY <1>7 DEF Look
<1>8. CASE LinkBlob(r)
  BY <1>8 DEF LinkBlob
<1>9. CASE Recheck(r)
  BY <1>9 DEF Recheck
<1>10. CASE Compare(r)
  BY <1>10 DEF Compare
<1>11. CASE RemoveLog(r)
  BY <1>11 DEF RemoveLog
<1>12. CASE Build(r)
  BY <1>12 DEF Build
<1>13. CASE Exists(r)
  BY <1>13 DEF Exists
<1>14. CASE Preflight(r)
  BY <1>14 DEF Preflight
<1>15. CASE WriteJson(r)
  BY <1>15 DEF WriteJson
<1>16. CASE SyncJson(r)
  BY <1>16 DEF SyncJson
<1>17. CASE PublishJson(r)
  BY <1>17 DEF PublishJson
<1>18. CASE Cleanup(r)
  BY <1>18 DEF Cleanup
<1>19. CASE Discard(r)
  BY <1>19 DEF Discard
<1>20. CASE Kill(r)
  BY <1>20 DEF Kill
<1>21. CASE SpawnFails(r)
  BY <1>21 DEF SpawnFails
<1> QED
  BY <1>21, <1>1, <1>2, <1>3, <1>4, <1>5, <1>6, <1>7, <1>8, <1>9, <1>10, <1>11, <1>12, <1>13, <1>14, <1>15, <1>16, <1>17, <1>18, <1>19, <1>20 DEF Moved, Run

\* The receipt refers to the logs that were captured.
LEMMA BuildStep ==
  ASSUME TypeOK, InvPlace, NEW r \in Runs, Build(r)
  PROVE  \/ document' = document /\ pc'[r] = "ended" /\ kind'[r] = kind[r]
         \/ /\ pc'[r] = "exists" /\ kind'[r] = "receipt" /\ result' = result
            /\ \E d \in Documents : document' = [document EXCEPT ![r] = d] /\ d.logs = digest[r]
<1>1. pc[r] = "build"
  BY DEF Build
<1>2. digest[r] \in References
  BY <1>1 DEF InvPlace, Place
<1>3. CASE document' = document /\ Fail(r)
  BY <1>3 DEF Fail, End, TypeOK
<1>4. ASSUME NEW stamp \in Stamps,
             document' = [document EXCEPT ![r] =
               [is |-> "receipt", logs |-> digest[r], stamp |-> stamp]],
             Turn(r, "exists", "receipt")
      PROVE  /\ pc'[r] = "exists" /\ kind'[r] = "receipt" /\ result' = result
             /\ \E d \in Documents : document' = [document EXCEPT ![r] = d] /\ d.logs = digest[r]
  <2> DEFINE d == [is |-> "receipt", logs |-> digest[r], stamp |-> stamp]
  <2>1. d \in Documents /\ d.logs = digest[r]
    BY <1>2 DEF Documents
  <2>2. pc'[r] = "exists" /\ kind'[r] = "receipt" /\ result' = result
    BY <1>4 DEF Turn, TypeOK
  <2>3. document' = [document EXCEPT ![r] = d]
    BY <1>4
  <2> HIDE DEF d
  <2> QED
    BY <2>1, <2>2, <2>3
<1> QED
  BY <1>3, <1>4 DEF Build

LEMMA TypeMemoryStep ==
  ASSUME TypeOK, InvPlace, InvCount, InvHeld, NEW r \in Runs, Moved(r)
  PROVE  TypeMemory'
<1> USE DEF TypeMemory, memory, disk
<1>a. TypeMemory /\ kind[r] \in Kinds
  BY TypeParts DEF TypeRun
<1>b. ASSUME pc[r] = "create", CountUp(r)
      PROVE  sequence' \in [Runs -> [log : Sequence, json : Sequence]]
  <2>1. sequence[r] \in [log : Sequence, json : Sequence]
    BY <1>a
  <2>2. CASE kind[r] \in Logs
    BY <1>a, <1>b, <2>1, <2>2, CountFacts DEF CountUp
  <2>3. CASE kind[r] \in Json
    BY <1>a, <1>b, <2>1, <2>3, CountFacts DEF CountUp, Json, Logs
  <2> QED
    BY <1>a, <2>2, <2>3 DEF Kinds, Json
<1>1. CASE UNCHANGED memory
  BY <1>a, <1>1
<1>2. CASE \/ Start(r) \/ CreateFails(r) \/ CaptureFails(r) \/ SpawnFails(r) \/ Look(r) \/ LinkBlob(r) \/ Recheck(r)
           \/ Compare(r) \/ RemoveLog(r) \/ Exists(r) \/ Preflight(r) \/ WriteJson(r)
           \/ SyncJson(r) \/ PublishJson(r) \/ Cleanup(r) \/ Discard(r) \/ Kill(r)
  BY <1>1, <1>2 DEF Start, CreateFails, CaptureFails, SpawnFails, Look, LinkBlob, Recheck, Compare, RemoveLog,
     Exists, Preflight, WriteJson, SyncJson, PublishJson, Cleanup, Discard, Kill
<1>3. CASE Create(r)
  <2>1. pc[r] = "create" /\ CountUp(r)
    BY <1>3 DEF Create
  <2>2. temporary' \in [Runs -> [Kinds -> Temporaries \cup {NoName}]]
    <3>1. TemporaryName(r) \in Temporaries
      BY <2>1, TemporaryIn
    <3>2. temporary' = [temporary EXCEPT ![r][kind[r]] = TemporaryName(r)]
      BY <1>3 DEF Create
    <3> QED
      BY <1>a, <3>1, <3>2
  <2>3. open' \in [Runs -> [Kinds -> Files \cup {NoFile}]]
    <3>1. File(r, kind[r]) \in Files
      BY <1>a, FileFacts
    <3>2. open' = [open EXCEPT ![r][kind[r]] = File(r, kind[r])]
      BY <1>3 DEF Create
    <3> QED
      BY <1>a, <3>1, <3>2
  <2>4. tries' \in [Runs -> 0..(MaxAttempts - 1)]
    BY <1>a, <1>3, AttemptsAssumption DEF Create
  <2> QED
    BY <1>a, <1>b, <1>3, <2>1, <2>2, <2>3, <2>4 DEF Create
<1>4. CASE CreateAgain(r)
  <2>1. tries' \in [Runs -> 0..(MaxAttempts - 1)]
    <3>1. tries[r] \in 0..(MaxAttempts - 1)
      BY <1>a
    <3>2. tries[r] + 1 \in 0..(MaxAttempts - 1)
      BY <1>4, <3>1, AttemptsAssumption DEF CreateAgain
    <3> QED
      BY <1>a, <1>4, <3>2 DEF CreateAgain
  <2> QED
    BY <1>a, <1>b, <1>4, <2>1 DEF CreateAgain
<1>5. CASE \E s \in Logs : CaptureLog(r, s)
  BY <1>a, <1>5 DEF CaptureLog
<1>6. CASE Build(r)
  <2>1. document' \in [Runs -> Documents \cup {NoDocument}]
    BY <1>a, <1>6, BuildStep
  <2> QED
    BY <1>a, <1>6, <2>1 DEF Build
<1> QED
  BY <1>2, <1>3, <1>4, <1>5, <1>6 DEF Moved, Run

LEMMA TypeDiskStep ==
  ASSUME TypeOK, InvPlace, InvHeld, NEW r \in Runs, Moved(r)
  PROVE  TypeDisk'
<1> USE DEF TypeDisk, disk
<1>a. /\ TypeDisk /\ kind[r] \in Kinds /\ Logs \subseteq Kinds
      /\ Empty \in Data /\ Partial \in Data
      /\ \A k \in Kinds : File(r, k) \in Files
      /\ \A c \in Contents : Log(c) \in Data
      /\ \A k \in Kinds : Held(r, k) => open[r][k] \in Files /\ entry[temporary[r][k]] \in Files
  BY TypeParts, ContentFacts, FileFacts DEF TypeRun, InvHeld, Kinds
<1>b. pc[r] \in BlobSteps \cup JsonSteps => Held(r, kind[r])
  BY DEF Held, InvPlace, Place, Logs
<1>d. \A n, f : Bind(n, f) /\ f \in Files \cup {NoFile} => entry' \in [Names -> Files \cup {NoFile}]
  BY <1>a DEF Bind
<1>1. CASE UNCHANGED disk
  BY <1>a, <1>1
<1>2. CASE \/ Start(r) \/ CreateAgain(r) \/ Look(r) \/ Recheck(r) \/ Compare(r) \/ Build(r)
           \/ Exists(r) \/ Preflight(r) \/ Kill(r)
  BY <1>1, <1>2 DEF Start, CreateAgain, Look, Recheck, Compare, Build, Exists, Preflight, Kill
<1>3. CASE Create(r)
  BY <1>a, <1>d, <1>3 DEF Create
<1>4. CASE CreateFails(r)
  BY <1>a, <1>4 DEF CreateFails
<1>5. CASE \E s \in Logs : CaptureLog(r, s)
  <2>1. PICK s \in Logs : CaptureLog(r, s)
    BY <1>5
  <2>2. open[r][s] \in Files
    BY <1>a, <2>1 DEF CaptureLog, Held
  <2> QED
    BY <1>a, <2>1, <2>2 DEF CaptureLog
<1>6. CASE CaptureFails(r)
  BY <1>a, <1>6, ZenonT(40) DEF CaptureFails
<1>7. CASE LinkBlob(r)
  <2>1. entry[temporary[r][kind[r]]] \in Files
    BY <1>a, <1>b, <1>7 DEF LinkBlob, BlobSteps
  <2> QED
    BY <1>a, <1>d, <1>7, <2>1 DEF LinkBlob
<1>8. CASE RemoveLog(r) \/ Cleanup(r) \/ Discard(r)
  BY <1>a, <1>d, <1>8 DEF RemoveLog, Cleanup, Discard, RemoveTemporary
<1>9. CASE WriteJson(r)
  <2>1. pc[r] = "write" /\ document[r] \in Data
    BY <1>9, ContentFacts DEF WriteJson, InvPlace, Place, JsonSteps
  <2> QED
    BY <1>a, <1>9, <2>1 DEF WriteJson
<1>10. CASE SyncJson(r)
  <2>1. open[r][kind[r]] \in Files
    BY <1>a, <1>b, <1>10 DEF SyncJson, JsonSteps
  <2> QED
    BY <1>a, <1>10, <2>1 DEF SyncJson
<1>11. CASE PublishJson(r)
  <2>1. entry[temporary[r][kind[r]]] \in Files
    BY <1>a, <1>b, <1>11 DEF PublishJson, JsonSteps
  <2> QED
    BY <1>a, <1>d, <1>11, <2>1 DEF PublishJson
<1>12. CASE SpawnFails(r)
  BY <1>a, <1>12 DEF SpawnFails
<1> QED
  BY <1>2, <1>3, <1>4, <1>5, <1>6, <1>7, <1>8, <1>9, <1>10, <1>11, <1>12 DEF Moved, Run

LEMMA TypeStep ==
  ASSUME TypeOK, InvPlace, InvCount, InvHeld, NEW r \in Runs, Moved(r)
  PROVE  TypeOK'
<1>1. TypeRun' /\ TypeMemory' /\ TypeDisk'
  BY TypeParts, TypeRunStep, TypeMemoryStep, TypeDiskStep
<1> QED
  BY <1>1 DEF TypeOK, TypeDisk, TypeRun, TypeMemory

LEMMA PlaceStep ==
  ASSUME TypeOK, InvPlace, NEW r \in Runs, Moved(r)
  PROVE  InvPlace'
<1> USE DEF Go, Turn, End, Fail, AfterReceipt, memory, disk, Place, BlobSteps, JsonSteps, Json, Logs
<1>a. /\ Place(r) /\ kind[r] \in {"stdout", "stderr", "receipt", "out"}
      /\ pc \in [Runs -> Steps] /\ kind \in [Runs -> Kinds]
      /\ result \in [Runs -> {"none", "stored", "recovery", "error", "killed"}]
      /\ (\A s \in Logs : digest[r][s] # Empty) => digest[r] \in References
      /\ NoLogs \in References
  BY ReferenceFacts DEF InvPlace, TypeOK, Kinds
<1>b. ASSUME NEW q \in Runs, q # r PROVE Place(q)'
  BY <1>b, OthersStay DEF InvPlace
<1>c. Place(r)'
  <2>1. CASE Start(r)
    BY <2>1, <1>a DEF Start
  <2>2. CASE Create(r)
    BY <2>2, <1>a DEF Create
  <2>3. CASE CreateAgain(r)
    BY <2>3, <1>a DEF CreateAgain
  <2>4. CASE CreateFails(r)
    BY <2>4, <1>a DEF CreateFails
  <2>5. CASE \E s \in Logs : CaptureLog(r, s)
    BY <2>5, <1>a DEF CaptureLog
  <2>6. CASE CaptureFails(r)
    BY <2>6, <1>a DEF CaptureFails
  <2>7. CASE Look(r)
    BY <2>7, <1>a DEF Look
  <2>8. CASE LinkBlob(r)
    BY <2>8, <1>a DEF LinkBlob
  <2>9. CASE Recheck(r)
    BY <2>9, <1>a DEF Recheck
  <2>10. CASE Compare(r)
    BY <2>10, <1>a DEF Compare
  <2>11. CASE RemoveLog(r)
    BY <2>11, <1>a DEF RemoveLog
  <2>12. CASE Build(r)
    <3>1. pc[r] = "build" /\ digest' = digest
      BY <2>12 DEF Build
    <3>2. CASE document' = document /\ pc'[r] = "ended" /\ kind'[r] = kind[r]
      BY <1>a, <3>1, <3>2
    <3>3. CASE /\ pc'[r] = "exists" /\ kind'[r] = "receipt" /\ result' = result
               /\ \E d \in Documents : document' = [document EXCEPT ![r] = d] /\ d.logs = digest[r]
      <4>1. document'[r] \in Documents /\ document'[r].logs = digest[r]
        BY <3>3 DEF TypeOK
      <4> QED
        BY <1>a, <3>1, <3>3, <4>1
    <3> QED
      BY <2>12, <3>2, <3>3, BuildStep
  <2>13. CASE Exists(r)
    BY <2>13, <1>a DEF Exists
  <2>14. CASE Preflight(r)
    BY <2>14, <1>a DEF Preflight
  <2>15. CASE WriteJson(r)
    BY <2>15, <1>a DEF WriteJson
  <2>16. CASE SyncJson(r)
    BY <2>16, <1>a DEF SyncJson
  <2>17. CASE PublishJson(r)
    BY <2>17, <1>a DEF PublishJson
  <2>18. CASE Cleanup(r)
    BY <2>18, <1>a DEF Cleanup
  <2>19. CASE Discard(r)
    BY <2>19, <1>a DEF Discard
  <2>20. CASE Kill(r)
    BY <2>20, <1>a DEF Kill
  <2>21. CASE SpawnFails(r)
    BY <2>21, <1>a DEF SpawnFails
  <2> QED
    BY <2>21, <2>1, <2>2, <2>3, <2>4, <2>5, <2>6, <2>7, <2>8, <2>9, <2>10, <2>11, <2>12, <2>13, <2>14, <2>15, <2>16, <2>17, <2>18, <2>19, <2>20 DEF Moved, Run
<1> QED
  BY <1>b, <1>c DEF InvPlace

LEMMA CountStep ==
  ASSUME TypeOK, InvPlace, InvCount, NEW r \in Runs, Moved(r)
  PROVE  InvCount'
<1> USE DEF Go, Turn, End, Fail, AfterReceipt, memory, Count, JsonSteps, BlobSteps, Json, Logs
<1>a. /\ Count(r) /\ kind[r] \in {"stdout", "stderr", "receipt", "out"}
      /\ pc[r] = "idle" => kind[r] = "stdout"
      /\ pc[r] \in {"capture", "build"} => kind[r] = "stderr"
      /\ pc[r] \in BlobSteps => kind[r] \in Logs
      /\ pc[r] = "exists" => kind[r] = "receipt"
      /\ pc[r] \in JsonSteps \cup {"preflight"} => kind[r] \in Json
      /\ pc \in [Runs -> Steps] /\ kind \in [Runs -> Kinds] /\ tries \in [Runs -> Nat]
      /\ sequence[r].log \in Nat /\ sequence[r].json \in Nat /\ MaxAttempts \in Nat
      /\ tries[r] \in Nat /\ tries[r] <= MaxAttempts - 1
      /\ sequence \in [Runs -> [log : Sequence, json : Sequence]]
  BY AttemptsAssumption DEF InvCount, InvPlace, Place, TypeOK, Kinds, Sequence
<1>b. ASSUME NEW q \in Runs, q # r PROVE Count(q)'
  BY <1>b, OthersStay DEF InvCount
<1>c. Count(r)'
  <2>1. CASE Start(r)
    BY <2>1, <1>a DEF Start
  <2>2. CASE Create(r)
    BY <2>2, <1>a DEF Create, CountUp
  <2>3. CASE CreateAgain(r)
    BY <2>3, <1>a DEF CreateAgain, CountUp
  <2>4. CASE CreateFails(r)
    BY <2>4, <1>a DEF CreateFails
  <2>5. CASE \E s \in Logs : CaptureLog(r, s)
    BY <2>5, <1>a DEF CaptureLog
  <2>6. CASE CaptureFails(r)
    BY <2>6, <1>a DEF CaptureFails
  <2>7. CASE Look(r)
    BY <2>7, <1>a DEF Look
  <2>8. CASE LinkBlob(r)
    BY <2>8, <1>a DEF LinkBlob
  <2>9. CASE Recheck(r)
    BY <2>9, <1>a DEF Recheck
  <2>10. CASE Compare(r)
    BY <2>10, <1>a DEF Compare
  <2>11. CASE RemoveLog(r)
    BY <2>11, <1>a DEF RemoveLog
  <2>12. CASE Build(r)
    BY <2>12, <1>a DEF Build
  <2>13. CASE Exists(r)
    BY <2>13, <1>a DEF Exists
  <2>14. CASE Preflight(r)
    BY <2>14, <1>a DEF Preflight
  <2>15. CASE WriteJson(r)
    BY <2>15, <1>a DEF WriteJson
  <2>16. CASE SyncJson(r)
    BY <2>16, <1>a DEF SyncJson
  <2>17. CASE PublishJson(r)
    BY <2>17, <1>a DEF PublishJson
  <2>18. CASE Cleanup(r)
    BY <2>18, <1>a DEF Cleanup
  <2>19. CASE Discard(r)
    BY <2>19, <1>a DEF Discard
  <2>20. CASE Kill(r)
    BY <2>20, <1>a DEF Kill
  <2>21. CASE SpawnFails(r)
    BY <2>21, <1>a DEF SpawnFails
  <2> QED
    BY <2>21, <2>1, <2>2, <2>3, <2>4, <2>5, <2>6, <2>7, <2>8, <2>9, <2>10, <2>11, <2>12, <2>13, <2>14, <2>15, <2>16, <2>17, <2>18, <2>19, <2>20 DEF Moved, Run
<1> QED
  BY <1>b, <1>c DEF InvCount

\* Of the names r holds a step takes away none that it still holds afterwards.
LEMMA OwnHeldStep ==
  ASSUME TypeOK, InvPlace, InvCount, InvHeld, NEW r \in Runs, Moved(r),
         NEW k \in Kinds, Held(r, k)'
  PROVE  /\ temporary'[r][k] \in Temporaries
         /\ open'[r][k] = File(r, k)
         /\ entry'[temporary'[r][k]] = File(r, k)
<1> USE DEF Go, Turn, End, Fail, AfterReceipt, memory, disk, Held, Json, JsonSteps, BlobSteps
<1>a. /\ kind[r] \in {"stdout", "stderr", "receipt", "out"} /\ pc[r] \in Steps
      /\ pc \in [Runs -> Steps] /\ kind \in [Runs -> Kinds]
      /\ entry \in [Names -> Files \cup {NoFile}]
      /\ temporary \in [Runs -> [Kinds -> Temporaries \cup {NoName}]]
      /\ open \in [Runs -> [Kinds -> Files \cup {NoFile}]]
      /\ Logs = {"stdout", "stderr"} /\ Kinds = {"stdout", "stderr", "receipt", "out"}
  BY DEF TypeOK, Kinds, Logs
<1>b. Held(r, k) => /\ temporary[r][k] \in Temporaries /\ temporary[r][k] \in Names
                    /\ open[r][k] = File(r, k)
                    /\ entry[temporary[r][k]] = File(r, k) /\ File(r, k) # NoFile
  BY NameFacts, FileFacts DEF InvHeld
<1>c. Held(r, "stdout") /\ Held(r, "stderr") => temporary[r]["stdout"] # temporary[r]["stderr"]
  BY <1>a, FileFacts DEF InvHeld
<1>d. Place(r)
  BY DEF InvPlace
<1>e. CASE Held(r, k) /\ UNCHANGED <<entry, temporary, open>>
  BY <1>b, <1>e
<1>1. CASE Start(r)
  BY <1>1, <1>a DEF Start
<1>2. CASE Create(r)
  <2>1. TemporaryName(r) \in Temporaries /\ TemporaryName(r) \in Names
    BY <1>2, TemporaryIn, NameFacts DEF Create
  <2>2. /\ temporary' = [temporary EXCEPT ![r][kind[r]] = TemporaryName(r)]
        /\ open' = [open EXCEPT ![r][kind[r]] = File(r, kind[r])]
        /\ entry' = [entry EXCEPT ![TemporaryName(r)] = File(r, kind[r])]
        /\ entry[TemporaryName(r)] = NoFile
    BY <1>2 DEF Create, Bind
  <2>3. CASE k = kind[r]
    BY <1>a, <2>1, <2>2, <2>3
  <2>4. CASE k # kind[r]
    <3>1. Held(r, k)
      BY <1>2, <1>a, <2>4 DEF Create
    <3>2. temporary'[r][k] = temporary[r][k] /\ open'[r][k] = open[r][k]
      BY <1>a, <2>2, <2>4
    <3>3. entry'[temporary[r][k]] = entry[temporary[r][k]]
      BY <1>a, <1>b, <2>1, <2>2, <3>1
    <3> QED
      BY <1>b, <3>1, <3>2, <3>3
  <2> QED
    BY <2>3, <2>4
<1>3. CASE CreateAgain(r)
  BY <1>3, <1>a, <1>e DEF CreateAgain
<1>4. CASE CreateFails(r) \/ CaptureFails(r) \/ Kill(r)
  BY <1>4, <1>a DEF CreateFails, CaptureFails, Kill
<1>5. CASE \E s \in Logs : CaptureLog(r, s)
  BY <1>5, <1>a, <1>e DEF CaptureLog
<1>6. CASE Look(r) \/ Recheck(r) \/ Compare(r)
  BY <1>6, <1>a, <1>d, <1>e DEF Look, Recheck, Compare
<1>7. CASE LinkBlob(r)
  <2>1. Held(r, k) /\ UNCHANGED <<temporary, open>>
    BY <1>7, <1>a, <1>d DEF LinkBlob
  <2>2. entry'[temporary[r][k]] = entry[temporary[r][k]]
    BY <1>7, <1>a, <1>b, <2>1, FileFacts DEF LinkBlob, Bind
  <2> QED
    BY <1>b, <2>1, <2>2
<1>8. CASE RemoveLog(r)
  <2>1. Held(r, k) /\ k = "stderr" /\ kind[r] = "stdout" /\ UNCHANGED <<temporary, open>>
    BY <1>8, <1>a DEF RemoveLog
  <2>2. Held(r, "stdout")
    BY <1>8, <1>a, <2>1 DEF RemoveLog
  <2>3. entry'[temporary[r][k]] = entry[temporary[r][k]]
    BY <1>8, <1>a, <1>b, <1>c, <2>1, <2>2 DEF RemoveLog, RemoveTemporary, Bind
  <2> QED
    BY <1>b, <2>1, <2>3
<1>9. CASE Build(r) \/ Exists(r) \/ Preflight(r)
  BY <1>9, <1>a, <1>d DEF Build, Exists, Preflight, Place
<1>10. CASE WriteJson(r) \/ SyncJson(r)
  BY <1>10, <1>a, <1>e DEF WriteJson, SyncJson
<1>11. CASE PublishJson(r)
  <2>1. Held(r, k) /\ UNCHANGED <<temporary, open>>
    BY <1>11, <1>a, <1>d DEF PublishJson
  <2>2. entry'[temporary[r][k]] = entry[temporary[r][k]]
    BY <1>11, <1>a, <1>b, <2>1 DEF PublishJson, Bind
  <2> QED
    BY <1>b, <2>1, <2>2
<1>12. CASE Cleanup(r) \/ Discard(r)
  BY <1>12, <1>a DEF Cleanup, Discard
<1>13. CASE SpawnFails(r)
  BY <1>13, <1>a, <1>d DEF SpawnFails, Place
<1> QED
  BY <1>1, <1>2, <1>3, <1>4, <1>5, <1>6, <1>7, <1>8, <1>9, <1>10, <1>11, <1>12, <1>13 DEF Moved, Run

LEMMA HeldInvStep ==
  ASSUME TypeOK, InvPlace, InvCount, InvHeld, NEW r \in Runs, Moved(r)
  PROVE  InvHeld'
<1> SUFFICES ASSUME NEW q \in Runs, NEW k \in Kinds, Held(q, k)'
             PROVE  /\ temporary'[q][k] \in Temporaries
                    /\ open'[q][k] = File(q, k)
                    /\ entry'[temporary'[q][k]] = File(q, k)
  BY DEF InvHeld, File
<1>1. CASE q = r
  BY <1>1, OwnHeldStep
<1>2. CASE q # r
  <2>1. Held(q, k) /\ temporary'[q] = temporary[q] /\ open'[q] = open[q]
    BY <1>2, OthersStay DEF Held
  <2>2. entry'[temporary[q][k]] = File(q, k)
    BY <1>2, <2>1, HeldStep
  <2> QED
    BY <2>1, <2>2 DEF InvHeld
<1> QED
  BY <1>1, <1>2

\* Files are written by the run that made them.
LEMMA OthersFiles ==
  ASSUME TypeOK, InvPlace, InvHeld, NEW r \in Runs, Moved(r),
         NEW q \in Runs, q # r, NEW k \in Kinds
  PROVE  data'[File(q, k)] = data[File(q, k)]
  BY DiskStep, FileFacts DEF DiskChange, Written

LEMMA DataStep ==
  ASSUME TypeOK, InvPlace, InvHeld, InvData, NEW r \in Runs, Moved(r)
  PROVE  InvData'
<1> USE DEF Go, Turn, End, Fail, AfterReceipt, memory, disk, Datum
<1>a. /\ kind[r] \in Kinds /\ pc[r] \in Steps /\ pc \in [Runs -> Steps]
      /\ kind \in [Runs -> Kinds] /\ data \in [Files -> Data]
      /\ Logs = {"stdout", "stderr"} /\ Kinds = {"stdout", "stderr", "receipt", "out"}
      /\ digest \in [Runs -> [Logs -> {Log(c) : c \in Contents} \cup {Empty}]]
      /\ \A k \in Kinds : File(r, k) \in Files
      /\ \A k, j \in Kinds : File(r, k) = File(r, j) => k = j
      /\ Datum(r) /\ pc[r] # "ended" /\ \A c \in Contents : Log(c) # Empty
  BY FileFacts, MovedFacts, ContentFacts DEF TypeOK, Kinds, Logs, InvData
<1>b. ASSUME NEW q \in Runs, q # r PROVE Datum(q)'
  <2>1. /\ pc'[q] = pc[q] /\ kind'[q] = kind[q] /\ digest'[q] = digest[q]
        /\ document'[q] = document[q] /\ synced \subseteq synced' /\ kind[q] \in Kinds
    BY <1>b, OthersStay, DiskStep DEF DiskChange, TypeOK
  <2>2. \A k \in Kinds : data'[File(q, k)] = data[File(q, k)]
    BY <1>b, OthersFiles
  <2>3. Datum(q)
    BY DEF InvData
  <2>4. \A s \in Logs : digest'[q][s] # Empty =>
          data'[File(q, s)] = digest'[q][s] /\ File(q, s) \in synced'
    BY <1>a, <2>1, <2>2, <2>3
  <2>7. pc'[q] # "ended" \/ kind'[q] \in Json =>
          \A s \in Logs : digest'[q][s] = Empty => data'[File(q, s)] = Empty
    BY <1>a, <2>1, <2>2, <2>3
  <2>5. pc'[q] \in {"sync", "publish", "cleanup"} => data'[File(q, kind'[q])] = document'[q]
    BY <2>1, <2>2, <2>3
  <2>6. pc'[q] \in {"publish", "cleanup"} => File(q, kind'[q]) \in synced'
    BY <2>1, <2>3
  <2> QED
    BY <2>4, <2>5, <2>6, <2>7 DEF File
<1>c. Datum(r)'
  <2> USE DEF File
  <2>1. CASE UNCHANGED <<data, synced, digest>> /\ pc'[r] \notin {"sync", "publish", "cleanup"}
    BY <1>a, <2>1
  <2>2. CASE \/ Start(r) \/ Create(r) \/ CreateAgain(r) \/ CreateFails(r) \/ SpawnFails(r) \/ Look(r)
             \/ LinkBlob(r) \/ Recheck(r) \/ Compare(r) \/ RemoveLog(r) \/ Build(r) \/ Exists(r)
             \/ Preflight(r) \/ Cleanup(r) \/ Discard(r) \/ Kill(r)
    BY <1>a, <2>1, <2>2 DEF Start, Create, CreateAgain, CreateFails, SpawnFails, Look, LinkBlob, Recheck, Compare,
       RemoveLog, Build, Exists, Preflight, Cleanup, Discard, Kill
  <2>3. CASE \E s \in Logs : CaptureLog(r, s)
    <3>1. PICK s \in Logs : CaptureLog(r, s)
      BY <2>3
    <3>2. open[r][s] = File(r, s) /\ s \in Kinds
      BY <1>a, <3>1 DEF CaptureLog, Held, InvHeld
    <3>3. PICK c \in Contents : /\ data' = [data EXCEPT ![open[r][s]] = Log(c)]
                                /\ digest' = [digest EXCEPT ![r][s] = Log(c)]
      BY <3>1 DEF CaptureLog
    <3>4. synced' = synced \cup {File(r, s)} /\ pc'[r] \in {"look", "capture"}
      BY <1>a, <3>1, <3>2 DEF CaptureLog
    <3>5. data'[File(r, s)] = Log(c) /\ digest'[r][s] = Log(c)
      BY <1>a, <3>2, <3>3
    <3>6. \A t \in Logs : t # s => data'[File(r, t)] = data[File(r, t)] /\ digest'[r][t] = digest[r][t]
      <4> HIDE DEF File
      <4> QED
        BY <1>a, <3>2, <3>3
    <3> HIDE DEF File
    <3>7. \A t \in Logs : digest'[r][t] # Empty =>
            data'[File(r, t)] = digest'[r][t] /\ File(r, t) \in synced'
      BY <1>a, <3>4, <3>5, <3>6
    <3>8. \A t \in Logs : digest'[r][t] = Empty => data'[File(r, t)] = Empty
      BY <1>a, <3>5, <3>6
    <3> QED
      BY <3>4, <3>7, <3>8 DEF File
  <2>4. CASE CaptureFails(r)
    <3>1. PICK s \in Logs : digest[r][s] = Empty /\ data' = [data EXCEPT ![open[r][s]] = Partial]
      BY <2>4 DEF CaptureFails
    <3>2. open[r][s] = File(r, s) /\ s \in Kinds
      BY <1>a, <2>4, <3>1 DEF CaptureFails, Held, InvHeld
    <3>3. \A t \in Logs : t # s => data'[File(r, t)] = data[File(r, t)]
      <4> HIDE DEF File
      <4> QED
        BY <1>a, <3>1, <3>2
    <3> QED
      BY <1>a, <2>4, <3>1, <3>3 DEF CaptureFails, InvPlace, Place, Json
  <2>5. CASE WriteJson(r)
    <3>1. kind[r] \notin Logs /\ open[r][kind[r]] = File(r, kind[r])
      BY <1>a, <2>5 DEF WriteJson, Held, InvHeld, InvPlace, Place, JsonSteps, Json
    <3>2. \A s \in Logs : data'[File(r, s)] = data[File(r, s)]
      <4> HIDE DEF File
      <4> QED
        BY <1>a, <2>5, <3>1 DEF WriteJson
    <3>3. pc'[r] = "sync" => data'[File(r, kind[r])] = document[r]
      <4> HIDE DEF File
      <4> QED
        BY <1>a, <2>5, <3>1 DEF WriteJson
    <3> QED
      BY <1>a, <2>5, <3>2, <3>3 DEF WriteJson
  <2>6. CASE SyncJson(r)
    <3>1. open[r][kind[r]] = File(r, kind[r])
      BY <1>a, <2>6 DEF SyncJson, Held, InvHeld, JsonSteps
    <3> QED
      BY <1>a, <2>6, <3>1 DEF SyncJson
  <2>7. CASE PublishJson(r)
    BY <1>a, <2>7 DEF PublishJson
  <2> QED
    BY <2>2, <2>3, <2>4, <2>5, <2>6, <2>7 DEF Moved, Run
<1>d. \A n \in Existing : OldFile(n) \in synced'
  BY DiskStep DEF InvData, DiskChange
<1> QED
  BY <1>b, <1>c, <1>d DEF InvData, OldFile

\* A run does not come back to a file it has settled.
LEMMA SettledStep ==
  ASSUME TypeOK, InvPlace, NEW r \in Runs, Moved(r), NEW q \in Runs, NEW k \in Kinds, Settled(q, k)
  PROVE  Settled(q, k)'
<1> USE DEF Go, Turn, End, Fail, AfterReceipt, memory, Settled
<1>a. /\ kind[r] \in Kinds /\ pc[r] \in Steps /\ pc \in [Runs -> Steps]
      /\ kind \in [Runs -> Kinds] /\ Logs = {"stdout", "stderr"}
      /\ digest \in [Runs -> [Logs -> {Log(c) : c \in Contents} \cup {Empty}]]
      /\ \A c \in Contents : Log(c) # Empty
      /\ Place(r)
  BY ContentFacts DEF TypeOK, Logs, InvPlace
<1>b. CASE q # r
  BY <1>b, OthersStay
<1>c. CASE q = r
  <2> USE <1>c DEF Place, JsonSteps, BlobSteps, Json
  <2>1. CASE Start(r)
    BY <2>1, <1>a DEF Start
  <2>2. CASE Create(r)
    BY <2>2, <1>a DEF Create
  <2>3. CASE CreateAgain(r)
    BY <2>3, <1>a DEF CreateAgain
  <2>4. CASE CreateFails(r)
    BY <2>4, <1>a DEF CreateFails
  <2>5. CASE \E s \in Logs : CaptureLog(r, s)
    BY <2>5, <1>a DEF CaptureLog
  <2>6. CASE CaptureFails(r)
    BY <2>6, <1>a DEF CaptureFails
  <2>7. CASE Look(r)
    BY <2>7, <1>a DEF Look
  <2>8. CASE LinkBlob(r)
    BY <2>8, <1>a DEF LinkBlob
  <2>9. CASE Recheck(r)
    BY <2>9, <1>a DEF Recheck
  <2>10. CASE Compare(r)
    BY <2>10, <1>a DEF Compare
  <2>11. CASE RemoveLog(r)
    BY <2>11, <1>a DEF RemoveLog
  <2>12. CASE Build(r)
    BY <2>12, <1>a DEF Build
  <2>13. CASE Exists(r)
    BY <2>13, <1>a DEF Exists
  <2>14. CASE Preflight(r)
    BY <2>14, <1>a DEF Preflight
  <2>15. CASE WriteJson(r)
    BY <2>15, <1>a DEF WriteJson
  <2>16. CASE SyncJson(r)
    BY <2>16, <1>a DEF SyncJson
  <2>17. CASE PublishJson(r)
    BY <2>17, <1>a DEF PublishJson
  <2>18. CASE Cleanup(r)
    BY <2>18, <1>a DEF Cleanup
  <2>19. CASE Discard(r)
    BY <2>19, <1>a DEF Discard
  <2>20. CASE Kill(r)
    BY <2>20, <1>a DEF Kill
  <2>21. CASE SpawnFails(r)
    BY <2>21, <1>a DEF SpawnFails
  <2> QED
    BY <2>21, <2>1, <2>2, <2>3, <2>4, <2>5, <2>6, <2>7, <2>8, <2>9, <2>10, <2>11, <2>12, <2>13, <2>14, <2>15, <2>16, <2>17, <2>18, <2>19, <2>20 DEF Moved, Run
<1> QED
  BY <1>b, <1>c

\* A final name is bound by hard_link only.
LEMMA BoundBy ==
  ASSUME TypeOK, InvPlace, InvCount, InvHeld, NEW r \in Runs, Moved(r),
         NEW n \in FinalNames, entry'[n] # entry[n]
  PROVE  /\ LinkBlob(r) \/ PublishJson(r)
         /\ n = Target(r) /\ entry'[n] = File(r, kind[r]) /\ entry[n] = NoFile
         /\ entry' = [entry EXCEPT ![n] = File(r, kind[r])]
<1>1. n \in Names /\ n \notin Temporaries
  BY NameFacts
<1>2. Bound(r, n)
  BY <1>1, DiskStep DEF DiskChange
<1>3. ~(pc[r] = "create" /\ n = TemporaryName(r))
  BY <1>1, TemporaryIn
<1>4. ~\E k \in Kinds : Held(r, k) /\ n = temporary[r][k]
  BY <1>1 DEF InvHeld
<1>5. pc[r] \in {"link", "publish"} /\ n = Target(r) /\ entry[n] = NoFile /\ entry'[n] = File(r, kind[r])
  BY <1>2, <1>3, <1>4 DEF Bound
<1>6. LinkBlob(r) \/ PublishJson(r)
  BY <1>5 DEF Moved, Run, disk, Start, Create, CreateAgain, CreateFails, CaptureLog, CaptureFails,
     SpawnFails, Look, Recheck, Compare, RemoveLog, Build, Exists, Preflight, WriteJson, SyncJson, Cleanup, Discard, Kill
<1>7. Held(r, kind[r])
  BY <1>6 DEF LinkBlob, PublishJson, Held, BlobSteps, JsonSteps, InvPlace, Place, Logs
<1>8. entry[temporary[r][kind[r]]] = File(r, kind[r])
  BY <1>7 DEF InvHeld, TypeOK
<1>9. entry' = [entry EXCEPT ![n] = File(r, kind[r])]
  BY <1>1, <1>5, <1>6, <1>8 DEF LinkBlob, PublishJson, Bind
<1> QED
  BY <1>5, <1>6, <1>9

LEMMA LinkedStep ==
  ASSUME TypeOK, InvPlace, InvCount, InvHeld, InvData, InvLinked, NEW r \in Runs, Moved(r)
  PROVE  InvLinked'
<1> SUFFICES ASSUME NEW n \in FinalNames, NEW q \in Runs, NEW k \in Kinds, entry'[n] = File(q, k)
             PROVE  Settled(q, k)' /\ <<n, data'[File(q, k)]>> \in Fits /\ File(q, k) \in synced'
  BY DEF InvLinked, File
<1>1. CASE entry[n] = entry'[n]
  <2>1. Settled(q, k) /\ <<n, data[File(q, k)]>> \in Fits /\ File(q, k) \in synced
    BY <1>1 DEF InvLinked
  <2>2. data'[File(q, k)] = data[File(q, k)]
    BY <1>1, FinalStep, FileFacts DEF FinalsStay
  <2>3. synced \subseteq synced'
    BY DiskStep DEF DiskChange
  <2> QED
    BY <2>1, <2>2, <2>3, SettledStep
<1>2. CASE entry[n] # entry'[n]
  <2>1. /\ LinkBlob(r) \/ PublishJson(r)
        /\ n = Target(r) /\ entry'[n] = File(r, kind[r]) /\ kind[r] \in Kinds
    BY <1>2, BoundBy DEF TypeOK
  <2>2. q = r /\ k = kind[r]
    BY <2>1, FileFacts
  <2>3. /\ data' = data /\ synced' = synced /\ kind' = kind /\ digest' = digest
        /\ pc'[r] \in {"remove", "recheck", "cleanup", "discard"}
        /\ pc'[r] \in {"recheck", "discard"} => entry' = entry
        /\ pc[r] = "publish" => pc'[r] \in {"cleanup", "discard"}
    BY <2>1 DEF LinkBlob, PublishJson, Go, memory, TypeOK
  <2>4. CASE pc[r] = "link"
    <3>1. kind[r] \in Logs /\ digest[r][kind[r]] # Empty
      BY <2>4 DEF InvPlace, Place, BlobSteps
    <3>2. <<n, digest[r][kind[r]]>> \in Fits
      BY <2>1, <3>1, TargetIn
    <3>3. data[File(r, k)] = digest[r][kind[r]] /\ File(r, k) \in synced
      BY <2>2, <3>1 DEF InvData, Datum
    <3>4. Settled(q, k)'
      BY <2>2, <2>3, <3>1 DEF Settled
    <3> QED
      BY <2>2, <2>3, <3>2, <3>3, <3>4
  <2>5. CASE pc[r] = "publish"
    <3>1. kind[r] \in Json /\ data[File(r, k)] = document[r] /\ File(r, k) \in synced
      BY <2>2, <2>5 DEF InvPlace, Place, JsonSteps, InvData, Datum
    <3>2. <<n, document[r]>> \in Fits
      BY <2>1, <3>1, TargetIn
    <3>3. pc'[r] = "cleanup"
      BY <1>2, <2>3, <2>5
    <3>4. Settled(q, k)'
      BY <2>2, <2>3, <3>1, <3>3 DEF Settled, Json
    <3> QED
      BY <2>2, <2>3, <3>1, <3>2, <3>4
  <2> QED
    BY <2>1, <2>4, <2>5 DEF LinkBlob, PublishJson
<1> QED
  BY <1>1, <1>2

\* What has been found under a final name stays there, and what has been
\* captured stays captured.
LEMMA BoundStays ==
  ASSUME TypeOK, InvPlace, InvCount, InvHeld, InvLinked, NEW r \in Runs, Moved(r),
         NEW n \in FinalNames, NEW x, BoundTo(n, x)
  PROVE  BoundTo(n, x)'
  BY FinalStep DEF FinalsStay, BoundTo, Holds

LEMMA DigestStays ==
  ASSUME TypeOK, NEW r \in Runs, Moved(r), NEW q \in Runs, NEW s \in Logs, digest[q][s] # Empty
  PROVE  digest'[q][s] = digest[q][s]
<1> USE DEF memory
<1>a. digest \in [Runs -> [Logs -> {Log(c) : c \in Contents} \cup {Empty}]]
  BY DEF TypeOK
<1>1. CASE digest' = digest
  BY <1>1
<1>2. CASE \E t \in Logs : CaptureLog(r, t)
  <2>1. PICK t \in Logs, c \in Contents : digest[r][t] = Empty /\ digest' = [digest EXCEPT ![r][t] = Log(c)]
    BY <1>2 DEF CaptureLog
  <2> QED
    BY <1>a, <2>1
<1>3. CASE \/ Start(r) \/ Create(r) \/ CreateAgain(r) \/ CreateFails(r) \/ CaptureFails(r)
           \/ SpawnFails(r) \/ Look(r) \/ LinkBlob(r) \/ Recheck(r) \/ Compare(r) \/ RemoveLog(r) \/ Build(r) \/ Exists(r)
           \/ Preflight(r) \/ WriteJson(r) \/ SyncJson(r) \/ PublishJson(r) \/ Cleanup(r)
           \/ Discard(r) \/ Kill(r)
  BY <1>1, <1>3 DEF Start, Create, CreateAgain, CreateFails, CaptureFails, SpawnFails, Look, LinkBlob, Recheck,
     Compare, RemoveLog, Build, Exists, Preflight, WriteJson, SyncJson, PublishJson, Cleanup, Discard,
     Kill
<1> QED
  BY <1>2, <1>3 DEF Moved, Run

LEMMA BlobStays ==
  ASSUME TypeOK, InvPlace, InvCount, InvHeld, InvLinked, NEW r \in Runs, Moved(r),
         NEW q \in Runs, NEW s \in Logs, digest[q][s] # Empty, HasBlob(q, s)
  PROVE  HasBlob(q, s)'
<1>1. digest'[q][s] = digest[q][s]
  BY DigestStays
<1>2. PICK c \in Contents : digest[q][s] = Log(c) /\ digest[q][s].content = c
  BY TargetIn
<1>3. BoundTo(BlobName(c), Log(c)) /\ BlobName(c) \in FinalNames
  BY <1>2, NameFacts DEF HasBlob
<1>4. BoundTo(BlobName(c), Log(c))'
  BY <1>3, BoundStays
<1> QED
  BY <1>1, <1>2, <1>4 DEF HasBlob, BoundTo, Holds, BlobName

LEMMA BlobsStep ==
  ASSUME TypeOK, InvPlace, InvCount, InvHeld, InvData, InvLinked, InvBlobs, NEW r \in Runs, Moved(r)
  PROVE  InvBlobs'
<1> USE DEF Go, Turn, End, Fail, AfterReceipt, memory, disk, Blobs, BlobSteps, Json, Active
<1>a. /\ kind[r] \in {"stdout", "stderr", "receipt", "out"} /\ pc[r] \in Steps
      /\ pc \in [Runs -> Steps] /\ kind \in [Runs -> Kinds] /\ Logs = {"stdout", "stderr"}
      /\ Blobs(r) /\ Place(r)
  BY DEF TypeOK, Kinds, Logs, InvBlobs, InvPlace
<1>b. \A q \in Runs : \A s \in Logs : digest[q][s] # Empty /\ HasBlob(q, s) => HasBlob(q, s)'
  BY BlobStays
<1>c. ASSUME NEW q \in Runs, q # r PROVE Blobs(q)'
  <2>1. pc'[q] = pc[q] /\ kind'[q] = kind[q] /\ digest'[q] = digest[q] /\ kind[q] \in Kinds
    BY <1>c, OthersStay DEF TypeOK
  <2>2. Blobs(q) /\ Place(q) /\ Logs = {"stdout", "stderr"}
    BY DEF InvBlobs, InvPlace, Logs
  <2>3. pc[q] = "compare" => entry'[Target(q)'] # NoFile
    <3>1. pc[q] = "compare" => /\ kind[q] \in Logs /\ digest[q][kind[q]] # Empty
                               /\ entry[Target(q)] # NoFile
      BY <2>2 DEF Place
    <3>2. pc[q] = "compare" => Target(q) \in FinalNames /\ Target(q)' = Target(q)
      BY <2>1, <3>1, TargetIn DEF Target
    <3> QED
      BY <3>1, <3>2, FinalStep DEF FinalsStay
  <2> QED
    BY <1>b, <2>1, <2>2, <2>3 DEF Place
<1>d. Blobs(r)'
  <2>9. CASE SpawnFails(r)
    <3>1. digest' = digest /\ \A s \in Logs : digest[r][s] = Empty
      BY <2>9, ReferenceFacts DEF SpawnFails
    <3> QED
      BY <1>a, <2>9, <3>1 DEF SpawnFails, Place
  <2>1. CASE Start(r) \/ Create(r) \/ CreateAgain(r) \/ CreateFails(r) \/ CaptureFails(r) \/ Kill(r)
    BY <1>a, <1>b, <2>1 DEF Start, Create, CreateAgain, CreateFails, CaptureFails, Kill, Place
  <2>2. CASE \E s \in Logs : CaptureLog(r, s)
    BY <1>a, <2>2 DEF CaptureLog, Place
  <2>3. CASE Look(r) \/ Recheck(r)
    BY <1>a, <1>b, <2>3 DEF Look, Recheck, Target, Place
  <2>4. CASE LinkBlob(r)
    <3>1. kind[r] \in Logs /\ digest[r][kind[r]] # Empty /\ pc[r] = "link"
      BY <1>a, <2>4 DEF LinkBlob, Place
    <3>2. Target(r) = BlobName(digest[r][kind[r]].content) /\ Target(r) \in FinalNames
      BY <3>1, TargetIn
    <3>3. /\ data' = data /\ digest' = digest /\ kind' = kind
          /\ pc'[r] \in {"remove", "recheck"}
      BY <1>a, <2>4 DEF LinkBlob
    <3>4. pc'[r] = "remove" => entry'[Target(r)] = File(r, kind[r])
      <4>1. Held(r, kind[r])
        BY <3>1 DEF Held, Logs
      <4>2. entry[temporary[r][kind[r]]] = File(r, kind[r]) /\ Target(r) \in Names
        BY <1>a, <3>2, <4>1, NameFacts DEF InvHeld, TypeOK
      <4> QED
        BY <1>a, <2>4, <4>2 DEF LinkBlob, Bind, TypeOK
    <3>5. pc'[r] = "remove" => HasBlob(r, kind[r])'
      BY <1>a, <3>1, <3>2, <3>3, <3>4, FileFacts DEF HasBlob, BoundTo, Holds, InvData, Datum, BlobName, TypeOK
    <3> QED
      BY <1>a, <1>b, <3>1, <3>3, <3>5 DEF Place
  <2>5. CASE Compare(r)
    <3>1. kind[r] \in Logs /\ digest[r][kind[r]] # Empty /\ pc[r] = "compare"
      BY <1>a, <2>5 DEF Compare, Place
    <3>2. Target(r) = BlobName(digest[r][kind[r]].content)
      BY <3>1, TargetIn
    <3>3. /\ UNCHANGED <<disk, digest, kind>> /\ pc'[r] \in {"remove", "ended"}
          /\ pc'[r] = "remove" => data[entry[Target(r)]] = digest[r][kind[r]]
      BY <1>a, <2>5 DEF Compare
    <3>4. pc'[r] = "remove" => HasBlob(r, kind[r])'
      BY <1>a, <3>1, <3>2, <3>3 DEF HasBlob, BoundTo, Holds, BlobName
    <3> QED
      BY <1>a, <1>b, <3>1, <3>3, <3>4 DEF Place
  <2>6. CASE RemoveLog(r)
    BY <1>a, <1>b, <2>6 DEF RemoveLog, Place
  <2>7. CASE Build(r) \/ Exists(r) \/ Preflight(r)
    BY <1>a, <1>b, <2>7 DEF Build, Exists, Preflight, Place
  <2>8. CASE WriteJson(r) \/ SyncJson(r) \/ PublishJson(r) \/ Cleanup(r) \/ Discard(r)
    BY <1>a, <1>b, <2>8 DEF WriteJson, SyncJson, PublishJson, Cleanup, Discard, Place, JsonSteps
  <2> QED
    BY <2>1, <2>2, <2>3, <2>4, <2>5, <2>6, <2>7, <2>8, <2>9 DEF Moved, Run
<1> QED
  BY <1>c, <1>d DEF InvBlobs

LEMMA StoredStep ==
  ASSUME TypeOK, InvPlace, InvCount, InvHeld, InvData, InvLinked, InvStored, NEW r \in Runs, Moved(r)
  PROVE  InvStored'
<1> USE DEF Go, Turn, End, Fail, AfterReceipt, memory, disk, Kept, Json, Active
<1>a. /\ kind[r] \in {"stdout", "stderr", "receipt", "out"} /\ pc[r] \in Steps
      /\ pc \in [Runs -> Steps] /\ kind \in [Runs -> Kinds] /\ Logs = {"stdout", "stderr"}
      /\ result \in [Runs -> {"none", "stored", "recovery", "error", "killed"}]
      /\ Kept(r) /\ Place(r) /\ lost' = lost /\ pc[r] # "ended" /\ result[r] = "none"
  BY MovedFacts DEF TypeOK, Kinds, Logs, InvStored, InvPlace, Place
<1>b. ASSUME NEW q \in Runs, kind[q] \in Json, document'[q] = document[q], HasReceipt(q)
      PROVE  HasReceipt(q)'
  <2>1. document[q] \in Documents
    BY <1>b DEF InvPlace, Place
  <2>2. ReceiptName(document[q]) \in FinalNames
    BY <2>1, NameFacts
  <2>3. /\ entry'[ReceiptName(document[q])] # NoFile
        /\ data'[entry'[ReceiptName(document[q])]] = document[q]
    BY <1>b, <2>2, FinalStep DEF FinalsStay, HasReceipt, BoundTo, Holds
  <2> QED
    BY <1>b, <2>3 DEF HasReceipt, BoundTo, Holds, ReceiptName
<1>c. ASSUME NEW q \in Runs, document'[q] = document[q], HasCopy(q)
      PROVE  HasCopy(q)'
  BY <1>c, NameFacts, FileFacts, FinalStep DEF FinalsStay, HasCopy, File, OutName, Kinds
<1>d. ASSUME NEW q \in Runs, q # r PROVE Kept(q)'
  <2>1. /\ pc'[q] = pc[q] /\ kind'[q] = kind[q] /\ document'[q] = document[q]
        /\ result'[q] = result[q] /\ lost' = lost /\ Kept(q)
    BY <1>d, OthersStay DEF InvStored
  <2> QED
    BY <1>b, <1>c, <2>1
<1>e. Kept(r)'
  <2>1. CASE \/ Start(r) \/ Create(r) \/ CreateAgain(r) \/ CreateFails(r) \/ CaptureFails(r)
             \/ SpawnFails(r) \/ Look(r) \/ LinkBlob(r) \/ Recheck(r) \/ Compare(r) \/ RemoveLog(r)
    BY <1>a, <1>b, <2>1 DEF Start, Create, CreateAgain, CreateFails, CaptureFails, SpawnFails, Look,
       LinkBlob, Recheck, Compare, RemoveLog, Place, BlobSteps
  <2>2. CASE (\E s \in Logs : CaptureLog(r, s)) \/ Build(r)
    BY <1>a, <2>2 DEF CaptureLog, Build, Place
  <2>3. CASE Exists(r)
    <3>1. /\ kind[r] = "receipt" /\ UNCHANGED <<disk, document>> /\ Target(r) = ReceiptName(document[r])
      BY <1>a, <2>3 DEF Exists, Place, Target
    <3>2. entry[Target(r)] # NoFile /\ data[entry[Target(r)]] = document[r] => HasReceipt(r)'
      BY <3>1 DEF HasReceipt, BoundTo, Holds, ReceiptName
    <3> QED
      BY <1>a, <2>3, <3>1, <3>2 DEF Exists
  <2>4. CASE Preflight(r) \/ WriteJson(r) \/ SyncJson(r) \/ Kill(r)
    BY <1>a, <1>b, <2>4 DEF Preflight, WriteJson, SyncJson, Kill, Place, JsonSteps
  <2>5. CASE PublishJson(r)
    <3>1. /\ kind[r] \in Json /\ pc[r] = "publish" /\ document' = document /\ data' = data
          /\ kind' = kind /\ result' = result /\ pc'[r] \in {"cleanup", "discard"}
      BY <1>a, <2>5 DEF PublishJson, Place, JsonSteps
    <3>2. data[File(r, kind[r])] = document[r]
      BY <3>1 DEF InvData, Datum
    <3>3. pc'[r] = "cleanup" => entry'[Target(r)] = File(r, kind[r])
      <4>1. Held(r, kind[r])
        BY <3>1 DEF Held, JsonSteps
      <4>2. entry[temporary[r][kind[r]]] = File(r, kind[r]) /\ Target(r) \in Names
        BY <1>a, <3>1, <4>1, NameFacts, TargetIn DEF InvHeld, TypeOK
      <4> QED
        BY <1>a, <2>5, <4>2 DEF PublishJson, Bind, TypeOK
    <3>4. kind[r] = "receipt" /\ pc'[r] = "cleanup" => HasReceipt(r)'
      BY <3>1, <3>2, <3>3, FileFacts DEF HasReceipt, BoundTo, Holds, ReceiptName, Target, Logs, Kinds
    <3>5. kind[r] = "out" /\ pc'[r] = "cleanup" => HasCopy(r)'
      BY <3>1, <3>2, <3>3 DEF HasCopy, OutName, Target, Logs, File
    <3> QED
      BY <1>a, <1>b, <3>1, <3>4, <3>5
  <2>6. CASE Cleanup(r)
    BY <1>a, <1>b, <1>c, <2>6 DEF Cleanup, Place, JsonSteps
  <2>7. CASE Discard(r)
    BY <1>a, <1>b, <2>7 DEF Discard, Place, JsonSteps
  <2> QED
    BY <2>1, <2>2, <2>3, <2>4, <2>5, <2>6, <2>7 DEF Moved, Run
<1> QED
  BY <1>d, <1>e DEF InvStored

LEMMA TemporaryStep ==
  ASSUME TypeOK, InvPlace, InvCount, InvHeld, InvTemporary, NEW r \in Runs, Moved(r)
  PROVE  InvTemporary'
<1> SUFFICES ASSUME NEW n \in LogTemporaries, NEW q \in Runs, NEW s \in Logs, entry'[n] = File(q, s)
             PROVE  n = temporary'[q][s] /\ Left(q, s)'
  BY DEF InvTemporary, File
<1> USE DEF Go, Turn, End, Fail, AfterReceipt, memory, disk, BlobSteps, JsonSteps, Json
<1>a. /\ kind[r] \in {"stdout", "stderr", "receipt", "out"} /\ pc[r] \in Steps
      /\ pc \in [Runs -> Steps] /\ kind \in [Runs -> Kinds]
      /\ temporary \in [Runs -> [Kinds -> Temporaries \cup {NoName}]]
      /\ result \in [Runs -> {"none", "stored", "recovery", "error", "killed"}]
      /\ Logs = {"stdout", "stderr"} /\ Kinds = {"stdout", "stderr", "receipt", "out"}
      /\ n \in Names /\ n \notin FinalNames /\ File(q, s) # NoFile /\ Place(r) /\ s \in Kinds
  BY NameFacts, FileFacts DEF TypeOK, Kinds, Logs, InvPlace, Temporaries
<1>b. ASSUME q # r, entry[n] = File(q, s) PROVE n = temporary'[q][s] /\ Left(q, s)'
  BY <1>b, OthersStay DEF InvTemporary, Left, Unspawned, Held
<1>c. ASSUME entry[n] # entry'[n]
      PROVE  n = temporary'[q][s] /\ Left(q, s)'
  <2>1. Bound(r, n)
    BY <1>a, <1>c, DiskStep DEF DiskChange
  <2>2. n # Target(r) \/ pc[r] \notin {"link", "publish"}
    BY <1>a, TargetIn DEF Place
  <2>3. pc[r] = "create" /\ n = TemporaryName(r) /\ File(q, s) = File(r, kind[r])
    BY <1>a, <2>1, <2>2 DEF Bound
  <2>4. q = r /\ s = kind[r]
    BY <1>a, <2>3, FileFacts
  <2>5. Create(r)
    BY <1>a, <1>c, <2>3, <2>4, CreatedBy
  <2> QED
    BY <1>a, <2>3, <2>4, <2>5 DEF Create, Left, Held
<1>d. ASSUME q = r, entry[n] = File(r, s)
      PROVE  n = temporary'[r][s] /\ Left(r, s)'
  <2>1. n = temporary[r][s] /\ Left(r, s)
    BY <1>d DEF InvTemporary
  <2>2. pc[r] # "ended" /\ result[r] = "none"
    BY <1>a, MovedFacts DEF Place
  <2>3. Held(r, s) \/ Unspawned(r)
    BY <2>1, <2>2 DEF Left
  <2>a. CASE Held(r, s)
    <3> USE <2>a DEF Left
    <3>4. CASE Create(r) \/ CreateAgain(r) \/ CreateFails(r)
      BY <1>a, <2>1, <3>4 DEF Create, CreateAgain, CreateFails, Held
    <3>5. CASE (\E t \in Logs : CaptureLog(r, t)) \/ CaptureFails(r)
      BY <1>a, <2>1, <3>5 DEF CaptureLog, CaptureFails, Held, Place
    <3>6. CASE Look(r) \/ LinkBlob(r) \/ Recheck(r) \/ Compare(r) \/ Kill(r)
      BY <1>a, <2>1, <3>6 DEF Look, LinkBlob, Recheck, Compare, Kill, Held, Place
    <3>7. CASE RemoveLog(r)
      <4>1. CASE RemoveTemporary(r)
        <5>1. s # kind[r]
          BY <1>a, <1>d, <2>1, <4>1 DEF RemoveTemporary, Bind, TypeOK
        <5> QED
          BY <1>a, <2>1, <3>7, <5>1 DEF RemoveLog, Held, Place
      <4>2. CASE UNCHANGED entry /\ Fail(r)
        BY <1>a, <2>1, <3>7, <4>2 DEF RemoveLog, Place
      <4> QED
        BY <3>7, <4>1, <4>2 DEF RemoveLog
    <3>8. CASE \/ Start(r) \/ Build(r) \/ Exists(r) \/ Preflight(r) \/ WriteJson(r) \/ SyncJson(r)
               \/ PublishJson(r) \/ Cleanup(r) \/ Discard(r)
      BY <1>a, <3>8 DEF Start, Build, Exists, Preflight, WriteJson, SyncJson, PublishJson, Cleanup,
         Discard, Held, Place
    <3>9. CASE SpawnFails(r)
      BY <1>a, <2>1, <3>9 DEF SpawnFails, Unspawned
    <3> QED
      BY <3>4, <3>5, <3>6, <3>7, <3>8, <3>9 DEF Moved, Run
  <2>b. CASE Unspawned(r)
    <3> USE <2>b DEF Left, Unspawned
    <3>1. CASE \/ Start(r) \/ (\E t \in Logs : CaptureLog(r, t)) \/ CaptureFails(r) \/ SpawnFails(r)
               \/ Look(r) \/ LinkBlob(r) \/ Recheck(r) \/ Compare(r) \/ RemoveLog(r)
      BY <1>a, <3>1 DEF Start, CaptureLog, CaptureFails, SpawnFails, Look, LinkBlob, Recheck, Compare,
         RemoveLog, Place
    <3>2. CASE Create(r) \/ CreateAgain(r) \/ CreateFails(r)
      BY <1>a, <2>1, <3>2 DEF Create, CreateAgain, CreateFails
    <3>3. CASE Build(r) \/ Exists(r) \/ Preflight(r) \/ WriteJson(r) \/ SyncJson(r) \/ PublishJson(r)
               \/ Cleanup(r) \/ Discard(r) \/ Kill(r)
      BY <1>a, <2>1, <3>3 DEF Build, Exists, Preflight, WriteJson, SyncJson, PublishJson, Cleanup,
         Discard, Kill, Place
    <3> QED
      BY <3>1, <3>2, <3>3 DEF Moved, Run
  <2> QED
    BY <2>3, <2>a, <2>b
<1> QED
  BY <1>b, <1>c, <1>d

LEMMA ReceiptsStep ==
  ASSUME TypeOK, InvPlace, InvCount, InvHeld, InvData, InvLinked, InvBlobs, ReceiptsHaveLogs,
         NEW r \in Runs, Moved(r)
  PROVE  ReceiptsHaveLogs'
<1>1. lost' = lost
  BY MovedFacts
<1> SUFFICES ASSUME ~lost, NEW n \in JsonTargets, ByRun(n)', NEW s \in Logs, Holds(n)'.logs[s] # Empty
             PROVE  verify_blob(Holds(n).logs[s])'
  BY <1>1 DEF ReceiptsHaveLogs, Empty
<1>a. n \in FinalNames /\ n \in Names
  BY NameFacts DEF FinalNames
<1>b. ASSUME NEW c \in Contents, BoundTo(BlobName(c), Log(c))
      PROVE  BoundTo(BlobName(c), Log(c))'
  BY <1>b, NameFacts, BoundStays
<1>c. SUFFICES ASSUME TRUE
      PROVE  \E c \in Contents : /\ Holds(n)'.logs[s] = Log(c) /\ Log(c).content = c
                                 /\ BoundTo(BlobName(c), Log(c))
  BY <1>b DEF verify_blob, BoundTo, Holds, BlobName, Log
<1>2. CASE entry'[n] = entry[n]
  <2>1. ByRun(n)
    BY <1>2 DEF ByRun
  <2>2. entry[n] \in Files
    BY <1>a, <2>1 DEF ByRun, TypeOK
  <2>3. PICK q \in Runs, k \in Kinds : entry[n] = File(q, k)
    BY <2>1, <2>2, FileFacts DEF ByRun, OldFile
  <2>4. <<n, Holds(n)>> \in Fits
    BY <1>a, <2>3 DEF InvLinked, Holds
  <2>5. Holds(n).logs \in References
    BY <2>4, FitFacts, ContentFacts
  <2>6. Holds(n)' = Holds(n)
    BY <1>2, <1>a, <2>1, FinalStep DEF FinalsStay, Holds, ByRun
  <2>7. PICK c \in Contents : Holds(n).logs[s] = Log(c) /\ Holds(n).logs[s].content = c
    BY <2>5, <2>6, ReferenceFacts
  <2>8. verify_blob(Holds(n).logs[s])
    BY <2>1, <2>6 DEF ReceiptsHaveLogs
  <2> QED
    BY <2>6, <2>7, <2>8, ContentFacts DEF verify_blob
<1>3. CASE entry'[n] # entry[n]
  <2>1. /\ LinkBlob(r) \/ PublishJson(r)
        /\ n = Target(r) /\ entry'[n] = File(r, kind[r]) /\ kind[r] \in Kinds
    BY <1>3, <1>a, BoundBy DEF TypeOK
  <2>2. kind[r] \in Json /\ pc[r] = "publish" /\ data' = data
    BY <2>1, TargetIn DEF LinkBlob, PublishJson, InvPlace, Place, BlobSteps, JsonSteps
  <2>3. Holds(n)' = document[r]
    BY <2>1, <2>2 DEF Holds, InvData, Datum
  <2>4. digest[r] \in References /\ document[r].logs = digest[r]
    BY <2>2 DEF InvPlace, Place
  <2>5. PICK c \in Contents : digest[r][s] = Log(c) /\ digest[r][s].content = c
    BY <2>3, <2>4, ReferenceFacts
  <2>6. HasBlob(r, s)
    BY <2>2, <2>5, ContentFacts DEF InvBlobs, Blobs, Active
  <2> QED
    BY <2>3, <2>4, <2>5, <2>6, ContentFacts DEF HasBlob
<1> QED
  BY <1>2, <1>3

LEMMA MovedStep ==
  ASSUME IInv, NEW r \in Runs, Moved(r)
  PROVE  IInv'
<1>1. TypeOK' /\ InvPlace' /\ InvCount' /\ InvHeld' /\ InvData'
  BY TypeStep, PlaceStep, CountStep, HeldInvStep, DataStep DEF IInv
<1>2. InvLinked' /\ InvBlobs' /\ InvStored'
  BY LinkedStep, BlobsStep, StoredStep DEF IInv
<1>3. InvTemporary' /\ ReceiptsHaveLogs'
  BY TemporaryStep, ReceiptsStep DEF IInv
<1> QED
  BY <1>1, <1>2, <1>3 DEF IInv

-----------------------------------------------------------------------------
(* The power loss, and the invariant.                                      *)

\* The name of a temporary file that was removed is there again.
Back(n) ==
  \E r \in Runs : \E k \in Kinds :
    temporary[r][k] # NoName /\ n = temporary[r][k] /\ entry'[n] = File(r, k)

LEMMA LossOfNames ==
  ASSUME PowerLoss
  PROVE  /\ entry' = [n \in Names |-> entry'[n]]
         /\ \A n \in Names : entry'[n] = entry[n] \/ entry'[n] = NoFile \/ Back(n)
<1>1. PICK kept \in SUBSET {n \in Names : entry[n] # NoFile}, back \in SUBSET Unlinked :
        entry' = [n \in Names |->
                    IF \E x \in back : n = temporary[x[1]][x[2]]
                      THEN LET x == CHOOSE x \in back : n = temporary[x[1]][x[2]]
                           IN  File(x[1], x[2])
                    ELSE IF n \in kept THEN entry[n] ELSE NoFile]
  BY DEF PowerLoss
<1>2. ASSUME NEW n \in Names, \E x \in back : n = temporary[x[1]][x[2]] PROVE Back(n)
  <2> DEFINE x == CHOOSE x \in back : n = temporary[x[1]][x[2]]
  <2>1. x \in back /\ n = temporary[x[1]][x[2]]
    BY <1>2
  <2>2. entry'[n] = File(x[1], x[2])
    BY <1>1, <1>2
  <2>3. x[1] \in Runs /\ x[2] \in Kinds /\ temporary[x[1]][x[2]] # NoName
    BY <2>1 DEF Unlinked
  <2> HIDE DEF x
  <2> QED
    BY <2>1, <2>2, <2>3 DEF Back
<1> QED
  BY <1>1, <1>2

LEMMA PowerStep ==
  ASSUME IInv, PowerLoss
  PROVE  IInv'
<1>a. /\ TypeOK /\ InvPlace /\ InvCount /\ InvHeld /\ InvData
      /\ InvLinked /\ InvBlobs /\ InvStored /\ InvTemporary
  BY DEF IInv
<1>b. /\ \A r \in Runs : pc'[r] = IF Active(r) THEN "ended" ELSE pc[r]
      /\ \A r \in Runs : result'[r] = IF Active(r) THEN "killed" ELSE result[r]
      /\ \A r \in Runs : pc'[r] \in {"idle", "ended"}
      /\ \A n \in Names : entry'[n] = entry[n] \/ entry'[n] = NoFile \/ Back(n)
      /\ \A f \in Files : f \in synced => data'[f] = data[f]
      /\ synced' = synced /\ kind' = kind /\ pid' = pid /\ lost' = TRUE
      /\ UNCHANGED memory
  BY LossOfNames DEF PowerLoss, Active
<1>c. ASSUME NEW n \in Names, NEW q \in Runs, NEW k \in Kinds, entry'[n] = File(q, k), entry[n] # File(q, k)
      PROVE  n = temporary[q][k] /\ n \in Temporaries /\ n \notin FinalNames /\ pc[q] # "idle"
  <2>1. Back(n)
    BY <1>b, <1>c, FileFacts
  <2>2. n = temporary[q][k] /\ n # NoName
    BY <1>c, <2>1, FileFacts DEF Back
  <2>3. n \in Temporaries
    BY <1>a, <2>2 DEF TypeOK
  <2> QED
    BY <1>a, <2>2, <2>3, NameFacts DEF InvPlace, Place
<1>1. TypeOK'
  <2>1. entry' \in [Names -> Files \cup {NoFile}]
    <3>1. ASSUME NEW n \in Names PROVE entry'[n] \in Files \cup {NoFile}
      <4>1. entry[n] \in Files \cup {NoFile}
        BY <1>a DEF TypeOK
      <4>2. Back(n) => entry'[n] \in Files
        BY FileFacts DEF Back
      <4> QED
        BY <1>b, <4>1, <4>2
    <3> QED
      BY <3>1, LossOfNames
  <2>2. data' \in [Files -> Data]
    <3>1. data' = [f \in Files |-> IF f \in synced \/ data[f] = Empty THEN data[f] ELSE Partial]
      BY DEF PowerLoss
    <3> QED
      BY <1>a, <3>1, ContentFacts DEF TypeOK
  <2>3. pc' \in [Runs -> Steps] /\ result' \in [Runs -> {"none", "stored", "recovery", "error", "killed"}]
    <3>1. /\ pc' = [r \in Runs |-> IF Active(r) THEN "ended" ELSE pc[r]]
          /\ result' = [r \in Runs |-> IF Active(r) THEN "killed" ELSE result[r]]
      BY DEF PowerLoss
    <3> QED
      BY <1>a, <3>1 DEF TypeOK, Steps
  <2>4. synced' \in SUBSET Files /\ kind' \in [Runs -> Kinds] /\ pid' \in [Runs -> Pids] /\ lost' \in BOOLEAN
    BY <1>a, <1>b DEF TypeOK
  <2>5. TypeMemory'
    BY <1>a, <1>b, TypeParts DEF TypeMemory, memory
  <2> QED
    BY <2>1, <2>2, <2>3, <2>4, <2>5 DEF TypeOK, TypeMemory
<1>2. InvPlace'
  <2> SUFFICES ASSUME NEW r \in Runs PROVE Place(r)'
    BY DEF InvPlace
  <2>1. Place(r) /\ pc'[r] \in {"idle", "ended"} /\ (pc'[r] = "idle" => pc[r] = "idle" /\ result'[r] = result[r])
    BY <1>a, <1>b DEF InvPlace, Active
  <2> QED
    BY <1>b, <2>1 DEF Place, memory, BlobSteps, JsonSteps
<1>3. InvCount'
  <2> SUFFICES ASSUME NEW r \in Runs PROVE Count(r)'
    BY DEF InvCount
  <2>1. Count(r) /\ pc'[r] \in {"idle", "ended"} /\ (pc'[r] = "idle" => pc[r] = "idle")
    BY <1>a, <1>b DEF InvCount, Active
  <2> QED
    BY <1>b, <2>1 DEF Count, memory
<1>4. InvHeld'
  BY <1>b DEF InvHeld, Held, BlobSteps, JsonSteps
<1>5. InvData'
  <2>1. ASSUME NEW r \in Runs PROVE Datum(r)'
    <3>1. Datum(r) /\ \A s \in Logs : File(r, s) \in Files
      BY <1>a, FileFacts DEF InvData, Logs, Kinds
    <3>2. \A s \in Logs : digest[r][s] # Empty =>
            data'[File(r, s)] = digest[r][s] /\ File(r, s) \in synced
      BY <1>b, <3>1 DEF Datum
    <3>3. \A f \in Files : data[f] = Empty => data'[f] = Empty
      BY DEF PowerLoss
    <3>4. pc'[r] # "ended" \/ kind[r] \in Json => pc[r] # "ended" \/ kind[r] \in Json
      BY <1>b DEF Active
    <3>5. pc'[r] # "ended" \/ kind[r] \in Json =>
            \A s \in Logs : digest[r][s] = Empty => data'[File(r, s)] = Empty
      BY <3>1, <3>3, <3>4 DEF Datum
    <3> QED
      BY <1>b, <3>2, <3>5 DEF Datum, memory, File
  <2> QED
    BY <1>a, <1>b, <2>1 DEF InvData, OldFile
<1>6. InvLinked'
  <2> SUFFICES ASSUME NEW n \in FinalNames, NEW q \in Runs, NEW k \in Kinds, entry'[n] = File(q, k)
               PROVE  Settled(q, k)' /\ <<n, data'[File(q, k)]>> \in Fits /\ File(q, k) \in synced'
    BY DEF InvLinked, File
  <2>1. n \in Names /\ File(q, k) # NoFile /\ File(q, k) \in Files
    BY NameFacts, FileFacts
  <2>2. entry[n] = File(q, k)
    BY <1>c, <2>1
  <2>3. Settled(q, k) /\ <<n, data[File(q, k)]>> \in Fits /\ File(q, k) \in synced
    BY <1>a, <2>2 DEF InvLinked
  <2>4. Settled(q, k)'
    BY <1>b, <2>3 DEF Settled, memory, Active
  <2> QED
    BY <1>b, <2>1, <2>3, <2>4
<1>7. InvBlobs'
  BY <1>b DEF InvBlobs, Blobs, BlobSteps, Active
<1>8. InvStored'
  <2> SUFFICES ASSUME NEW r \in Runs PROVE Kept(r)'
    BY DEF InvStored
  <2>1. Kept(r) /\ pc'[r] \in {"idle", "ended"} /\ result'[r] \in {"killed", result[r]}
    BY <1>a, <1>b DEF InvStored
  <2> QED
    BY <1>b, <2>1 DEF Kept, Active
<1>9. InvTemporary'
  <2> SUFFICES ASSUME NEW n \in LogTemporaries, NEW q \in Runs, NEW s \in Logs, entry'[n] = File(q, s)
               PROVE  n = temporary'[q][s] /\ Left(q, s)'
    BY DEF InvTemporary, File
  <2>1. n \in Names /\ s \in Kinds
    BY NameFacts DEF Temporaries, Kinds
  <2>2. CASE entry[n] # File(q, s)
    <3>1. n = temporary[q][s] /\ pc'[q] = "ended"
      BY <1>b, <1>c, <2>1, <2>2 DEF Active
    <3> QED
      BY <1>b, <3>1 DEF Left, memory
  <2>3. CASE entry[n] = File(q, s)
    <3>1. n = temporary[q][s] /\ Left(q, s)
      BY <1>a, <2>3 DEF InvTemporary
    <3>2. Held(q, s) => Active(q)
      BY DEF Held, Active, BlobSteps, JsonSteps
    <3>3. Unspawned(q) => Unspawned(q)' \/ Active(q)
      BY <1>b DEF Unspawned, Active, memory
    <3>4. pc[q] = "ended" => pc'[q] = "ended"
      BY <1>b
    <3> QED
      BY <1>b, <3>1, <3>2, <3>3, <3>4 DEF Left, memory
  <2> QED
    BY <2>2, <2>3
<1>10. ReceiptsHaveLogs'
  BY <1>b DEF ReceiptsHaveLogs
<1> QED
  BY <1>1, <1>2, <1>3, <1>4, <1>5, <1>6, <1>7, <1>8, <1>9, <1>10 DEF IInv

LEMMA IdleStep ==
  ASSUME IInv, UNCHANGED vars
  PROVE  IInv'
<1> USE DEF vars
<1>1. TypeOK' /\ InvPlace' /\ InvCount' /\ InvHeld'
  BY DEF IInv, TypeOK, InvPlace, Place, InvCount, Count, InvHeld, Held
<1>2. InvData' /\ InvLinked'
  BY DEF IInv, InvData, Datum, InvLinked, Settled
<1>3. InvBlobs' /\ InvStored'
  BY DEF IInv, InvBlobs, Blobs, HasBlob, BoundTo, Holds, Target, Active, InvStored, Kept, HasReceipt,
     HasCopy
<1>4. InvTemporary' /\ ReceiptsHaveLogs'
  BY DEF IInv, InvTemporary, Left, Unspawned, Held, ReceiptsHaveLogs, ByRun, Holds, verify_blob, BoundTo
<1> QED
  BY <1>1, <1>2, <1>3, <1>4 DEF IInv

LEMMA InitInv ==
  ASSUME Init
  PROVE  IInv
<1>1. TypeOK
  <2>1. entry \in [Names -> Files \cup {NoFile}]
    <3>1. PICK found \in SUBSET Existing :
            entry = [n \in Names |-> IF n \in found THEN OldFile(n) ELSE NoFile]
      BY DEF Init
    <3> QED
      BY <3>1, FileFacts
  <2>2. data \in [Files -> Data]
    <3>1. PICK sound \in SUBSET {n \in Existing : n[1] = "blob"} :
            data = [f \in Files |-> IF f[1] # "old" THEN Empty
                                    ELSE IF f[2] \in sound THEN Log(f[2][2]) ELSE Damaged]
      BY DEF Init
    <3>2. ASSUME NEW n \in Existing, n[1] = "blob" PROVE n[2] \in Contents
      <4>1. n \in Names
        BY ExistingAssumption
      <4>2. PICK c \in Contents : n = BlobName(c)
        BY <3>2, <4>1 DEF Names, FinalNames, JsonTargets, ReceiptName, OutName, BlobName, Temporaries,
           LogTemporaries, JsonTemporaries
      <4> QED
        BY <4>2 DEF BlobName
    <3>3. ASSUME NEW f \in Files PROVE data[f] \in Data
      <4>1. f[2] \in sound => Log(f[2][2]) \in Data
        BY <3>2, ContentFacts
      <4> QED
        BY <3>1, <4>1, ContentFacts
    <3> QED
      BY <3>1, <3>3
  <2>3. synced \in SUBSET Files
    BY FileFacts DEF Init
  <2>4. TypeRun
    BY DEF Init, TypeRun, Steps, Kinds, Logs
  <2>5. sequence \in [Runs -> [log : Sequence, json : Sequence]] /\ tries \in [Runs -> 0..(MaxAttempts - 1)]
    BY AttemptsAssumption DEF Init, Sequence
  <2>6. TypeMemory
    BY <2>5 DEF Init, TypeMemory
  <2> QED
    BY <2>1, <2>2, <2>3, <2>4, <2>6, TypeParts DEF TypeDisk
<1>2. \A r \in Runs : pc[r] = "idle" /\ result[r] = "none" /\ kind[r] = "stdout" /\ tries[r] = 0
  BY DEF Init
<1>3. \A r \in Runs : sequence[r].log = 0 /\ sequence[r].json = 0
  BY DEF Init
<1>4. \A r \in Runs : \A s \in Logs : digest[r][s] = Empty
  BY DEF Init
<1>5. \A n \in Names : entry[n] = NoFile \/ \E m \in Existing : entry[n] = OldFile(m)
  BY DEF Init
<1>6. \A n \in Names : \A r \in Runs : \A k \in Kinds : entry[n] # File(r, k)
  BY <1>5, FileFacts
<1>11. \A r \in Runs : \A k \in Kinds : temporary[r][k] = NoName /\ data[File(r, k)] = Empty
  <2>1. \A r \in Runs : \A k \in Kinds : temporary[r][k] = NoName
    BY DEF Init
  <2>2. \A f \in Files : f[1] # "old" => data[f] = Empty
    BY DEF Init
  <2>3. \A r \in Runs : \A k \in Kinds : File(r, k)[1] # "old"
    BY DEF File, Kinds, Logs
  <2> QED
    BY <2>1, <2>2, <2>3, FileFacts
<1>7. InvPlace /\ InvCount /\ InvHeld
  BY <1>2, <1>3, <1>11 DEF InvPlace, Place, InvCount, Count, InvHeld, Held, BlobSteps, JsonSteps, Json
<1>8. InvData /\ InvBlobs /\ InvStored
  BY <1>2, <1>4, <1>11 DEF Init, Kinds, InvData, Datum, InvBlobs, Blobs, BlobSteps, Json, Active, InvStored, Kept
<1>9. InvLinked /\ InvTemporary
  BY <1>6, NameFacts DEF InvLinked, InvTemporary, Temporaries, Kinds
<1>10. ReceiptsHaveLogs
  <2>1. \A n \in JsonTargets : n \in Names
    BY NameFacts DEF FinalNames
  <2> QED
    BY <1>5, <2>1 DEF ReceiptsHaveLogs, ByRun, OldFile
<1> QED
  BY <1>1, <1>7, <1>8, <1>9, <1>10 DEF IInv

LEMMA NextStep ==
  ASSUME IInv, [Next]_vars
  PROVE  IInv'
<1>1. CASE \E r \in Runs : Run(r) \/ Kill(r)
  BY <1>1, MovedStep DEF Moved
<1>2. CASE PowerLoss
  BY <1>2, PowerStep
<1>3. CASE Finished \/ UNCHANGED vars
  BY <1>3, IdleStep DEF Finished
<1> QED
  BY <1>1, <1>2, <1>3 DEF Next

\* The inductive invariant holds of every reachable state.
THEOREM Invariance == Spec => []IInv
<1>1. Init => IInv
  BY InitInv
<1>2. IInv /\ [Next]_vars => IInv'
  BY NextStep
<1> QED
  BY <1>1, <1>2, PTL DEF Spec

-----------------------------------------------------------------------------
(* The theorems.                                                           *)

\* Every variable stays in its type: no run tries more than MaxAttempts names
\* for a file, and the two counters of a process stay below twice that.
THEOREM TypeCorrect == Spec => []TypeOK
<1>1. IInv => TypeOK
  BY DEF IInv
<1> QED
  BY <1>1, Invariance, PTL

\* A final name that a run bound is bound to the whole of what belongs there,
\* and its data is on disk: hard_link comes after the last write and the sync.
THEOREM NamesAreTrue == Spec => []NamesTellTruth
<1>1. ASSUME IInv PROVE NamesTellTruth
  <2> SUFFICES ASSUME NEW n \in FinalNames, ByRun(n)
               PROVE  <<n, Holds(n)>> \in Fits /\ entry[n] \in synced
    BY DEF NamesTellTruth
  <2>1. entry[n] \in Files
    BY <1>1, NameFacts DEF IInv, TypeOK, ByRun
  <2>2. PICK q \in Runs, k \in Kinds : entry[n] = File(q, k)
    BY <2>1, FileFacts DEF ByRun, OldFile
  <2> QED
    BY <1>1, <2>2 DEF IInv, InvLinked, Holds
<1> QED
  BY <1>1, Invariance, PTL

\* Every receipt a run bound to a name verifies: both blobs it refers to are
\* in the store, intact, as long as the power is not lost.
THEOREM ReceiptsKeepLogs == Spec => []ReceiptsHaveLogs
<1>1. IInv => ReceiptsHaveLogs
  BY DEF IInv
<1> QED
  BY <1>1, Invariance, PTL

\* What a run reports of its receipt and of its copy is so, and of the runs
\* with the same output path at most one reports that it published there.
THEOREM ResultsAreTrue == Spec => []ResultTells
<1>1. ASSUME IInv PROVE ResultTells
  <2> SUFFICES ASSUME ~lost PROVE ResultTells
    BY DEF ResultTells
  <2>1. \A r \in Runs : Kept(r)
    BY <1>1 DEF IInv, InvStored
  <2>2. ASSUME NEW r \in Runs, result[r] \in {"stored", "recovery"}
        PROVE  BoundTo(ReceiptName(document[r]), document[r])
    BY <2>1, <2>2 DEF Kept, HasReceipt
  <2>3. ASSUME NEW r \in Runs, result[r] = "stored", r \in Publishers
        PROVE  entry[OutName] = File(r, "out") /\ BoundTo(OutName, document[r])
    BY <2>1, <2>3, FileFacts DEF Kept, HasCopy, BoundTo, Holds, Kinds
  <2>4. ASSUME NEW q \in Publishers, NEW r \in Publishers, result[q] = "stored", result[r] = "stored"
        PROVE  q = r
    <3>1. q \in Runs /\ r \in Runs /\ "out" \in Kinds
      BY PublishersAssumption DEF Kinds
    <3>2. File(q, "out") = File(r, "out")
      BY <2>3, <2>4, <3>1
    <3> QED
      BY <3>1, <3>2, FileFacts
  <2> QED
    BY <2>2, <2>3, <2>4 DEF ResultTells
<1> QED
  BY <1>1, Invariance, PTL

\* What a run that has stored its receipt may have left behind of its temporary
\* logs is empty: the capture files of a command that could not be spawned.
THEOREM NoLogRemains == Spec => []NoLogLeftBehind
<1>1. ASSUME IInv PROVE NoLogLeftBehind
  <2> SUFFICES ASSUME ~lost, NEW r \in Runs, result[r] \in {"stored", "recovery"},
                      NEW n \in LogTemporaries, NEW s \in Logs, entry[n] = File(r, s)
               PROVE  document[r].logs = NoLogs /\ data[File(r, s)] = Empty
    BY DEF NoLogLeftBehind
  <2>1. Left(r, s)
    BY <1>1 DEF IInv, InvTemporary
  <2>2. pc[r] = "ended" /\ kind[r] \in Json
    BY <1>1 DEF IInv, InvPlace, Place, InvStored, Kept
  <2>3. Unspawned(r)
    BY <2>1, <2>2 DEF Left, Held, BlobSteps, JsonSteps
  <2>4. document[r].logs = NoLogs
    BY <1>1, <2>2, <2>3 DEF Unspawned, IInv, InvPlace, Place
  <2>5. digest[r][s] = Empty
    BY <2>3, ReferenceFacts DEF Unspawned
  <2> QED
    BY <1>1, <2>2, <2>4, <2>5 DEF IInv, InvData, Datum
<1> QED
  BY <1>1, Invariance, PTL

\* Evidence that has its final name is never replaced and never written again.
THEOREM EvidenceStays == Spec => CommittedStays
<1> DEFINE Stays == ~lost' => \A n \in FinalNames :
      entry[n] # NoFile => entry'[n] = entry[n] /\ data'[entry[n]] = data[entry[n]]
<1>1. ASSUME IInv, [Next]_vars PROVE [Stays]_vars
  <2>1. CASE \E r \in Runs : Run(r) \/ Kill(r)
    <3>1. PICK r \in Runs : Moved(r)
      BY <2>1 DEF Moved
    <3> QED
      BY <1>1, <3>1, FinalStep DEF IInv, FinalsStay
  <2>2. CASE PowerLoss
    BY <2>2 DEF PowerLoss
  <2>3. CASE Finished \/ UNCHANGED vars
    BY <2>3 DEF Finished
  <2> QED
    BY <1>1, <2>1, <2>2, <2>3 DEF Next
<1>2. IInv /\ [Next]_vars => [Stays]_vars
  BY <1>1
<1> QED
  BY <1>2, Invariance, PTL DEF Spec, CommittedStays

\* What a reader of a final name finds.
Found(n) == IF entry[n] = NoFile THEN Empty ELSE Holds(n)
AllFound == [n \in FinalNames |-> Found(n)]

\* The link publishes one name; the other steps of a run publish nothing.
LEMMA RunRefines ==
  ASSUME IInv, NEW r \in Runs, Moved(r)
  PROVE  \/ AllFound' = AllFound
         \/ \E n \in FinalNames : \E x :
              /\ AllFound[n] = Empty /\ <<n, x>> \in Fits
              /\ AllFound' = [AllFound EXCEPT ![n] = x]
<1>a. TypeOK /\ InvPlace /\ InvCount /\ InvHeld /\ InvData /\ InvLinked
  BY DEF IInv
<1>1. \A n \in FinalNames : entry[n] # NoFile => Found(n)' = Found(n)
  BY <1>a, FinalStep DEF FinalsStay, Found, Holds
<1>2. \A n \in FinalNames : entry'[n] = entry[n] => Found(n)' = Found(n)
  BY <1>1 DEF Found
<1>3. CASE \A n \in FinalNames : entry'[n] = entry[n]
  BY <1>2, <1>3 DEF AllFound
<1>4. ASSUME NEW n \in FinalNames, entry'[n] # entry[n]
      PROVE  \E x : /\ AllFound[n] = Empty /\ <<n, x>> \in Fits
                    /\ AllFound' = [AllFound EXCEPT ![n] = x]
  <2>1. /\ entry[n] = NoFile /\ entry' = [entry EXCEPT ![n] = File(r, kind[r])]
        /\ entry'[n] = File(r, kind[r]) /\ kind[r] \in Kinds
    BY <1>a, <1>4, BoundBy DEF TypeOK
  <2>2. AllFound[n] = Empty
    BY <2>1 DEF AllFound, Found
  <2>3. Found(n)' = data'[File(r, kind[r])]
    BY <2>1, FileFacts DEF Found, Holds
  <2>4. <<n, data'[File(r, kind[r])]>> \in Fits
    <3>1. InvLinked'
      BY <1>a, LinkedStep
    <3> QED
      BY <2>1, <3>1 DEF InvLinked, File
  <2>5. \A m \in FinalNames : m # n => Found(m)' = Found(m)
    <3>1. FinalNames \subseteq Names
      BY NameFacts
    <3>2. \A m \in FinalNames : m # n => entry'[m] = entry[m]
      BY <1>a, <2>1, <3>1 DEF TypeOK
    <3> QED
      BY <1>2, <3>2
  <2>6. AllFound' = [AllFound EXCEPT ![n] = data'[File(r, kind[r])]]
    BY <2>3, <2>5 DEF AllFound
  <2> QED
    BY <2>2, <2>4, <2>6
<1> QED
  BY <1>3, <1>4

\* The power loss takes names, and what is left under a name is whole.
LEMMA PowerRefines ==
  ASSUME IInv, PowerLoss
  PROVE  MayLosePower /\ \A n \in FinalNames : Found(n)' \in {Found(n), Empty}
<1>a. TypeOK /\ InvData /\ InvLinked
  BY DEF IInv
<1> SUFFICES ASSUME NEW n \in FinalNames PROVE Found(n)' \in {Found(n), Empty}
  BY DEF PowerLoss
<1>1. n \in Names
  BY NameFacts
<1>2. CASE entry'[n] = NoFile
  BY <1>2 DEF Found
<1>3. CASE entry'[n] # NoFile
  <2>1. entry'[n] = entry[n]
    <3>1. ~Back(n)
      <4>1. n \notin Temporaries /\ n # NoName
        BY <1>1, NameFacts
      <4> QED
        BY <1>a, <4>1 DEF Back, TypeOK
    <3> QED
      BY <1>1, <1>3, <3>1, LossOfNames
  <2>2. entry[n] \in Files
    BY <1>a, <1>1, <1>3, <2>1 DEF TypeOK
  <2>3. entry[n] \in synced
    <3>1. CASE \E q \in Runs : \E k \in Kinds : entry[n] = File(q, k)
      BY <1>a, <3>1 DEF InvLinked
    <3>2. CASE \E m \in Existing : entry[n] = OldFile(m)
      BY <1>a, <3>2 DEF InvData
    <3> QED
      BY <2>2, <3>1, <3>2, FileFacts
  <2>4. data'[entry[n]] = data[entry[n]]
    BY <2>2, <2>3 DEF PowerLoss
  <2> QED
    BY <1>3, <2>1, <2>4 DEF Found, Holds
<1> QED
  BY <1>2, <1>3

\* The store implements the write-once map: the abstract Publish is the link,
\* the abstract Lose the power loss, and every other step is invisible.
THEOREM ImplementsWriteOnce == Spec => WriteOnceSpec
<1>1. Init => Store!Init
  BY DEF Store!Init
<1>2. ASSUME IInv, [Next]_vars
      PROVE  [Store!Next]_[n \in FinalNames |-> IF entry[n] = NoFile THEN Empty ELSE Holds(n)]
  <2>a. AllFound = [n \in FinalNames |-> IF entry[n] = NoFile THEN Empty ELSE Holds(n)]
    BY DEF AllFound, Found
  <2>b. AllFound' = [n \in FinalNames |-> IF entry[n] = NoFile THEN Empty ELSE Holds(n)]'
    BY DEF AllFound, Found
  <2>1. CASE \E r \in Runs : Run(r) \/ Kill(r)
    <3>1. PICK r \in Runs : Moved(r)
      BY <2>1 DEF Moved
    <3>2. CASE AllFound' = AllFound
      BY <2>a, <2>b, <3>2
    <3>3. ASSUME NEW n \in FinalNames, NEW x, AllFound[n] = Empty, <<n, x>> \in Fits,
                 AllFound' = [AllFound EXCEPT ![n] = x]
          PROVE  Store!Publish
      <4>1. x \in {fit[2] : fit \in {f \in Fits : f[1] = n}}
        BY <3>3
      <4> QED
        BY <2>a, <2>b, <3>3, <4>1 DEF Store!Publish
    <3> QED
      BY <1>2, <3>1, <3>2, <3>3, <2>a, <2>b, RunRefines DEF Store!Next
  <2>2. CASE PowerLoss
    <3>1. MayLosePower /\ \A n \in FinalNames : Found(n)' \in {Found(n), Empty}
      BY <1>2, <2>2, PowerRefines
    <3>2. Store!Lose
      BY <3>1 DEF Store!Lose, Found
    <3> QED
      BY <3>2 DEF Store!Next
  <2>3. CASE Finished \/ UNCHANGED vars
    BY <2>3 DEF Finished, vars, Holds
  <2> QED
    BY <1>2, <2>1, <2>2, <2>3 DEF Next
<1>3. IInv /\ [Next]_vars =>
        [Store!Next]_[n \in FinalNames |-> IF entry[n] = NoFile THEN Empty ELSE Holds(n)]
  BY <1>2
<1> QED
  BY <1>1, <1>3, Invariance, PTL DEF Spec, WriteOnceSpec, Store!Spec
=============================================================================
