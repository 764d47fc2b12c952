----------------------------- MODULE EvidenceStore -----------------------------
(***************************************************************************)
(* The evidence store on disk, and the runs that publish into it at the    *)
(* same time: create_capture_file and store_blob (src/src/store.rs) for    *)
(* the two logs of a check, write_receipt and write_json_atomic            *)
(* (src/src/source.rs) for the receipt and its portable copy.              *)
(*                                                                         *)
(* The file system is modelled as names bound to files: hard_link binds a  *)
(* second name to a file, remove_file unbinds one, create_new fails when   *)
(* the name is bound.  A run may be killed anywhere and leave what it      *)
(* made; another run may have, at once or later, the same process id.  A   *)
(* power loss may take names and unsynced data away, or undo a removal.    *)
(*                                                                         *)
(* A file's content is modelled by what it is: a log, a receipt, a part of *)
(* one, or damaged.  Digests are injective, so a log is its own digest and *)
(* a receipt its own id.  One check per run stands for all of them; when   *)
(* its command cannot be spawned, the receipt refers to no log.            *)
(***************************************************************************)
EXTENDS Naturals, FiniteSets

CONSTANTS
  Runs,          \* invocations of `taskattest run` on this store
  Publishers,    \* those with --receipt-out, all with the same path
  Pids,          \* process ids a run may get; runs may share one
  Contents,      \* contents a log may have
  Stamps,        \* what else distinguishes receipts: times, durations, ...
  Existing,      \* names that may be bound before the first run
  MaxAttempts,   \* names tried for one temporary file (100 in the code)
  MayLosePower,  \* may the power be lost?
  MaxStarted     \* bound: runs that have started when the power is lost

ASSUME PublishersAssumption == Publishers \subseteq Runs
ASSUME AttemptsAssumption == MaxAttempts \in Nat \ {0}
ASSUME PowerAssumption == MayLosePower \in BOOLEAN /\ MaxStarted \in Nat

Logs == {"stdout", "stderr"}
Kinds == Logs \cup {"receipt", "out"}

\* What a file may hold.
Empty == [is |-> "empty"]
Partial == [is |-> "partial"]
Damaged == [is |-> "damaged"]
Log(c) == [is |-> "log", content |-> c]
NoLogs == [s \in Logs |-> Empty]
References == [Logs -> {Log(c) : c \in Contents}] \cup {NoLogs}
Documents == [is : {"receipt"}, logs : References, stamp : Stamps]
Data == {Empty, Partial, Damaged} \cup {Log(c) : c \in Contents} \cup Documents
NoDocument == Empty

\* Names.  Temporary names carry the process id and a counter of the process;
\* that of a JSON file is next to its target and carries the target's name.
BlobName(c) == <<"blob", c>>
ReceiptName(d) == <<"receipt", d>>
OutName == <<"out">>
JsonTargets == {ReceiptName(d) : d \in Documents} \cup {OutName}
FinalNames == {BlobName(c) : c \in Contents} \cup JsonTargets
Sequence == 0..(2 * MaxAttempts)
LogTemporaries == {<<"tmp", p, n, s>> : p \in Pids, n \in Sequence, s \in Logs}
JsonTemporaries == {<<"json", t, p, n>> : t \in JsonTargets, p \in Pids, n \in Sequence}
Temporaries == LogTemporaries \cup JsonTemporaries
Names == FinalNames \cup Temporaries
NoName == <<"none">>

ASSUME ExistingAssumption == Existing \subseteq Names

\* Files are identified by who made them and for what.
File(r, k) == <<k, r>>
OldFile(n) == <<"old", n>>
Files == {File(r, k) : r \in Runs, k \in Kinds} \cup {OldFile(n) : n \in Existing}
NoFile == <<"none">>

\* The pairs of a final name and a content that belongs there.
Fits ==
  {<<BlobName(c), Log(c)>> : c \in Contents}
    \cup {<<ReceiptName(d), d>> : d \in Documents}
    \cup {<<OutName, d>> : d \in Documents}

Steps == {"idle", "create", "capture", "look", "link", "recheck", "compare",
          "remove", "build", "exists", "preflight", "write", "sync", "publish",
          "cleanup", "discard", "ended"}

VARIABLES
  entry,       \* name -> file, or NoFile
  data,        \* file -> what it holds
  synced,      \* files whose data is on disk
  pc,          \* run -> step
  kind,        \* run -> what it is publishing
  pid,         \* run -> process id
  sequence,    \* run -> [log, json]: TEMPORARY_SEQUENCE, JSON_TEMPORARY_SEQUENCE
  tries,       \* run -> names already tried for this temporary file
  temporary,   \* run -> kind -> path of its temporary file, or NoName
  open,        \* run -> kind -> file it writes to, or NoFile
  digest,      \* run -> log -> content its capture thread hashed, or Empty
  document,    \* run -> its receipt, or NoDocument
  result,      \* run -> "none", "stored", "recovery", "error" or "killed"
  lost         \* the power was lost

disk == <<entry, data, synced>>
memory == <<sequence, tries, temporary, open, digest, document>>
vars == <<entry, data, synced, pc, kind, pid, sequence, tries, temporary, open,
          digest, document, result, lost>>

TypeOK ==
  /\ entry \in [Names -> Files \cup {NoFile}]
  /\ data \in [Files -> Data]
  /\ synced \in SUBSET Files
  /\ pc \in [Runs -> Steps]
  /\ kind \in [Runs -> Kinds]
  /\ pid \in [Runs -> Pids]
  /\ sequence \in [Runs -> [log : Sequence, json : Sequence]]
  /\ tries \in [Runs -> 0..(MaxAttempts - 1)]
  /\ temporary \in [Runs -> [Kinds -> Temporaries \cup {NoName}]]
  /\ open \in [Runs -> [Kinds -> Files \cup {NoFile}]]
  /\ digest \in [Runs -> [Logs -> {Log(c) : c \in Contents} \cup {Empty}]]
  /\ document \in [Runs -> Documents \cup {NoDocument}]
  /\ result \in [Runs -> {"none", "stored", "recovery", "error", "killed"}]
  /\ lost \in BOOLEAN

\* The store may hold intact or damaged blobs, temporaries of killed runs, and
\* somebody else's file at a receipt's name or at the output path.
Init ==
  /\ \E found \in SUBSET Existing :
       /\ entry = [n \in Names |-> IF n \in found THEN OldFile(n) ELSE NoFile]
       /\ \E sound \in SUBSET {n \in found : n[1] = "blob"} :
            data = [f \in Files |-> IF f[1] # "old" THEN Empty
                                    ELSE IF f[2] \in sound THEN Log(f[2][2]) ELSE Damaged]
  /\ synced = {OldFile(n) : n \in Existing}
  /\ pc = [r \in Runs |-> "idle"]
  /\ kind = [r \in Runs |-> "stdout"]
  /\ pid \in [Runs -> Pids]
  /\ sequence = [r \in Runs |-> [log |-> 0, json |-> 0]]
  /\ tries = [r \in Runs |-> 0]
  /\ temporary = [r \in Runs |-> [k \in Kinds |-> NoName]]
  /\ open = [r \in Runs |-> [k \in Kinds |-> NoFile]]
  /\ digest = [r \in Runs |-> [s \in Logs |-> Empty]]
  /\ document = [r \in Runs |-> NoDocument]
  /\ result = [r \in Runs |-> "none"]
  /\ lost = FALSE

-----------------------------------------------------------------------------
(* Steps of a run r.                                                       *)

Go(r, next) ==
  pc' = [pc EXCEPT ![r] = next] /\ UNCHANGED <<kind, result>>
Turn(r, next, k) ==
  /\ pc' = [pc EXCEPT ![r] = next] /\ kind' = [kind EXCEPT ![r] = k]
  /\ UNCHANGED result
End(r, how) ==
  /\ pc' = [pc EXCEPT ![r] = "ended"] /\ result' = [result EXCEPT ![r] = how]
  /\ UNCHANGED kind

\* The run's error: once the receipt is stored it is the recovery document.
Fail(r) == End(r, IF kind[r] = "out" THEN "recovery" ELSE "error")

Target(r) ==
  IF kind[r] \in Logs THEN BlobName(digest[r][kind[r]].content)
  ELSE IF kind[r] = "receipt" THEN ReceiptName(document[r])
  ELSE OutName

TemporaryName(r) ==
  IF kind[r] \in Logs
    THEN <<"tmp", pid[r], sequence[r].log, kind[r]>>
    ELSE <<"json", Target(r), pid[r], sequence[r].json>>

CountUp(r) ==
  sequence' = IF kind[r] \in Logs THEN [sequence EXCEPT ![r].log = @ + 1]
              ELSE [sequence EXCEPT ![r].json = @ + 1]

Bind(name, file) == entry' = [entry EXCEPT ![name] = file]

\* remove_file of the temporary name of what r is publishing.
RemoveTemporary(r) == Bind(temporary[r][kind[r]], NoFile)

Start(r) ==
  /\ pc[r] = "idle"
  /\ Turn(r, "create", "stdout")
  /\ UNCHANGED <<disk, pid, memory, lost>>

\* Mutant: the file is created without create_new, and truncated if it exists.
CreateTruncating(r) ==
  /\ pc[r] = "create"
  /\ LET name == TemporaryName(r)
         file == IF entry[name] = NoFile THEN File(r, kind[r]) ELSE entry[name]
     IN  /\ Bind(name, file)
         /\ data' = [data EXCEPT ![file] = Empty]
         /\ open' = [open EXCEPT ![r][kind[r]] = file]
         /\ temporary' = [temporary EXCEPT ![r][kind[r]] = name]
  /\ CountUp(r)
  /\ IF kind[r] = "stdout" THEN Turn(r, "create", "stderr")
     ELSE Go(r, IF kind[r] = "stderr" THEN "capture" ELSE "write")
  /\ UNCHANGED <<synced, pid, tries, digest, document, lost>>

\* OpenOptions::create_new at the next temporary name.
Create(r) ==
  /\ pc[r] = "create"
  /\ LET name == TemporaryName(r) IN
     /\ entry[name] = NoFile
     /\ Bind(name, File(r, kind[r]))
     /\ temporary' = [temporary EXCEPT ![r][kind[r]] = name]
  /\ open' = [open EXCEPT ![r][kind[r]] = File(r, kind[r])]
  /\ tries' = [tries EXCEPT ![r] = 0]
  /\ CountUp(r)
  /\ IF kind[r] = "stdout" THEN Turn(r, "create", "stderr")
     ELSE Go(r, IF kind[r] = "stderr" THEN "capture" ELSE "write")
  /\ UNCHANGED <<data, synced, pid, digest, document, lost>>

\* Mutant: one name more is tried than the loop has attempts.
CreateAgainOnceMore(r) ==
  /\ pc[r] = "create"
  /\ entry[TemporaryName(r)] # NoFile
  /\ tries[r] < MaxAttempts
  /\ tries' = [tries EXCEPT ![r] = @ + 1]
  /\ CountUp(r)
  /\ Go(r, "create")
  /\ UNCHANGED <<disk, pid, temporary, open, digest, document, lost>>

\* The name is taken: the next one is tried.
CreateAgain(r) ==
  /\ pc[r] = "create"
  /\ entry[TemporaryName(r)] # NoFile
  /\ tries[r] < MaxAttempts - 1
  /\ tries' = [tries EXCEPT ![r] = @ + 1]
  /\ CountUp(r)
  /\ Go(r, "create")
  /\ UNCHANGED <<disk, pid, temporary, open, digest, document, lost>>

\* Every name tried is taken, or the file cannot be created.  When it is the
\* second capture file, the first is removed if possible.
CreateFails(r) ==
  /\ pc[r] = "create"
  /\ Fail(r)
  /\ IF kind[r] = "stderr"
       THEN entry' \in {entry, [entry EXCEPT ![temporary[r]["stdout"]] = NoFile]}
       ELSE UNCHANGED entry
  /\ UNCHANGED <<data, synced, pid, memory, lost>>

\* Mutant: the capture thread does not sync the log.
CaptureLogUnsynced(r, s) ==
  /\ pc[r] = "capture" /\ digest[r][s] = Empty
  /\ \E c \in Contents :
       /\ data' = [data EXCEPT ![open[r][s]] = Log(c)]
       /\ digest' = [digest EXCEPT ![r][s] = Log(c)]
  /\ IF \A other \in Logs : digest'[r][other] # Empty
       THEN Turn(r, "look", "stdout") ELSE Go(r, "capture")
  /\ UNCHANGED <<entry, synced, pid, sequence, tries, temporary, open, document, lost>>

\* capture_stream: everything the command wrote is in the file, hashed and
\* synced; the two threads end in either order.
CaptureLog(r, s) ==
  /\ pc[r] = "capture" /\ digest[r][s] = Empty
  /\ \E c \in Contents :
       /\ data' = [data EXCEPT ![open[r][s]] = Log(c)]
       /\ digest' = [digest EXCEPT ![r][s] = Log(c)]
  /\ synced' = synced \cup {open[r][s]}
  /\ IF \A other \in Logs : digest'[r][other] # Empty
       THEN Turn(r, "look", "stdout") ELSE Go(r, "capture")
  /\ UNCHANGED <<entry, pid, sequence, tries, temporary, open, document, lost>>

\* A capture thread fails and execute_check returns its error.
CaptureFails(r) ==
  /\ pc[r] = "capture"
  /\ \E s \in Logs :
       /\ digest[r][s] = Empty
       /\ data' = [data EXCEPT ![open[r][s]] = Partial]
  /\ Fail(r)
  /\ UNCHANGED <<entry, synced, pid, memory, lost>>

\* The command cannot be spawned, a result of the check like any other.  Both
\* capture files are removed, each if that succeeds: nobody looks.
SpawnFails(r) ==
  /\ pc[r] = "capture" /\ digest[r] = NoLogs
  /\ \E removed \in SUBSET Logs :
       entry' = [n \in Names |-> IF \E s \in removed : n = temporary[r][s] THEN NoFile
                                ELSE entry[n]]
  /\ Go(r, "build")
  /\ UNCHANGED <<data, synced, pid, memory, lost>>

\* Mutant: a blob that exists is taken for the log without comparing them.
LookTrusting(r) ==
  /\ pc[r] = "look"
  /\ Go(r, IF entry[Target(r)] # NoFile THEN "remove" ELSE "link")
  /\ UNCHANGED <<disk, pid, memory, lost>>

\* store_blob: does the blob exist already?
Look(r) ==
  /\ pc[r] = "look"
  /\ Go(r, IF entry[Target(r)] # NoFile THEN "compare" ELSE "link")
  /\ UNCHANGED <<disk, pid, memory, lost>>

\* hard_link binds the blob's name to the file of the temporary one.
LinkBlob(r) ==
  /\ pc[r] = "link"
  /\ \/ /\ entry[Target(r)] = NoFile
        /\ Bind(Target(r), entry[temporary[r][kind[r]]])
        /\ Go(r, "remove")
     \/ UNCHANGED entry /\ Go(r, "recheck")
  /\ UNCHANGED <<data, synced, pid, memory, lost>>

\* The link failed: because somebody else published the blob in between?
Recheck(r) ==
  /\ pc[r] = "recheck"
  /\ IF entry[Target(r)] # NoFile THEN Go(r, "compare") ELSE Fail(r)
  /\ UNCHANGED <<disk, pid, memory, lost>>

\* verify_existing_blob: length and digest of what is there; or it cannot be
\* read.
Compare(r) ==
  /\ pc[r] = "compare"
  /\ \/ data[entry[Target(r)]] = digest[r][kind[r]] /\ Go(r, "remove")
     \/ Fail(r)
  /\ UNCHANGED <<disk, pid, memory, lost>>

\* Mutant: a log that cannot be removed is left behind.
RemoveLogIgnoring(r) ==
  /\ pc[r] = "remove"
  /\ RemoveTemporary(r) \/ UNCHANGED entry
  /\ IF kind[r] = "stdout" THEN Turn(r, "look", "stderr") ELSE Go(r, "build")
  /\ UNCHANGED <<data, synced, pid, memory, lost>>

\* The temporary name goes; a failure is the run's error.
RemoveLog(r) ==
  /\ pc[r] = "remove"
  /\ \/ /\ RemoveTemporary(r)
        /\ IF kind[r] = "stdout" THEN Turn(r, "look", "stderr") ELSE Go(r, "build")
     \/ UNCHANGED entry /\ Fail(r)
  /\ UNCHANGED <<data, synced, pid, memory, lost>>

\* build_receipt, and write_receipt's bound on its size.
Build(r) ==
  /\ pc[r] = "build"
  /\ \/ /\ \E stamp \in Stamps :
             document' = [document EXCEPT ![r] =
               [is |-> "receipt", logs |-> digest[r], stamp |-> stamp]]
        /\ Turn(r, "exists", "receipt")
     \/ UNCHANGED document /\ Fail(r)
  /\ UNCHANGED <<disk, pid, sequence, tries, temporary, open, digest, lost>>

\* What follows a stored receipt: its portable copy, if one was asked for.
AfterReceipt(r) ==
  IF r \in Publishers THEN Turn(r, "preflight", "out") ELSE End(r, "stored")

\* write_receipt: a file at the receipt's path with the same digest is the
\* receipt; any other, or one that cannot be read, is an error.
Exists(r) ==
  /\ pc[r] = "exists"
  /\ \/ entry[Target(r)] = NoFile /\ Go(r, "preflight")
     \/ /\ entry[Target(r)] # NoFile
        /\ \/ data[entry[Target(r)]] = document[r] /\ AfterReceipt(r)
           \/ Fail(r)
  /\ UNCHANGED <<disk, pid, memory, lost>>

\* preflight_json_output at the start of write_json_atomic.
Preflight(r) ==
  /\ pc[r] = "preflight"
  /\ \/ entry[Target(r)] = NoFile /\ Go(r, "create")
     \/ Fail(r)
  /\ UNCHANGED <<disk, pid, memory, lost>>

\* Mutant: the file is published without being synced.
WriteJsonUnsynced(r) ==
  /\ pc[r] = "write"
  /\ data' = [data EXCEPT ![open[r][kind[r]]] = document[r]]
  /\ Go(r, "publish")
  /\ UNCHANGED <<entry, synced, pid, memory, lost>>

\* The receipt is written to the temporary file, or part of it.
WriteJson(r) ==
  /\ pc[r] = "write"
  /\ \/ data' = [data EXCEPT ![open[r][kind[r]]] = document[r]] /\ Go(r, "sync")
     \/ data' = [data EXCEPT ![open[r][kind[r]]] = Partial] /\ Go(r, "discard")
  /\ UNCHANGED <<entry, synced, pid, memory, lost>>

SyncJson(r) ==
  /\ pc[r] = "sync"
  /\ \/ synced' = synced \cup {open[r][kind[r]]} /\ Go(r, "publish")
     \/ UNCHANGED synced /\ Go(r, "discard")
  /\ UNCHANGED <<entry, data, pid, memory, lost>>

\* hard_link again: this is the moment the path is committed.
PublishJson(r) ==
  /\ pc[r] = "publish"
  /\ \/ /\ entry[Target(r)] = NoFile
        /\ Bind(Target(r), entry[temporary[r][kind[r]]])
        /\ Go(r, "cleanup")
     \/ UNCHANGED entry /\ Go(r, "discard")
  /\ UNCHANGED <<data, synced, pid, memory, lost>>

\* After the commit a temporary name that cannot be removed is not an error.
Cleanup(r) ==
  /\ pc[r] = "cleanup"
  /\ RemoveTemporary(r) \/ UNCHANGED entry
  /\ IF kind[r] = "receipt" THEN AfterReceipt(r) ELSE End(r, "stored")
  /\ UNCHANGED <<data, synced, pid, memory, lost>>

\* Mutant: a portable copy that could not be published is not reported.
DiscardQuiet(r) ==
  /\ pc[r] = "discard"
  /\ RemoveTemporary(r) \/ UNCHANGED entry
  /\ End(r, IF kind[r] = "out" THEN "stored" ELSE "error")
  /\ UNCHANGED <<data, synced, pid, memory, lost>>

\* Before the commit it is the error that counts.
Discard(r) ==
  /\ pc[r] = "discard"
  /\ RemoveTemporary(r) \/ UNCHANGED entry
  /\ Fail(r)
  /\ UNCHANGED <<data, synced, pid, memory, lost>>

-----------------------------------------------------------------------------
(* The world.                                                              *)

Active(r) == pc[r] \notin {"idle", "ended"}

\* The process is killed; the disk stays as it is.
Kill(r) ==
  /\ Active(r)
  /\ End(r, "killed")
  /\ UNCHANGED <<disk, pid, memory, lost>>

\* Temporary files that no longer have the name they were created with.
Unlinked ==
  {x \in Runs \X Kinds : /\ temporary[x[1]][x[2]] # NoName
                         /\ entry[temporary[x[1]][x[2]]] # File(x[1], x[2])}

\* The power is lost: nothing syncs a directory, so any name may be missing
\* afterwards, a removed one may be back, and data that was not synced may be
\* incomplete.
PowerLoss ==
  /\ MayLosePower /\ ~lost
  /\ Cardinality({r \in Runs : pc[r] # "idle"}) <= MaxStarted
  /\ lost' = TRUE
  /\ \E kept \in SUBSET {n \in Names : entry[n] # NoFile}, back \in SUBSET Unlinked :
       entry' = [n \in Names |->
                   IF \E x \in back : n = temporary[x[1]][x[2]]
                     THEN LET x == CHOOSE x \in back : n = temporary[x[1]][x[2]]
                          IN  File(x[1], x[2])
                   ELSE IF n \in kept THEN entry[n] ELSE NoFile]
  /\ data' = [f \in Files |-> IF f \in synced \/ data[f] = Empty THEN data[f] ELSE Partial]
  /\ pc' = [r \in Runs |-> IF Active(r) THEN "ended" ELSE pc[r]]
  /\ result' = [r \in Runs |-> IF Active(r) THEN "killed" ELSE result[r]]
  /\ UNCHANGED <<synced, kind, pid, memory>>

Run(r) ==
  \/ Start(r) \/ Create(r) \/ CreateAgain(r) \/ CreateFails(r)
  \/ \E s \in Logs : CaptureLog(r, s)
  \/ CaptureFails(r) \/ SpawnFails(r)
  \/ Look(r) \/ LinkBlob(r) \/ Recheck(r) \/ Compare(r) \/ RemoveLog(r)
  \/ Build(r) \/ Exists(r) \/ Preflight(r) \/ WriteJson(r) \/ SyncJson(r)
  \/ PublishJson(r) \/ Cleanup(r) \/ Discard(r)

Finished == (\A r \in Runs : pc[r] = "ended") /\ UNCHANGED vars

Next ==
  \/ \E r \in Runs : Run(r) \/ Kill(r)
  \/ PowerLoss
  \/ Finished

Spec == Init /\ [][Next]_vars

-----------------------------------------------------------------------------
(* Properties.                                                             *)

Holds(n) == data[entry[n]]
BoundTo(n, content) == entry[n] # NoFile /\ Holds(n) = content

\* verify_blob: the log is there and is what the receipt says it is.
verify_blob(log) == BoundTo(BlobName(log.content), log)

ByRun(n) == entry[n] # NoFile /\ entry[n][1] # "old"

\* Evidence, once it has its final name, is never replaced or written to
\* again: by no other run, whatever its process id, and by no leftover of a
\* killed one.
CommittedStays ==
  [][~lost' => \A n \in FinalNames :
       entry[n] # NoFile => entry'[n] = entry[n] /\ data'[entry[n]] = data[entry[n]]]_vars

\* A final name that a run bound is bound to the whole of what belongs there,
\* and that is on disk: a reader never sees a part, nor does a power loss
\* that spares the name leave one.
NamesTellTruth ==
  \A n \in FinalNames :
    ByRun(n) => <<n, Holds(n)>> \in Fits /\ entry[n] \in synced

\* Every receipt in the store verifies: the logs it refers to are there and
\* intact, even when the store held a damaged blob of the same digest before,
\* or another run published or was killed publishing the same log.
ReceiptsHaveLogs ==
  ~lost => \A n \in JsonTargets :
    ByRun(n) => \A s \in Logs :
      Holds(n).logs[s] # Empty => verify_blob(Holds(n).logs[s])

\* What a run tells its caller is so: with exit 0, 1 or 7 the receipt is in
\* the store; with 0 or 1 the portable copy is this run's receipt, and of all
\* runs with that output path only one says so.
ResultTells ==
  ~lost =>
    /\ \A r \in Runs : result[r] \in {"stored", "recovery"} =>
         /\ BoundTo(ReceiptName(document[r]), document[r])
         /\ result[r] = "stored" /\ r \in Publishers => BoundTo(OutName, document[r])
    /\ \A q, r \in Publishers : result[q] = "stored" /\ result[r] = "stored" => q = r

\* A run that stored its receipt has left nothing in the store's tmp directory
\* that anything was written to: what it may leave are the capture files of a
\* command that could not be spawned, to which the receipt does not refer.
NoLogLeftBehind ==
  ~lost => \A r \in Runs : result[r] \in {"stored", "recovery"} =>
    \A n \in LogTemporaries, s \in Logs : entry[n] = File(r, s) =>
      document[r].logs = NoLogs /\ data[File(r, s)] = Empty

\* The store is a write-once map from final names to what fits them.
Store == INSTANCE WriteOnce WITH
  Keys <- FinalNames,
  Absent <- Empty,
  MayLose <- MayLosePower,
  bound <- [n \in FinalNames |-> IF entry[n] = NoFile THEN Empty ELSE Holds(n)]

WriteOnceSpec == Store!Spec

\* docs/RECEIPTS.md: the stored receipt is the primary durable record.  What a
\* run has reported stored is there after a power loss.
StoredIsDurable ==
  \A r \in Runs : result[r] \in {"stored", "recovery"} =>
    entry[ReceiptName(document[r])] # NoFile
=============================================================================
