---------------------------- MODULE CheckExecution ----------------------------
(***************************************************************************)
(* One call of execute_check (src/src/execute.rs): the supervisor that     *)
(* spawns a check's command in a process group of its own, polls it every  *)
(* 25 ms, terminates the group on cancellation, on the log limit or at the *)
(* deadline, joins the two capture threads and publishes the two logs.     *)
(*                                                                         *)
(* Six kinds of actor interleave: the supervisor, the two capture threads, *)
(* the leader of the process group (the command itself), the descendants   *)
(* it forks, the Ctrl-C handler and the clock.  Bytes are counted in       *)
(* units; a unit is the grain of a read, and a write never exceeds it.     *)
(***************************************************************************)
EXTENDS Integers, FiniteSets

CONSTANTS
  Kids,          \* descendants the command may ever fork
  MayEscape,     \* may a descendant leave the process group (setsid)?
  MayChangeUser, \* may a process run as another user (sudo)?
  MaxLogBytes,   \* --max-log-bytes-per-check, in units
  MaxWritten     \* bound: units the command and its descendants ever write

ASSUME KidsAssumption == IsFiniteSet(Kids)
ASSUME MayEscapeAssumption == MayEscape \in BOOLEAN /\ MayChangeUser \in BOOLEAN
ASSUME LimitAssumption == MaxLogBytes \in Nat \ {0}
ASSUME WrittenAssumption == MaxWritten \in Nat

Leader == "leader"
ASSUME LeaderAssumption == Leader \notin Kids

Streams == {"stdout", "stderr"}
Procs == Kids \cup {Leader}

\* The outcomes execute_check itself returns; Skipped is run_checks' own.
ForcedOutcomes == {"Cancelled", "LogLimitExceeded", "TimedOut"}
Outcomes == ForcedOutcomes \cup {"Passed", "Failed", "SpawnFailed"}
None == "none"

\* Supervisor steps, in the order of the code; "failed" is a returned Err.
Polling == {"try_wait", "see_cancel", "see_limit", "see_deadline"}
Terminating == {"term_group", "grace", "sweep_group", "kill_group", "wait"}
Orphaning == {"probe_group", "kill_orphans"}
Collecting == {"join_stdout", "join_stderr", "persist_stdout", "persist_stderr"}
Ended == {"done", "failed"}
Steps == {"create", "spawn"} \cup Polling \cup Terminating \cup Orphaning
           \cup Collecting \cup Ended

VARIABLES
  step,        \* where the supervisor is
  forced,      \* forced_outcome, or None
  outcome,     \* the outcome of the CheckExecution returned, or None
  leader,      \* "unborn", "running", "zombie" or "reaped"
  success,     \* status.success() of the leader once it has exited
  group,       \* live descendants in the leader's process group
  escaped,     \* live descendants in a session of their own
  shielded,    \* live processes of the group that changed their user, or whose
               \* ancestor did: kill() may be refused them (EPERM)
  forked,      \* descendants forked so far
  holders,     \* stream -> live processes that hold its write end
  written,     \* stream -> units written to the pipe
  read,        \* stream -> units the capture thread wrote to the log file
  thread,      \* stream -> step of its capture thread
  total,       \* total_bytes, shared by the two threads
  limitHit,    \* log_limit_exceeded
  cancelled,   \* the cancellation token
  expired,     \* Instant::now() >= deadline
  graceOver,   \* the termination grace period has run out
  tmp,         \* streams whose capture file is in the store's tmp directory
  blobs        \* streams whose log has been published as a blob

supervisor == <<step, forced, outcome>>
processes == <<leader, success, group, escaped, shielded, forked, holders, written>>
threads == <<read, thread, total, limitHit>>
environment == <<cancelled, expired>>
files == <<tmp, blobs>>
vars == <<step, forced, outcome, leader, success, group, escaped, shielded,
          forked, holders, written, read, thread, total, limitHit, cancelled, expired,
          graceOver, tmp, blobs>>

LiveProcs == (IF leader = "running" THEN {Leader} ELSE {}) \cup group \cup escaped

\* A thread that stopped reading with an error has dropped its end of the
\* pipe, so later writes to it fail and are not seen by anybody.
Drained(s) == thread[s] \in {"eof", "error"}

TypeSupervisor ==
  /\ step \in Steps
  /\ forced \in ForcedOutcomes \cup {None}
  /\ outcome \in Outcomes \cup {None}

TypeProcesses ==
  /\ leader \in {"unborn", "running", "zombie", "reaped"} /\ success \in BOOLEAN
  /\ group \in SUBSET Kids /\ escaped \in SUBSET Kids /\ forked \in SUBSET Kids
  /\ shielded \in SUBSET Procs
  /\ holders \in [Streams -> SUBSET Procs]
  /\ written \in [Streams -> Nat]

TypeThreads ==
  /\ read \in [Streams -> Nat]
  /\ thread \in [Streams -> {"unstarted", "reading", "adding", "flagging",
                             "eof", "error"}]
  /\ total \in Nat /\ limitHit \in BOOLEAN

TypeOutside ==
  /\ cancelled \in BOOLEAN /\ expired \in BOOLEAN /\ graceOver \in BOOLEAN
  /\ tmp \in SUBSET Streams /\ blobs \in SUBSET Streams

TypeOK == TypeSupervisor /\ TypeProcesses /\ TypeThreads /\ TypeOutside

Init ==
  /\ step = "create" /\ forced = None /\ outcome = None
  /\ leader = "unborn" /\ success = FALSE
  /\ group = {} /\ escaped = {} /\ shielded = {} /\ forked = {}
  /\ holders = [s \in Streams |-> {}]
  /\ written = [s \in Streams |-> 0]
  /\ read = [s \in Streams |-> 0]
  /\ thread = [s \in Streams |-> "unstarted"]
  /\ total = 0 /\ limitHit = FALSE
  /\ cancelled \in BOOLEAN          \* Ctrl-C may predate this check
  /\ expired = FALSE /\ graceOver = FALSE
  /\ tmp = {} /\ blobs = {}

-----------------------------------------------------------------------------
(* The command and its descendants, and the rest of the environment.       *)

\* Processes p stop running and the kernel closes what they held.
Die(p) ==
  /\ holders' = [s \in Streams |-> holders[s] \ p]
  /\ shielded' = shielded \ p

\* Exit of the leader, with any status, whether or not it was signalled.
LeaderExits ==
  /\ leader = "running"
  /\ leader' = "zombie"
  /\ success' \in BOOLEAN
  /\ Die({Leader})
  /\ UNCHANGED <<supervisor, group, escaped, forked, written, threads,
                 environment, graceOver, files>>

\* A live process forks a descendant into its own group, which inherits some
\* of the write ends its parent holds (the rest are redirected).
Fork ==
  \E p \in LiveProcs, k \in Kids \ forked, kept \in SUBSET Streams :
    /\ forked' = forked \cup {k}
    /\ IF p \in escaped
         THEN escaped' = escaped \cup {k} /\ group' = group
         ELSE group' = group \cup {k} /\ escaped' = escaped
    /\ shielded' = IF p \in shielded THEN shielded \cup {k} ELSE shielded
    /\ holders' = [s \in Streams |->
                     IF s \in kept /\ p \in holders[s]
                       THEN holders[s] \cup {k} ELSE holders[s]]
    /\ UNCHANGED <<supervisor, leader, success, written, threads, environment,
                   graceOver, files>>

\* A descendant leaves the process group for a session of its own.
Escape ==
  /\ MayEscape
  /\ \E k \in group :
       /\ group' = group \ {k}
       /\ escaped' = escaped \cup {k}
       /\ shielded' = shielded \ {k}
  /\ UNCHANGED <<supervisor, leader, success, forked, holders, written,
                 threads, environment, graceOver, files>>

\* A process of the group executes a program that runs as another user, with
\* all its ids.
ChangeUser ==
  /\ MayChangeUser
  /\ \E p \in LiveProcs \ (escaped \cup shielded) : shielded' = shielded \cup {p}
  /\ UNCHANGED <<supervisor, leader, success, group, escaped, forked, holders,
                 written, threads, environment, graceOver, files>>

KidExits ==
  \E k \in group \cup escaped :
    /\ group' = group \ {k}
    /\ escaped' = escaped \ {k}
    /\ Die({k})
    /\ UNCHANGED <<supervisor, leader, success, forked, written, threads,
                   environment, graceOver, files>>

Write(s) ==
  /\ holders[s] # {}
  /\ ~Drained(s)
  /\ written["stdout"] + written["stderr"] < MaxWritten
  /\ written' = [written EXCEPT ![s] = @ + 1]
  /\ UNCHANGED <<supervisor, leader, success, group, escaped, shielded, forked,
                 holders, threads, environment, graceOver, files>>

\* The Ctrl-C handler: CancellationToken::cancel.
Cancel ==
  /\ ~cancelled
  /\ cancelled' = TRUE
  /\ UNCHANGED <<supervisor, processes, threads, expired, graceOver, files>>

\* max_runtime_ms have passed since the call began.
DeadlinePasses ==
  /\ ~expired
  /\ expired' = TRUE
  /\ UNCHANGED <<supervisor, processes, threads, cancelled, graceOver, files>>

\* TERMINATION_GRACE_PERIOD has passed since SIGTERM.
GraceEnds ==
  /\ step = "grace" /\ ~graceOver
  /\ graceOver' = TRUE
  /\ UNCHANGED <<supervisor, processes, threads, environment, files>>

-----------------------------------------------------------------------------
(* The capture threads (capture_stream).                                   *)

\* read() returns part of what is in the pipe, which goes to the log file.
Capture(s) ==
  /\ thread[s] = "reading"
  /\ read[s] < written[s]
  /\ read' = [read EXCEPT ![s] = @ + 1]
  /\ thread' = [thread EXCEPT ![s] = "adding"]
  /\ UNCHANGED <<supervisor, processes, total, limitHit, environment,
                 graceOver, files>>

\* total_bytes.fetch_add; the value it returned decides whether to flag.
AddTotal(s) ==
  /\ thread[s] = "adding"
  /\ total' = total + 1
  /\ thread' = [thread EXCEPT ![s] =
                  IF total + 1 > MaxLogBytes THEN "flagging" ELSE "reading"]
  /\ UNCHANGED <<supervisor, processes, read, limitHit, environment,
                 graceOver, files>>

FlagLimit(s) ==
  /\ thread[s] = "flagging"
  /\ limitHit' = TRUE
  /\ thread' = [thread EXCEPT ![s] = "reading"]
  /\ UNCHANGED <<supervisor, processes, read, total, environment, graceOver,
                 files>>

\* read() returns 0: the pipe is empty and nobody holds its write end.
EndOfStream(s) ==
  /\ thread[s] = "reading"
  /\ read[s] = written[s] /\ holders[s] = {}
  /\ thread' = [thread EXCEPT ![s] = "eof"]
  /\ UNCHANGED <<supervisor, processes, read, total, limitHit, environment,
                 graceOver, files>>

\* read, write_all or sync_all fails and the thread returns the error.
CaptureFails(s) ==
  /\ thread[s] = "reading"
  /\ thread' = [thread EXCEPT ![s] = "error"]
  /\ UNCHANGED <<supervisor, processes, read, total, limitHit, environment,
                 graceOver, files>>

-----------------------------------------------------------------------------
(* The supervisor.                                                         *)

\* resolve_working_directory and create_capture_file for both streams.  A
\* failure of the second removes the file of the first, if that succeeds.
CreateCaptures ==
  /\ step = "create"
  /\ \/ step' = "spawn" /\ tmp' = Streams
     \/ step' = "failed" /\ tmp' \in {{}, {"stdout"}}
  /\ UNCHANGED <<forced, outcome, processes, threads, environment, graceOver,
                 blobs>>

Spawn ==
  /\ step = "spawn"
  /\ leader' = "running"
  /\ holders' = [s \in Streams |-> {Leader}]
  /\ thread' = [s \in Streams |-> "reading"]
  /\ step' = "try_wait"
  /\ UNCHANGED <<forced, outcome, success, group, escaped, shielded, forked,
                 written, read, total, limitHit, environment, graceOver, files>>

\* Both capture files are removed, each if that succeeds: the outcome does not
\* depend on it.
SpawnFails ==
  /\ step = "spawn"
  /\ tmp' \in SUBSET Streams
  /\ outcome' = "SpawnFailed"
  /\ step' = "done"
  /\ UNCHANGED <<forced, processes, threads, environment, graceOver, blobs>>

Goto(next) ==
  /\ step' = next
  /\ UNCHANGED <<forced, outcome, processes, threads, environment, graceOver,
                 files>>

\* Reaping the leader frees nothing else: its descendants keep the group.
Reap(next) ==
  /\ leader = "zombie"
  /\ leader' = "reaped"
  /\ step' = next
  /\ UNCHANGED <<forced, outcome, success, group, escaped, shielded, forked,
                 holders, written, threads, environment, graceOver, files>>

\* try_wait_without_interruption in the polling loop.
TryWait ==
  /\ step = "try_wait"
  /\ \/ Reap("probe_group")
     \/ leader # "zombie" /\ Goto("see_cancel")

\* The three reasons to stop the check, in the order the loop looks at them;
\* the first that holds decides the outcome, whatever happens afterwards.
ForceStop(at, reason, why, otherwise) ==
  /\ step = at
  /\ \/ reason /\ step' = "term_group" /\ forced' = why
     \/ ~reason /\ step' = otherwise /\ UNCHANGED forced
  /\ UNCHANGED <<outcome, processes, threads, environment, graceOver, files>>

\* Mutant: the loop never looks at the token.
SeeCancelNever == step = "see_cancel" /\ Goto("see_limit")

SeeCancel == ForceStop("see_cancel", cancelled, "Cancelled", "see_limit")
SeeLimit == ForceStop("see_limit", limitHit, "LogLimitExceeded", "see_deadline")
SeeDeadline == ForceStop("see_deadline", expired, "TimedOut", "try_wait")

\* SIGTERM to the group.  What the members do about it is up to them: they
\* exit (LeaderExits, KidExits), fork, write on or ignore it, if it reaches them.
TermGroup == step = "term_group" /\ Goto("grace")

\* The grace loop: poll the leader until it is reaped or the time is over.
GracePoll ==
  /\ step = "grace"
  /\ \/ ~graceOver /\ Reap("sweep_group")
     \/ graceOver /\ Goto("kill_group")

\* SIGKILL to the group.  A killed process runs no further instruction.  kill()
\* succeeds if it reaches one member; those it is refused live on.
KillGroup(next) ==
  /\ step' = next
  /\ \E spared \in SUBSET shielded :
       /\ group' = group \cap spared
       /\ IF leader = "running" /\ Leader \notin spared
            THEN leader' = "zombie" /\ success' = FALSE
            ELSE UNCHANGED <<leader, success>>
       /\ Die(LiveProcs \ (escaped \cup spared))
  /\ UNCHANGED <<forced, outcome, escaped, forked, written, threads,
                 environment, graceOver, files>>

\* Mutants: a kill is left out.
SweepGroupSkipped == step = "sweep_group" /\ Goto("join_stdout")
HardKillSkipped == step = "kill_group" /\ Goto("wait")

\* The leader exited within the grace period: sweep what is left of its group.
\* Here and in KillOrphans an error of kill() is ignored; that of HardKill is in
\* SuperviseFails.
SweepGroup == step = "sweep_group" /\ KillGroup("join_stdout")
HardKill == step = "kill_group" /\ KillGroup("wait")
WaitLeader == step = "wait" /\ Reap("join_stdout")

\* Mutant: a group that outlives its leader is left alone.
ProbeGroupSkipped == step = "probe_group" /\ Goto("join_stdout")

\* terminate_orphaned_process_group: when a group outlived its leader, SIGTERM,
\* 100 ms, SIGKILL.  A refused probe tells as well that somebody is there.
ProbeGroup ==
  /\ step = "probe_group"
  /\ Goto(IF group # {} THEN "kill_orphans" ELSE "join_stdout")
KillOrphans == step = "kill_orphans" /\ KillGroup("join_stdout")

\* Waiting for or signalling the child failed: execute_check returns at once,
\* with the child, the threads and the capture files as they are.
SuperviseFails ==
  /\ step \in {"try_wait", "term_group", "grace", "kill_group", "wait"}
  /\ Goto("failed")

\* join_capture: blocks until the thread has returned.
Join(at, s, next) ==
  /\ step = at
  /\ Drained(s)
  /\ Goto(IF thread[s] = "eof" THEN next ELSE "failed")

\* Mutant: only one of the two threads is joined.
JoinStdoutOnly == Join("join_stdout", "stdout", "persist_stdout")

JoinStdout == Join("join_stdout", "stdout", "join_stderr")
JoinStderr == Join("join_stderr", "stderr", "persist_stdout")

\* Mutant: the capture file goes before the log has its blob.
PersistMoving(at, s, next) ==
  /\ step = at
  /\ tmp' = tmp \ {s}
  /\ \/ step' = next /\ blobs' = blobs \cup {s}
     \/ step' = "failed" /\ UNCHANGED blobs
  /\ UNCHANGED <<forced, processes, threads, environment, graceOver>>

\* store_blob publishes the log under its digest and drops the capture file;
\* it may fail before either or between the two.
Persist(at, s, next) ==
  /\ step = at
  /\ \/ /\ step' = next
        /\ blobs' = blobs \cup {s} /\ tmp' = tmp \ {s}
     \/ /\ step' = "failed"
        /\ blobs' \in {blobs, blobs \cup {s}} /\ tmp' = tmp
  /\ UNCHANGED <<forced, processes, threads, environment, graceOver>>

PersistStdout ==
  Persist("persist_stdout", "stdout", "persist_stderr") /\ UNCHANGED outcome

\* Mutants: the total is not looked at again after the joins; a name that is
\* not execute_check's is used for a command that failed.
VerdictByStatus ==
  IF forced # None THEN forced ELSE IF success THEN "Passed" ELSE "Failed"
VerdictSkipping ==
  IF forced # None THEN forced ELSE IF success THEN "Passed" ELSE "Skipped"

\* The outcome, computed after both threads have returned.
Verdict ==
  IF forced # None THEN forced
  ELSE IF total > MaxLogBytes THEN "LogLimitExceeded"
  ELSE IF success THEN "Passed" ELSE "Failed"

PersistStderr ==
  /\ Persist("persist_stderr", "stderr", "done")
  /\ outcome' = IF step' = "done" THEN Verdict ELSE outcome

-----------------------------------------------------------------------------
Supervise ==
  \/ CreateCaptures \/ Spawn \/ SpawnFails
  \/ TryWait \/ SeeCancel \/ SeeLimit \/ SeeDeadline
  \/ TermGroup \/ GracePoll \/ SweepGroup \/ HardKill \/ WaitLeader
  \/ ProbeGroup \/ KillOrphans
  \/ JoinStdout \/ JoinStderr \/ PersistStdout \/ PersistStderr

CaptureThread(s) == Capture(s) \/ AddTotal(s) \/ FlagLimit(s) \/ EndOfStream(s)

Faults == SuperviseFails \/ \E s \in Streams : CaptureFails(s)

World ==
  \/ LeaderExits \/ Fork \/ Escape \/ ChangeUser \/ KidExits
  \/ \E s \in Streams : Write(s)
  \/ Cancel \/ DeadlinePasses \/ GraceEnds

Returned == step \in Ended /\ UNCHANGED vars

Next ==
  \/ Supervise
  \/ \E s \in Streams : CaptureThread(s)
  \/ Faults \/ World \/ Returned

Spec == Init /\ [][Next]_vars

(* Fairness: the supervisor and the two threads are OS threads that the    *)
(* scheduler runs, and the grace period passes.  Nothing is assumed of the *)
(* command: it may run, ignore SIGTERM or hold its pipes for ever.  No     *)
(* fault is fair, so no wait ends only because a fault must happen; nor is *)
(* the deadline, so a check stopped by Ctrl-C is stopped by Ctrl-C.        *)
Fairness ==
  /\ WF_vars(Supervise)
  /\ \A s \in Streams : WF_vars(CaptureThread(s))
  /\ WF_vars(GraceEnds)

FairSpec == Spec /\ Fairness

-----------------------------------------------------------------------------
(* Properties.                                                             *)

Written == written["stdout"] + written["stderr"]

\* A check that ran to a recorded outcome has both logs published, each log is
\* everything that was ever written to its pipe, and no live process can add
\* to it: the capture threads are joined before the outcome is computed.
LogsComplete ==
  step = "done" /\ outcome # "SpawnFailed" =>
    \A s \in Streams : s \in blobs /\ read[s] = written[s] /\ holders[s] = {}

\* A check whose two logs together exceed the limit is never recorded as
\* Passed or Failed, even when the command exits before the supervisor polls
\* the flag or a thread is still counting; and LogLimitExceeded is recorded
\* only of a check that did exceed it.
LimitDecides ==
  step = "done" =>
    /\ outcome \in {"Passed", "Failed"} => Written <= MaxLogBytes
    /\ outcome = "LogLimitExceeded" => Written > MaxLogBytes

\* When the call returns an outcome, the leader has been reaped; what is alive
\* of its group are processes that refused the signal, and what these fork
\* later.  None of them holds a log.
NoSurvivor ==
  step = "done" =>
    /\ leader \in {"unborn", "reaped"}
    /\ group \subseteq shielded /\ \A s \in Streams : group \cap holders[s] = {}

\* Whatever fails, a log of a command that ran is never lost: it is a capture
\* file or a blob.  Capture files outlive the call only with an error, or with
\* a command that could not be spawned, which leaves no blob.
FilesSettled ==
  /\ leader # "unborn" => tmp \cup blobs = Streams
  /\ leader = "unborn" => blobs = {}
  /\ step = "done" /\ outcome # "SpawnFailed" => tmp = {}

\* src/src/main.rs: the hard wall-clock limit per check.  Once it has passed,
\* execute_check returns.
DeadlineEnforced == expired ~> (step \in Ended)

\* From some moment on every process of the check can be killed with its group.
AllReachable == <>[](escaped = {} /\ shielded = {})

\* The limit is kept unless a process that left the group or may refuse its
\* signals lives on: it may hold a pipe, or be the leader.
DeadlineMet == AllReachable => DeadlineEnforced

\* Ctrl-C ends the check that is running, with the same exception.
CancellationMet == AllReachable => (cancelled ~> (step \in Ended))

\* Every behaviour of the supervisor is one CheckContract allows its caller to
\* rely on.  An unreaped leader still counts as alive.
Contract == INSTANCE CheckContract WITH
  Processes <- Procs,
  Limit <- MaxLogBytes,
  status <- CASE step = "done" -> "returned"
              [] step = "failed" -> "failed"
              [] OTHER -> "running",
  verdict <- outcome,
  immune <- shielded,
  alive <- group \cup (IF leader \in {"running", "zombie"} THEN {Leader} ELSE {}),
  logged <- Written

ContractSpec == Contract!Spec
=============================================================================
